----------------------- MODULE RVCSWController_proofs -----------------------
(***************************************************************************)
(* Proofs about the controller, for every policy (level and duration) and  *)
(* every order of reports.  First contracts of the operators (one lemma    *)
(* per operator, cited by name), then the inductive invariant, one lemma   *)
(* per public method, and the theorems about Spec.                         *)
(***************************************************************************)
EXTENDS RVCSWController, TLAPS

ACS == AutomaticCleaningStates

DeviceStates ==
    [drive : DriveStates, power : PowerStates, timer : BOOLEAN,
     calls : Seq(DeviceCalls)]

-----------------------------------------------------------------------------
(***************************************************************************)
(* Contracts of the device operators.                                      *)
(***************************************************************************)

\* Movements: the last one is the new state of the drive, nothing else moves.
LEMMA MovementContract ==
    ASSUME NEW d \in DeviceStates, NEW ms \in Seq(MovementCommands)
    PROVE  LET e == ExecuteMovementCommands(d, ms)
           IN  /\ e \in DeviceStates
               /\ e.drive = IF ms = <<>> THEN d.drive ELSE ms[Len(ms)]
               /\ e.power = d.power
               /\ e.timer = d.timer
<1>1. CASE ms = <<>>
  BY <1>1 DEF ExecuteMovementCommands
<1>2. CASE ms # <<>>
  <2>1. ms[Len(ms)] \in MovementCommands
    BY <1>2
  <2>2. d.calls \o ms \in Seq(DeviceCalls)
    <3>1. ms \in Seq(DeviceCalls)
      BY DEF DeviceCalls
    <3> QED BY <3>1 DEF DeviceStates
  <2> QED
    BY <1>2, <2>1, <2>2 DEF ExecuteMovementCommands, DeviceStates, DriveStates
<1> QED BY <1>1, <1>2

\* A power command sets the power to its level and touches nothing else.
LEMMA SetPowerContract ==
    ASSUME NEW d \in DeviceStates, NEW level \in PowerLevels
    PROVE  LET e == SetCleaningPower(d, level)
           IN  /\ e \in DeviceStates
               /\ e.drive = d.drive
               /\ e.power = level
               /\ e.timer = d.timer
<1>1. \A c \in DeviceCalls : Append(d.calls, c) \in Seq(DeviceCalls)
  BY DEF DeviceStates
<1>2. /\ "SetNormal" \in DeviceCalls
      /\ "SetIncreased" \in DeviceCalls
  BY DEF DeviceCalls, PowerCalls
<1> QED BY <1>1, <1>2 DEF SetCleaningPower, DeviceStates, PowerStates

\* Kept or set, the power ends at the commanded level, if there is one.
LEMMA CleaningContract ==
    ASSUME NEW d \in DeviceStates, NEW a \in ACS,
           NEW level \in PowerLevels \cup {NoLevel}
    PROVE  LET e == ExecuteCleaningCommand(d, a, level)
           IN  /\ e \in DeviceStates
               /\ e.drive = d.drive
               /\ e.power = IF level = NoLevel THEN d.power ELSE level
               /\ e.timer = d.timer
<1>1. \A c \in DeviceCalls : Append(d.calls, c) \in Seq(DeviceCalls)
  BY DEF DeviceStates
<1>2. "KeepIncreased" \in DeviceCalls
  BY DEF DeviceCalls, PowerCalls
<1>3. CASE level = NoLevel
  BY <1>3 DEF ExecuteCleaningCommand
<1>4. CASE level # NoLevel /\ a.dustActive /\ level = "Increased"
  BY <1>1, <1>2, <1>4
  DEF ExecuteCleaningCommand, DeviceStates, PowerStates, PowerLevels
<1>5. CASE level # NoLevel /\ ~(a.dustActive /\ level = "Increased")
  BY <1>5, SetPowerContract DEF ExecuteCleaningCommand
<1> QED BY <1>3, <1>4, <1>5

\* The timer starts when it is wanted and the policy's duration is not zero.
LEMMA TimerContract ==
    ASSUME NEW d \in DeviceStates, NEW wanted \in BOOLEAN
    PROVE  LET e == StartTimerIfNeeded(d, wanted)
           IN  /\ e \in DeviceStates
               /\ e.drive = d.drive
               /\ e.power = d.power
               /\ e.timer <=> d.timer \/ (wanted /\ IncreasedPowerDuration # 0)
<1>1. Append(d.calls, "StartTimer") \in Seq(DeviceCalls)
  BY DEF DeviceStates, DeviceCalls
<1> QED BY <1>1 DEF StartTimerIfNeeded, DeviceStates

\* apply: what the CommandResult asks of each device is what each ends with.
LEMMA ApplyContract ==
    ASSUME NEW d \in DeviceStates, NEW o,
           o.ac \in ACS, o.result \in CommandResults
    PROVE  LET e == Apply(d, o).dev
               ms == o.result.moves
           IN  /\ Apply(d, o).ac = o.ac
               /\ e \in DeviceStates
               /\ e.drive = IF ms = <<>> THEN d.drive ELSE ms[Len(ms)]
               /\ e.power = IF o.result.cleaning = NoLevel THEN d.power
                            ELSE o.result.cleaning
               /\ e.timer <=> \/ d.timer
                              \/ o.result.timer /\ IncreasedPowerDuration # 0
<1> DEFINE r == o.result
           d1 == ExecuteCleaningCommand(d, o.ac, r.cleaning)
           d2 == ExecuteMovementCommands(d1, r.moves)
<1>1. /\ r.moves \in Seq(MovementCommands)
      /\ r.cleaning \in PowerLevels \cup {NoLevel}
      /\ r.timer \in BOOLEAN
  BY DEF CommandResults
<1>2. /\ d1 \in DeviceStates
      /\ d1.drive = d.drive
      /\ d1.power = IF r.cleaning = NoLevel THEN d.power ELSE r.cleaning
      /\ d1.timer = d.timer
  BY <1>1, CleaningContract
<1> HIDE DEF d1
<1>3. /\ d2 \in DeviceStates
      /\ d2.drive = IF r.moves = <<>> THEN d1.drive ELSE r.moves[Len(r.moves)]
      /\ d2.power = d1.power
      /\ d2.timer = d1.timer
  BY <1>1, <1>2, MovementContract
<1> HIDE DEF d2
<1>4. /\ Apply(d, o).ac = o.ac
      /\ Apply(d, o).dev = StartTimerIfNeeded(d2, r.timer)
  BY DEF Apply, d1, d2
<1> QED BY <1>1, <1>2, <1>3, <1>4, TimerContract

-----------------------------------------------------------------------------
(***************************************************************************)
(* Contracts of the decision operators.                                    *)
(***************************************************************************)

\* What the methods keep true of the members between themselves.
BlockOK(a) ==
    /\ a.confirmed <=> a.probeResult = "Blocked"
    /\ a.probeResult # "Open"
    /\ a.stopIssued => a.confirmed
    /\ a.confirmed => ~a.probeActive

\* A decision or method that leaves the dust response alone.
SameResponse(a, b) ==
    /\ b.dustActive = a.dustActive
    /\ b.dustLevel = a.dustLevel
    /\ b.pending = a.pending

\* The power a method asks for when it drives on.
ResponsePower(a) == IF a.dustActive THEN a.dustLevel ELSE "Normal"

\* The lists of movements a CommandResult carries, and their last elements.
LEMMA SequenceFacts ==
    /\ \A m \in MovementCommands :
         /\ <<m>> \in Seq(MovementCommands)
         /\ <<m>> # <<>>
         /\ <<m>>[Len(<<m>>)] = m
    /\ \A m, n \in MovementCommands :
         /\ <<m, n>> \in Seq(MovementCommands)
         /\ <<m, n>> # <<>>
         /\ <<m, n>>[Len(<<m, n>>)] = n
    /\ <<>> \in Seq(MovementCommands)
  OBVIOUS

\* Clearing the block leaves none, and keeps everything but the block.
LEMMA ClearContract ==
    ASSUME NEW a \in ACS
    PROVE  LET b == ClearThreeSideBlock(a)
           IN  /\ b \in ACS
               /\ ~b.confirmed /\ ~b.stopIssued
               /\ b.probeResult = IF a.probeActive THEN a.probeResult
                                  ELSE "Unknown"
               /\ b.probeActive = a.probeActive
               /\ b.status = a.status
               /\ SameResponse(a, b)
  BY DEF ClearThreeSideBlock, ACS, AutomaticCleaningStates, RightProbeResults,
         SameResponse

\* A CommandResult of movements alone commands neither power nor timer.
LEMMA MovingContract ==
    ASSUME NEW ms \in Seq(MovementCommands)
    PROVE  /\ Moving(ms) \in CommandResults
           /\ Moving(ms).moves = ms
           /\ Moving(ms).cleaning = NoLevel
           /\ Moving(ms).timer = FALSE
  BY DEF Moving, NoCommands, CommandResults

\* In front of an obstacle the robot stops and starts to avoid it.
LEMMA StopContract ==
    ASSUME NEW a \in ACS, BlockOK(a)
    PROVE  LET o == StopAndAvoid(a)
           IN  /\ o.ac \in ACS /\ o.result \in CommandResults
               /\ o.ac.status = "AvoidingObstacle"
               /\ BlockOK(o.ac) /\ SameResponse(a, o.ac)
               /\ o.ac.probeActive = a.probeActive
               /\ o.result.moves = <<"Stop">>
               /\ o.result.cleaning = NoLevel
               /\ o.result.timer = FALSE
<1>1. <<"Stop">> \in Seq(MovementCommands)
  BY SequenceFacts DEF MovementCommands
<1>2. StopAndAvoid(a).result = Moving(<<"Stop">>)
  BY DEF StopAndAvoid
<1>3. LET b == StopAndAvoid(a).ac
      IN  /\ b \in ACS /\ b.status = "AvoidingObstacle"
          /\ BlockOK(b) /\ SameResponse(a, b)
          /\ b.probeActive = a.probeActive
  BY DEF StopAndAvoid, ACS, AutomaticCleaningStates, MovementStatus, BlockOK,
         SameResponse
<1> QED BY <1>1, <1>2, <1>3, MovingContract

\* Driving on sets the status Cleaning and asks for the response's power.
LEMMA DriveOnContract ==
    ASSUME NEW a \in ACS, BlockOK(a)
    PROVE  LET o == DriveOn(a)
           IN  /\ o.ac \in ACS /\ o.result \in CommandResults
               /\ o.ac.status = "Cleaning"
               /\ BlockOK(o.ac) /\ SameResponse(a, o.ac)
               /\ o.ac.probeActive = a.probeActive
               /\ o.result.moves = <<"MoveForward">>
               /\ o.result.cleaning = ResponsePower(a)
               /\ o.result.timer = FALSE
<1>1. [a EXCEPT !.status = "Cleaning"] \in ACS
  BY DEF ACS, AutomaticCleaningStates, MovementStatus
<1>2. /\ Moving(<<"MoveForward">>) \in CommandResults
      /\ Moving(<<"MoveForward">>).moves = <<"MoveForward">>
      /\ Moving(<<"MoveForward">>).timer = FALSE
  BY SequenceFacts, MovingContract DEF MovementCommands
<1> QED
  BY <1>1, <1>2
  DEF DriveOn, MaintainCurrentCleaningPower, CommandResults, PowerLevels, ACS,
      AutomaticCleaningStates, BlockOK, SameResponse, ResponsePower

\* The same for a robot that was not avoiding anything; it clears the block.
LEMMA NormalCleaningContract ==
    ASSUME NEW a \in ACS, BlockOK(a)
    PROVE  LET o == NormalCleaningResult(a)
           IN  /\ o.ac \in ACS /\ o.result \in CommandResults
               /\ o.ac.status = "Cleaning"
               /\ BlockOK(o.ac) /\ SameResponse(a, o.ac)
               /\ o.ac.probeActive = a.probeActive
               /\ o.result.moves = <<"MoveForward">>
               /\ o.result.cleaning = ResponsePower(a)
               /\ o.result.timer = FALSE
<1> DEFINE c == [a EXCEPT !.status = "Cleaning"]
           b == ClearThreeSideBlock(c)
<1>1. c \in ACS /\ c.status = "Cleaning" /\ SameResponse(a, c)
      /\ c.probeActive = a.probeActive /\ c.probeResult = a.probeResult
  BY DEF ACS, AutomaticCleaningStates, MovementStatus, SameResponse
<1>2. /\ b \in ACS /\ b.status = "Cleaning" /\ SameResponse(a, b)
      /\ BlockOK(b) /\ b.probeActive = a.probeActive
  BY <1>1, ClearContract DEF SameResponse, BlockOK
<1>3. /\ Moving(<<"MoveForward">>) \in CommandResults
      /\ Moving(<<"MoveForward">>).moves = <<"MoveForward">>
      /\ Moving(<<"MoveForward">>).timer = FALSE
  BY SequenceFacts, MovingContract DEF MovementCommands
<1>4. /\ NormalCleaningResult(a).ac = b
      /\ NormalCleaningResult(a).result =
           MaintainCurrentCleaningPower(b, Moving(<<"MoveForward">>))
  BY DEF NormalCleaningResult
<1> HIDE DEF b
<1> QED
  BY <1>2, <1>3, <1>4
  DEF MaintainCurrentCleaningPower, CommandResults, PowerLevels, ACS,
      AutomaticCleaningStates, SameResponse, ResponsePower

\* Seen in the open or in front of an obstacle: drive on, or stop and avoid.
LEMMA SensorStateContract ==
    ASSUME NEW a \in ACS, NEW s \in SensorStates, BlockOK(a)
    PROVE  LET o == HandleSensorState(a, s)
           IN  /\ o.ac \in ACS /\ o.result \in CommandResults
               /\ BlockOK(o.ac) /\ SameResponse(a, o.ac)
               /\ o.ac.probeActive = a.probeActive
               /\ s.front => /\ o.ac.status = "AvoidingObstacle"
                             /\ o.result.moves = <<"Stop">>
                             /\ o.result.cleaning = NoLevel
               /\ ~s.front => /\ o.ac.status = "Cleaning"
                              /\ o.result.moves = <<"MoveForward">>
                              /\ o.result.cleaning = ResponsePower(a)
               /\ o.result.timer = FALSE
  BY StopContract, NormalCleaningContract DEF HandleSensorState

\* After a turn: drive on, or stop for the obstacle now ahead.
LEMMA ResumeContract ==
    ASSUME NEW a \in ACS, NEW s \in SensorStates, BlockOK(a)
    PROVE  LET o == ResumeAfterTurn(a, s)
           IN  /\ o.ac \in ACS /\ o.result \in CommandResults
               /\ BlockOK(o.ac) /\ SameResponse(a, o.ac)
               /\ o.ac.probeActive = a.probeActive
               /\ s.front => /\ o.ac.status = "AvoidingObstacle"
                             /\ o.result.moves = <<"Stop">>
                             /\ o.result.cleaning = NoLevel
               /\ ~s.front => /\ o.ac.status = "Cleaning"
                              /\ o.result.moves = <<"MoveForward">>
                              /\ o.result.cleaning = ResponsePower(a)
               /\ o.result.timer = FALSE
  BY StopContract, DriveOnContract DEF ResumeAfterTurn

\* The decision: a probe is resolved, or the left side decides.
LEMMA SelectContract ==
    ASSUME NEW a \in ACS, NEW s \in SensorStates, BlockOK(a)
    PROVE  LET c == SelectAvoidanceDirection(a, s)
           IN  /\ c.ac \in ACS
               /\ BlockOK(c.ac) /\ SameResponse(a, c.ac)
               /\ c.decision =
                    IF a.probeActive
                    THEN IF s.front THEN "Backward" ELSE "Right"
                    ELSE IF s.left THEN "RightProbe" ELSE "Left"
               /\ c.decision = "Backward" =>
                    c.ac.status = "Blocked" /\ c.ac.confirmed
               /\ c.decision # "Backward" =>
                    c.ac.status = "AvoidingObstacle" /\ ~c.ac.confirmed
               /\ c.ac.probeActive <=> c.decision = "RightProbe"
<1>1. CASE a.probeActive /\ s.front
  BY <1>1
  DEF SelectAvoidanceDirection, ProbeFoundBlocked, ACS,
      AutomaticCleaningStates, MovementStatus, RightProbeResults, BlockOK,
      SameResponse
<1>2. CASE a.probeActive /\ ~s.front
  <2> DEFINE b == [a EXCEPT !.probeActive = FALSE, !.probeResult = "Open",
                            !.status = "AvoidingObstacle"]
  <2>1. /\ b \in ACS /\ ~b.probeActive /\ b.status = "AvoidingObstacle"
        /\ SameResponse(a, b)
    BY DEF ACS, AutomaticCleaningStates, MovementStatus, RightProbeResults,
           SameResponse
  <2>2. /\ SelectAvoidanceDirection(a, s).ac = ClearThreeSideBlock(b)
        /\ SelectAvoidanceDirection(a, s).decision = "Right"
    BY <1>2 DEF SelectAvoidanceDirection, ProbeFoundOpen
  <2> HIDE DEF b
  <2> QED BY <1>2, <2>1, <2>2, ClearContract DEF SameResponse, BlockOK
<1>3. CASE ~a.probeActive /\ s.left
  <2> DEFINE b == ClearThreeSideBlock(a)
  <2>1. /\ b \in ACS /\ ~b.confirmed /\ ~b.stopIssued /\ SameResponse(a, b)
    BY ClearContract
  <2>2. /\ SelectAvoidanceDirection(a, s).ac =
             [b EXCEPT !.probeActive = TRUE, !.probeResult = "Unknown",
                       !.status = "AvoidingObstacle"]
        /\ SelectAvoidanceDirection(a, s).decision = "RightProbe"
    BY <1>3 DEF SelectAvoidanceDirection, StartRightProbe
  <2> HIDE DEF b
  <2> QED
    BY <1>3, <2>1, <2>2
    DEF ACS, AutomaticCleaningStates, MovementStatus, RightProbeResults,
        SameResponse, BlockOK
<1>4. CASE ~a.probeActive /\ ~s.left
  <2> DEFINE b == ClearThreeSideBlock(a)
  <2>1. /\ b \in ACS /\ ~b.confirmed /\ ~b.stopIssued /\ SameResponse(a, b)
        /\ b.probeResult = "Unknown" /\ ~b.probeActive
    BY <1>4, ClearContract
  <2>2. /\ SelectAvoidanceDirection(a, s).ac =
             [b EXCEPT !.status = "AvoidingObstacle"]
        /\ SelectAvoidanceDirection(a, s).decision = "Left"
    BY <1>4 DEF SelectAvoidanceDirection, TakeLeft
  <2> HIDE DEF b
  <2> QED
    BY <1>4, <2>1, <2>2
    DEF ACS, AutomaticCleaningStates, MovementStatus, SameResponse, BlockOK
<1> QED BY <1>1, <1>2, <1>3, <1>4

\* Behind a confirmed block: wait for the back sensor, give up, or back out.
LEMMA ThreeSideContract ==
    ASSUME NEW a \in ACS, NEW s \in SensorStates, BlockOK(a)
    PROVE  LET o == HandleThreeSideObstacle(a, s)
           IN  /\ o.ac \in ACS /\ o.result \in CommandResults
               /\ BlockOK(o.ac) /\ SameResponse(a, o.ac)
               /\ o.ac.probeActive = a.probeActive
               /\ o.result.cleaning = NoLevel /\ o.result.timer = FALSE
               /\ ~a.confirmed => o.ac = a /\ o.result.moves = <<>>
               /\ a.confirmed =>
                    \/ /\ o.ac.status = "Blocked" /\ o.ac.confirmed
                       /\ o.result.moves = <<"Stop">>
                    \/ /\ o.ac.status = "Stopped"
                       /\ o.result.moves = <<"Stop">>
                    \/ /\ o.ac.status = "Blocked" /\ ~o.ac.confirmed
                       /\ CanMoveBackward(s)
                       /\ o.result.moves \in {<<"MoveBackward">>,
                                              <<"Stop", "MoveBackward">>}
<1> DEFINE o == HandleThreeSideObstacle(a, s)
<1>1. CASE ~a.confirmed
  BY <1>1, SequenceFacts
  DEF HandleThreeSideObstacle, NoCommands, CommandResults, SameResponse
<1>2. CASE a.confirmed /\ ~CanMoveBackward(s)
  <2>1. PICK status \in {"Blocked", "Stopped"} : o = StopBlocked(a, status)
    BY <1>2 DEF HandleThreeSideObstacle, CanMoveBackward
  <2>2. o.result = Moving(<<"Stop">>)
    BY <2>1 DEF StopBlocked
  <2> DEFINE b == [a EXCEPT !.status = status, !.stopIssued = TRUE]
  <2>3. /\ b \in ACS /\ BlockOK(b) /\ SameResponse(a, b)
        /\ b.status = status /\ b.confirmed
        /\ b.probeActive = a.probeActive
    BY <1>2
    DEF ACS, AutomaticCleaningStates, MovementStatus, BlockOK, SameResponse
  <2>5. o.ac = b
    BY <2>1 DEF StopBlocked
  <2>4. <<"Stop">> \in Seq(MovementCommands)
    BY SequenceFacts DEF MovementCommands
  <2> HIDE DEF b
  <2> QED BY <1>2, <2>2, <2>3, <2>4, <2>5, MovingContract
<1>3. CASE a.confirmed /\ CanMoveBackward(s)
  <2> DEFINE b == [a EXCEPT !.status = "Blocked"]
             ms == IF a.stopIssued THEN <<"MoveBackward">>
                   ELSE <<"Stop", "MoveBackward">>
  <2>1. o.ac = ClearThreeSideBlock(b) /\ o.result = Moving(ms)
    BY <1>3 DEF HandleThreeSideObstacle, CanMoveBackward, BackOut
  <2>2. /\ b \in ACS /\ b.status = "Blocked" /\ SameResponse(a, b)
        /\ ~b.probeActive /\ b.probeActive = a.probeActive
    BY <1>3
    DEF ACS, AutomaticCleaningStates, MovementStatus, SameResponse, BlockOK
  <2>3. /\ ms \in Seq(MovementCommands)
        /\ ms \in {<<"MoveBackward">>, <<"Stop", "MoveBackward">>}
    BY SequenceFacts DEF MovementCommands
  <2> HIDE DEF b, ms
  <2>4. /\ o.ac \in ACS /\ o.ac.status = "Blocked" /\ ~o.ac.confirmed
        /\ BlockOK(o.ac) /\ SameResponse(a, o.ac)
        /\ o.ac.probeActive = a.probeActive
    BY <2>1, <2>2, ClearContract DEF SameResponse, BlockOK
  <2>5. /\ o.result \in CommandResults /\ o.result.moves = ms
        /\ o.result.cleaning = NoLevel /\ o.result.timer = FALSE
    BY <2>1, <2>3, MovingContract
  <2> QED BY <1>3, <2>3, <2>4, <2>5
<1> QED BY <1>1, <1>2, <1>3

\* The same with a response active: the power is named again, if kept.
LEMMA WhileRespondingContract ==
    ASSUME NEW a \in ACS, NEW s \in SensorStates, BlockOK(a), a.dustActive
    PROVE  LET o == HandleObstacleWhileDustResponse(a, s)
           IN  /\ o.ac \in ACS /\ o.result \in CommandResults
               /\ BlockOK(o.ac) /\ SameResponse(a, o.ac)
               /\ o.ac.probeActive = a.probeActive
               /\ o.result.cleaning = a.dustLevel /\ o.result.timer = FALSE
               /\ ~a.confirmed /\ s.front =>
                    /\ o.ac.status = "AvoidingObstacle"
                    /\ o.result.moves = <<"Stop">>
               /\ ~a.confirmed /\ ~s.front =>
                    /\ o.ac.status = "Cleaning"
                    /\ o.result.moves = <<"MoveForward">>
               /\ a.confirmed =>
                    \/ /\ o.ac.status = "Blocked" /\ o.ac.confirmed
                       /\ o.result.moves = <<"Stop">>
                    \/ /\ o.ac.status = "Stopped"
                       /\ o.result.moves = <<"Stop">>
                    \/ /\ o.ac.status = "Blocked" /\ ~o.ac.confirmed
                       /\ CanMoveBackward(s)
                       /\ o.result.moves \in {<<"MoveBackward">>,
                                              <<"Stop", "MoveBackward">>}
<1> DEFINE p == IF a.confirmed THEN HandleThreeSideObstacle(a, s)
                ELSE HandleSensorState(a, s)
           o == HandleObstacleWhileDustResponse(a, s)
<1>1. /\ p.ac \in ACS /\ p.result \in CommandResults
      /\ BlockOK(p.ac) /\ SameResponse(a, p.ac)
      /\ p.ac.probeActive = a.probeActive
      /\ p.result.timer = FALSE
  BY ThreeSideContract, SensorStateContract
<1>2. /\ p.ac.dustActive
      /\ p.ac.dustLevel = a.dustLevel
      /\ a.dustLevel \in PowerLevels
  BY <1>1 DEF SameResponse, ACS, AutomaticCleaningStates
<1>3. o.ac = p.ac
  <2>1. \E x, y : p = [ac |-> x, result |-> y]
    BY DEF HandleThreeSideObstacle, StopBlocked, BackOut, HandleSensorState,
           StopAndAvoid, NormalCleaningResult
  <2> HIDE DEF p
  <2> QED BY <1>2, <2>1 DEF HandleObstacleWhileDustResponse, p
<1>4. o.result = [p.result EXCEPT !.cleaning = a.dustLevel]
  <2>1. \E x, y : p = [ac |-> x, result |-> y]
    BY DEF HandleThreeSideObstacle, StopBlocked, BackOut, HandleSensorState,
           StopAndAvoid, NormalCleaningResult
  <2> HIDE DEF p
  <2> QED BY <1>2, <2>1 DEF HandleObstacleWhileDustResponse, p
<1>5. /\ o.result \in CommandResults /\ o.result.moves = p.result.moves
      /\ o.result.cleaning = a.dustLevel /\ o.result.timer = FALSE
  <2> HIDE DEF p, o
  <2> QED BY <1>1, <1>2, <1>4 DEF CommandResults
<1>6. CASE a.confirmed
  <2>1. p = HandleThreeSideObstacle(a, s)
    BY <1>6
  <2> HIDE DEF p
  <2>2. \/ /\ p.ac.status = "Blocked" /\ p.ac.confirmed
           /\ p.result.moves = <<"Stop">>
        \/ /\ p.ac.status = "Stopped"
           /\ p.result.moves = <<"Stop">>
        \/ /\ p.ac.status = "Blocked" /\ ~p.ac.confirmed
           /\ CanMoveBackward(s)
           /\ p.result.moves \in {<<"MoveBackward">>,
                                  <<"Stop", "MoveBackward">>}
    BY <1>6, <2>1, ThreeSideContract
  <2>3. /\ o.ac \in ACS /\ BlockOK(o.ac) /\ SameResponse(a, o.ac)
        /\ o.ac.probeActive = a.probeActive
    BY <1>1, <1>3
  <2> QED BY <1>3, <1>5, <1>6, <2>2, <2>3
<1>7. CASE ~a.confirmed
  <2>1. p = HandleSensorState(a, s)
    BY <1>7
  <2> HIDE DEF p
  <2>2. /\ s.front => /\ p.ac.status = "AvoidingObstacle"
                      /\ p.result.moves = <<"Stop">>
        /\ ~s.front => /\ p.ac.status = "Cleaning"
                       /\ p.result.moves = <<"MoveForward">>
    BY <2>1, SensorStateContract
  <2>3. /\ o.ac \in ACS /\ BlockOK(o.ac) /\ SameResponse(a, o.ac)
        /\ o.ac.probeActive = a.probeActive
    BY <1>1, <1>3
  <2> QED BY <1>3, <1>5, <1>7, <2>2, <2>3
<1> QED BY <1>6, <1>7

\* The start of a response: its level, its timer, and none pending.
LEMMA DustContract ==
    ASSUME NEW a \in ACS, NEW s \in SensorStates, BlockOK(a), s.dust
    PROVE  LET o == HandleDustDetected(a, s)
           IN  /\ o.ac \in ACS /\ o.result \in CommandResults
               /\ BlockOK(o.ac)
               /\ o.ac.status = a.status /\ o.ac.confirmed = a.confirmed
               /\ o.ac.dustActive /\ ~o.ac.pending
               /\ o.ac.dustLevel = IncreasedPowerLevel
               /\ o.result.moves = <<>> /\ o.result.timer
               /\ o.result.cleaning = IncreasedPowerLevel
<1> DEFINE b == [a EXCEPT !.dustActive = TRUE, !.pending = FALSE,
                          !.dustLevel = IncreasedPowerLevel]
           r == [NoCommands EXCEPT !.cleaning = IncreasedPowerLevel,
                                   !.timer = TRUE]
<1>1. /\ b \in ACS /\ BlockOK(b)
      /\ b.status = a.status /\ b.confirmed = a.confirmed
      /\ b.dustActive /\ ~b.pending /\ b.dustLevel = IncreasedPowerLevel
  BY PolicyAssumption DEF ACS, AutomaticCleaningStates, BlockOK
<1>2. /\ r \in CommandResults /\ r.moves = <<>> /\ r.timer
      /\ r.cleaning = IncreasedPowerLevel
  BY PolicyAssumption, SequenceFacts DEF NoCommands, CommandResults
<1>3. HandleDustDetected(a, s) = [ac |-> b, result |-> r]
  BY DEF HandleDustDetected
<1> HIDE DEF b, r
<1> QED BY <1>1, <1>2, <1>3

\* Its end: normal power if there was one, and none active or pending then.
LEMMA TimeoutContract ==
    ASSUME NEW a \in ACS, BlockOK(a)
    PROVE  LET o == HandleDustResponseTimeout(a)
           IN  /\ o.ac \in ACS /\ o.result \in CommandResults
               /\ BlockOK(o.ac)
               /\ o.ac.status = a.status /\ o.ac.confirmed = a.confirmed
               /\ ~o.ac.dustActive
               /\ o.ac.pending => a.pending /\ ~a.dustActive
               /\ o.result.moves = <<>> /\ ~o.result.timer
               /\ o.result.cleaning = IF a.dustActive THEN "Normal" ELSE NoLevel
<1> DEFINE b == [a EXCEPT !.dustActive = FALSE, !.dustLevel = "Normal",
                          !.pending = FALSE]
           r == [NoCommands EXCEPT !.cleaning = "Normal"]
<1>1. CASE a.dustActive
  <2>1. /\ b \in ACS /\ BlockOK(b)
        /\ b.status = a.status /\ b.confirmed = a.confirmed
        /\ ~b.dustActive /\ ~b.pending
    BY DEF ACS, AutomaticCleaningStates, BlockOK, PowerLevels
  <2>2. /\ r \in CommandResults /\ r.moves = <<>> /\ ~r.timer
        /\ r.cleaning = "Normal"
    BY SequenceFacts DEF NoCommands, CommandResults, PowerLevels
  <2>3. HandleDustResponseTimeout(a) = [ac |-> b, result |-> r]
    BY <1>1 DEF HandleDustResponseTimeout
  <2> HIDE DEF b, r
  <2> QED BY <1>1, <2>1, <2>2, <2>3
<1>2. CASE ~a.dustActive
  BY <1>2, SequenceFacts
  DEF HandleDustResponseTimeout, NoCommands, CommandResults
<1> QED BY <1>1, <1>2

-----------------------------------------------------------------------------
(***************************************************************************)
(* The inductive invariant.  The invariants the runs check are inductive   *)
(* only together: that the robot drives forward in Cleaning alone needs    *)
(* what the other statuses drive, what Blocked drives needs the            *)
(* confirmation, and what the power is after a resumption needs the level  *)
(* of the response.  Their conjunction, PowerBeforeForward left aside, is  *)
(* inductive as it stands; NoTraceBeforeDrive, which the application's     *)
(* invariant rests on, is inductive only with it.                          *)
(***************************************************************************)
NoTraceBeforeDrive ==
    drive = "None" =>
        /\ ac.status = "Stopped" /\ power = "Off" /\ ~timer
        /\ ~ac.probeActive /\ ~ac.confirmed /\ ~ac.dustActive
        /\ ~sensor.front

IInv ==
    /\ TypeOK
    /\ ForwardOnlyIntoClearSpace
    /\ StatusMatchesDrive
    /\ BlockRestsOnProbe
    /\ PowerFollowsResponse
    /\ TimerCoversResponse
    /\ PendingUnderResponse
    /\ NoTraceBeforeDrive

(***************************************************************************)
(* The same, of the values a method works on: the sensors s, the decision  *)
(* state a and the devices d.                                              *)
(***************************************************************************)
MotionFits(s, a, dr) ==
    /\ dr = "MoveForward" <=> a.status = "Cleaning"
    /\ dr = "MoveForward" => ~s.front
    /\ a.status = "Stopped" => dr \in {"None", "Stop"}
    /\ a.status = "Blocked" => IF a.confirmed THEN dr \in {"TurnLeft", "Stop"}
                               ELSE dr = "MoveBackward"
    /\ a.status = "AvoidingObstacle" => dr \in {"Stop", "TurnLeft", "TurnRight"}

PowerFits(a, d) ==
    /\ a.dustActive =>
         d.power = IncreasedPowerLevel /\ a.dustLevel = IncreasedPowerLevel
    /\ ~a.dustActive => d.power \in {"Off", "Normal"}
    /\ a.status = "Cleaning" => d.power # "Off"
    /\ IncreasedPowerDuration # 0 => (d.timer <=> a.dustActive)

\* A drive without a command yet, as after Init.
Undriven(s, a, d) ==
    d.drive = "None" =>
        /\ a.status = "Stopped" /\ d.power = "Off" /\ ~d.timer
        /\ ~a.probeActive /\ ~a.confirmed /\ ~a.dustActive
        /\ ~s.front

\* Between apply and the service of a pending response.
Unserved(s, st) ==
    /\ s \in SensorStates /\ st.ac \in ACS /\ st.dev \in DeviceStates
    /\ MotionFits(s, st.ac, st.dev.drive)
    /\ BlockOK(st.ac)
    /\ PowerFits(st.ac, st.dev)
    /\ Undriven(s, st.ac, st.dev)
    /\ st.ac.pending => s.dust

\* What holds when a method returns.
Sound(s, st) ==
    /\ Unserved(s, st)
    /\ st.ac.pending /\ st.ac.status = "Cleaning" => st.ac.dustActive

\* A method that returns soundly keeps the invariant ...
LEMMA ReturnKeepsIInv ==
    ASSUME NEW s, NEW st, Sound(s, st), Return(s, st)
    PROVE  IInv'
  BY DEF Sound, Unserved, MotionFits, PowerFits, BlockOK, Undriven, Return,
         IInv, TypeOK, ForwardOnlyIntoClearSpace, StatusMatchesDrive,
         BlockRestsOnProbe, PowerFollowsResponse, TimerCoversResponse,
         PendingUnderResponse, NoTraceBeforeDrive, DeviceStates, ACS

\* ... and one that starts under the invariant starts from sound values.
LEMMA IInvIsSound ==
    ASSUME IInv
    PROVE  /\ ac \in ACS /\ sensor \in SensorStates /\ Devices \in DeviceStates
           /\ Devices.drive = drive /\ Devices.power = power
           /\ Devices.timer = timer
           /\ MotionFits(sensor, ac, drive)
           /\ BlockOK(ac)
           /\ PowerFits(ac, Devices)
           /\ Undriven(sensor, ac, Devices)
           /\ ac.pending => sensor.dust
           /\ ac.pending /\ ac.status = "Cleaning" => ac.dustActive
  BY DEF Devices, MotionFits, PowerFits, BlockOK, Undriven, IInv, TypeOK,
         ForwardOnlyIntoClearSpace, StatusMatchesDrive, BlockRestsOnProbe,
         PowerFollowsResponse, TimerCoversResponse, PendingUnderResponse,
         NoTraceBeforeDrive, DeviceStates, ACS

LastDrive(d, ms) == IF ms = <<>> THEN d.drive ELSE ms[Len(ms)]

\* The last movement decides the drive, and no movement leaves it alone ...
LEMMA LastDriveFacts ==
    ASSUME NEW d
    PROVE  /\ LastDrive(d, <<>>) = d.drive
           /\ \A m \in MovementCommands : LastDrive(d, <<m>>) = m
           /\ \A m, n \in MovementCommands : LastDrive(d, <<m, n>>) = n
  BY SequenceFacts DEF LastDrive

\* ... for each list of movements that the methods return.
LEMMA LastDriveValues ==
    ASSUME NEW d
    PROVE  /\ LastDrive(d, <<"Stop">>) = "Stop"
           /\ LastDrive(d, <<"MoveForward">>) = "MoveForward"
           /\ LastDrive(d, <<"TurnLeft">>) = "TurnLeft"
           /\ LastDrive(d, <<"TurnRight">>) = "TurnRight"
           /\ LastDrive(d, <<"MoveBackward">>) = "MoveBackward"
           /\ LastDrive(d, <<"Stop", "MoveBackward">>) = "MoveBackward"
  BY LastDriveFacts DEF MovementCommands

\* apply, for the CommandResult of a method that leaves the response alone.
LEMMA ApplyIsSound ==
    ASSUME NEW a \in ACS, NEW s \in SensorStates, NEW d \in DeviceStates,
           PowerFits(a, d), a.pending => s.dust, NEW o,
           o.ac \in ACS, o.result \in CommandResults, BlockOK(o.ac),
           SameResponse(a, o.ac), o.result.timer = FALSE,
           o.result.cleaning \in {NoLevel, ResponsePower(a)},
           o.ac.status = "Cleaning" =>
              a.status = "Cleaning" \/ o.result.cleaning # NoLevel,
           MotionFits(s, o.ac, LastDrive(d, o.result.moves)),
           \/ LastDrive(d, o.result.moves) # "None"
           \/ o.ac = a /\ o.result.cleaning = NoLevel /\ Undriven(s, a, d)
    PROVE  Unserved(s, Apply(d, o))
<1> DEFINE e == Apply(d, o).dev
<1>1. /\ Apply(d, o).ac = o.ac
      /\ e \in DeviceStates
      /\ e.drive = LastDrive(d, o.result.moves)
      /\ e.power = IF o.result.cleaning = NoLevel THEN d.power
                   ELSE o.result.cleaning
      /\ e.timer <=> d.timer
  BY ApplyContract DEF LastDrive
<1> HIDE DEF e
<1>2. PowerFits(o.ac, e)
  BY <1>1, PolicyAssumption
  DEF PowerFits, SameResponse, ResponsePower, ACS, AutomaticCleaningStates,
      PowerLevels
<1>3. Undriven(s, o.ac, e)
  <2>1. LastDrive(d, o.result.moves) = "None" => d.drive = "None"
    BY DEF LastDrive, MovementCommands, CommandResults
  <2> QED BY <1>1, <2>1 DEF Undriven
<1> QED BY <1>1, <1>2, <1>3 DEF Unserved, SameResponse, e

\* Serving a pending response makes an unserved state sound.
LEMMA InitialDustIsSound ==
    ASSUME NEW s, NEW st, Unserved(s, st), s.dust, st.ac.status = "Cleaning"
    PROVE  Sound(s, ApplyInitialDustResponse(
                      st.dev, HandleDustDetected(st.ac, s)))
<1> DEFINE o == HandleDustDetected(st.ac, s)
           d1 == ExecuteMovementCommands(st.dev, o.result.moves)
           d2 == SetCleaningPower(d1, o.result.cleaning)
           d3 == StartTimerIfNeeded(d2, o.result.timer)
<1>1. /\ o.ac \in ACS /\ o.result \in CommandResults /\ BlockOK(o.ac)
      /\ o.ac.status = st.ac.status /\ o.ac.confirmed = st.ac.confirmed
      /\ o.ac.dustActive /\ ~o.ac.pending
      /\ o.ac.dustLevel = IncreasedPowerLevel
      /\ o.result.moves = <<>> /\ o.result.timer
      /\ o.result.cleaning = IncreasedPowerLevel
  BY DustContract DEF Unserved
<1>2. o.result.cleaning # NoLevel
  BY <1>1, PolicyAssumption DEF PowerLevels, NoLevel
<1>3. d1 = st.dev
  BY <1>1 DEF ExecuteMovementCommands
<1>4. /\ d2 \in DeviceStates /\ d2.drive = st.dev.drive
      /\ d2.power = IncreasedPowerLevel
  BY <1>1, <1>3, PolicyAssumption, SetPowerContract DEF Unserved
<1>5. ApplyInitialDustResponse(st.dev, o) = [ac |-> o.ac, dev |-> d3]
  BY <1>2 DEF ApplyInitialDustResponse
<1> HIDE DEF o, d1, d2
<1>6. /\ d3 \in DeviceStates /\ d3.drive = st.dev.drive
      /\ d3.power = IncreasedPowerLevel
      /\ IncreasedPowerDuration # 0 => d3.timer
  <2>1. o.result.timer \in BOOLEAN
    BY <1>1 DEF CommandResults
  <2> QED BY <1>1, <1>4, <2>1, TimerContract
<1> HIDE DEF d3
<1>7. MotionFits(s, o.ac, d3.drive)
  BY <1>1, <1>6 DEF Unserved, MotionFits
<1>8. PowerFits(o.ac, d3)
  BY <1>1, <1>6, PolicyAssumption DEF PowerFits, PowerLevels, DeviceStates
<1>9. Undriven(s, o.ac, d3)
  BY <1>6 DEF Unserved, MotionFits, Undriven
<1>10. Sound(s, [ac |-> o.ac, dev |-> d3])
  BY <1>1, <1>6, <1>7, <1>8, <1>9 DEF Sound, Unserved
<1> QED BY <1>5, <1>10 DEF o

\* A method that may leave a response unserved is sound once that is applied.
LEMMA PendingIsSound ==
    ASSUME NEW s, NEW st, Unserved(s, st)
    PROVE  Sound(s, ApplyPendingDustResponseIfCleaning(st, s))
<1>1. CASE st.ac.pending /\ st.ac.status = "Cleaning"
  BY <1>1, InitialDustIsSound
  DEF ApplyPendingDustResponseIfCleaning, Unserved
<1>2. CASE ~(st.ac.pending /\ st.ac.status = "Cleaning")
  BY <1>2 DEF ApplyPendingDustResponseIfCleaning, Sound
<1> QED BY <1>1, <1>2

-----------------------------------------------------------------------------
(***************************************************************************)
(* The paths the public methods are made of, each from sound values and    *)
(* for any new sensor values s that keep the dust flag.                    *)
(***************************************************************************)

\* Turning, for a decision that avoids or backs off from an obstacle.
LEMMA TurnIsSound ==
    ASSUME IInv, NEW a \in ACS, NEW s \in SensorStates, BlockOK(a),
           SameResponse(ac, a), ac.pending => s.dust,
           NEW direction,
           direction = "Left" =>
              \/ a.status = "AvoidingObstacle"
              \/ a.status = "Blocked" /\ a.confirmed,
           direction # "Left" => a.status = "AvoidingObstacle"
    PROVE  Sound(s, Turn(Devices, a, direction))
<1> DEFINE ms == IF direction = "Left" THEN <<"TurnLeft">> ELSE <<"TurnRight">>
           o == [ac |-> a, result |-> Moving(ms)]
<1>1. /\ ms \in Seq(MovementCommands)
      /\ LastDrive(Devices, ms) = IF direction = "Left" THEN "TurnLeft"
                                  ELSE "TurnRight"
  BY SequenceFacts, LastDriveValues DEF MovementCommands
<1> HIDE DEF ms
<1>2. /\ MotionFits(s, a, LastDrive(Devices, ms))
      /\ LastDrive(Devices, ms) # "None"
  BY <1>1 DEF MotionFits
<1>3. /\ o.ac = a
      /\ o.result \in CommandResults /\ o.result.moves = ms
      /\ o.result.cleaning = NoLevel /\ o.result.timer = FALSE
  BY <1>1, MovingContract
<1>4. a.status # "Cleaning"
  OBVIOUS
<1>5. Turn(Devices, a, direction) = Apply(Devices, o)
  BY DEF Turn, ms
<1> HIDE DEF o
<1>6. Unserved(s, Apply(Devices, o))
  BY <1>2, <1>3, <1>4, IInvIsSound, ApplyIsSound
<1>7. Apply(Devices, o).ac = a
  BY <1>3 DEF Apply
<1> QED BY <1>4, <1>5, <1>6, <1>7 DEF Sound

\* Deciding where to turn with no probe under way.
LEMMA DecisionIsSound ==
    ASSUME IInv, NEW s \in SensorStates, ac.pending => s.dust, ~ac.probeActive
    PROVE  Sound(s, ApplyAvoidanceDecision(Devices, s))
<1> DEFINE c == SelectAvoidanceDirection(ac, s)
<1>1. /\ c.ac \in ACS /\ BlockOK(c.ac) /\ SameResponse(ac, c.ac)
      /\ c.decision \in {"RightProbe", "Left"}
      /\ c.ac.status = "AvoidingObstacle"
  BY IInvIsSound, SelectContract
<1>2. ApplyAvoidanceDecision(Devices, s) = Turn(Devices, c.ac, c.decision)
  BY <1>1 DEF ApplyAvoidanceDecision
<1> HIDE DEF c
<1> QED BY <1>1, <1>2, TurnIsSound

\* Driving on, or stopping, from any decision state that fits the new sensors.
LEMMA ResumptionIsSound ==
    ASSUME IInv, NEW a \in ACS, NEW s \in SensorStates, BlockOK(a),
           SameResponse(ac, a), ac.pending => s.dust
    PROVE  Sound(s, ApplyPendingDustResponseIfCleaning(
                      Apply(Devices, ResumeAfterTurn(a, s)), s))
<1> DEFINE o == ResumeAfterTurn(a, s)
<1>1. /\ o.ac \in ACS /\ o.result \in CommandResults
      /\ BlockOK(o.ac) /\ SameResponse(a, o.ac)
      /\ s.front => /\ o.ac.status = "AvoidingObstacle"
                    /\ o.result.moves = <<"Stop">>
                    /\ o.result.cleaning = NoLevel
      /\ ~s.front => /\ o.ac.status = "Cleaning"
                     /\ o.result.moves = <<"MoveForward">>
                     /\ o.result.cleaning = ResponsePower(a)
      /\ o.result.timer = FALSE
  BY ResumeContract
<1> HIDE DEF o
<1>2. SameResponse(ac, o.ac) /\ ResponsePower(a) = ResponsePower(ac)
  BY <1>1 DEF SameResponse, ResponsePower
<1>3. /\ MotionFits(s, o.ac, LastDrive(Devices, o.result.moves))
      /\ LastDrive(Devices, o.result.moves) # "None"
  BY <1>1, LastDriveValues DEF MotionFits
<1>4. ResponsePower(a) # NoLevel
  BY DEF ResponsePower, ACS, AutomaticCleaningStates, PowerLevels, NoLevel
<1>5. o.ac.status = "Cleaning" => o.result.cleaning # NoLevel
  BY <1>1, <1>4
<1>6. Unserved(s, Apply(Devices, o))
  BY <1>1, <1>2, <1>3, <1>5, IInvIsSound, ApplyIsSound
<1> QED BY <1>6, PendingIsSound DEF o

\* Resolving the probe under way: turn back, or drive on.
LEMMA ProbeResultIsSound ==
    ASSUME IInv, NEW s \in SensorStates, ac.pending => s.dust, ac.probeActive
    PROVE  Sound(s, ApplyRightProbeResult(Devices, s))
<1> DEFINE c == SelectAvoidanceDirection(ac, s)
<1>1. /\ c.ac \in ACS /\ BlockOK(c.ac) /\ SameResponse(ac, c.ac)
      /\ c.decision \in {"Backward", "Right"}
      /\ c.decision = "Backward" => c.ac.status = "Blocked" /\ c.ac.confirmed
  BY IInvIsSound, SelectContract
<1>2. CASE c.decision = "Backward"
  <2>1. ApplyRightProbeResult(Devices, s) = Turn(Devices, c.ac, "Left")
    BY <1>2 DEF ApplyRightProbeResult
  <2> HIDE DEF c
  <2> QED BY <1>1, <1>2, <2>1, TurnIsSound
<1>3. CASE c.decision # "Backward"
  <2>1. ApplyRightProbeResult(Devices, s) =
          ApplyPendingDustResponseIfCleaning(
            Apply(Devices, ResumeAfterTurn(c.ac, s)), s)
    BY <1>3 DEF ApplyRightProbeResult
  <2> HIDE DEF c
  <2> QED BY <1>1, <2>1, ResumptionIsSound
<1> QED BY <1>2, <1>3

\* A robot that senses anew drives on or stops; a pending response remains.
LEMMA NewlySensedIsUnserved ==
    ASSUME IInv, NEW s \in SensorStates, ac.pending => s.dust
    PROVE  /\ Unserved(s, NewlySensed(s))
           /\ s.front => NewlySensed(s).ac.status = "AvoidingObstacle"
<1> DEFINE o == HandleSensorState(ac, s)
<1>1. /\ o.ac \in ACS /\ o.result \in CommandResults
      /\ BlockOK(o.ac) /\ SameResponse(ac, o.ac)
      /\ s.front => /\ o.ac.status = "AvoidingObstacle"
                    /\ o.result.moves = <<"Stop">>
                    /\ o.result.cleaning = NoLevel
      /\ ~s.front => /\ o.ac.status = "Cleaning"
                     /\ o.result.moves = <<"MoveForward">>
                     /\ o.result.cleaning = ResponsePower(ac)
      /\ o.result.timer = FALSE
  BY IInvIsSound, SensorStateContract
<1>2. NewlySensed(s) = Apply(Devices, o) /\ NewlySensed(s).ac = o.ac
  BY DEF NewlySensed, Apply
<1> HIDE DEF o
<1>3. /\ MotionFits(s, o.ac, LastDrive(Devices, o.result.moves))
      /\ LastDrive(Devices, o.result.moves) # "None"
  BY <1>1, LastDriveValues DEF MotionFits
<1>4. ResponsePower(ac) # NoLevel
  BY IInvIsSound
  DEF ResponsePower, ACS, AutomaticCleaningStates, PowerLevels, NoLevel
<1>5. o.ac.status = "Cleaning" => o.result.cleaning # NoLevel
  BY <1>1, <1>4
<1> QED BY <1>1, <1>2, <1>3, <1>5, IInvIsSound, ApplyIsSound

\* While a response is active nothing is left to serve.
LEMMA RespondingIsSound ==
    ASSUME IInv, NEW s \in SensorStates, ac.pending => s.dust, ac.dustActive
    PROVE  Sound(s, SensedWhileResponding(s))
<1> DEFINE o == HandleObstacleWhileDustResponse(ac, s)
<1>1. /\ o.ac \in ACS /\ o.result \in CommandResults
      /\ BlockOK(o.ac) /\ SameResponse(ac, o.ac)
      /\ o.result.cleaning = ac.dustLevel /\ o.result.timer = FALSE
  BY IInvIsSound, WhileRespondingContract
<1>2. /\ ~ac.confirmed /\ s.front =>
           o.ac.status = "AvoidingObstacle" /\ o.result.moves = <<"Stop">>
      /\ ~ac.confirmed /\ ~s.front =>
           o.ac.status = "Cleaning" /\ o.result.moves = <<"MoveForward">>
      /\ ac.confirmed =>
           \/ /\ o.ac.status = "Blocked" /\ o.ac.confirmed
              /\ o.result.moves = <<"Stop">>
           \/ o.ac.status = "Stopped" /\ o.result.moves = <<"Stop">>
           \/ /\ o.ac.status = "Blocked" /\ ~o.ac.confirmed
              /\ o.result.moves \in {<<"MoveBackward">>,
                                     <<"Stop", "MoveBackward">>}
  BY IInvIsSound, WhileRespondingContract
<1>3. SensedWhileResponding(s) = Apply(Devices, o)
      /\ SensedWhileResponding(s).ac = o.ac
  BY DEF SensedWhileResponding, Apply
<1> HIDE DEF o
<1>4. /\ MotionFits(s, o.ac, LastDrive(Devices, o.result.moves))
      /\ LastDrive(Devices, o.result.moves) # "None"
  BY <1>2, LastDriveValues DEF MotionFits
<1>5. /\ o.result.cleaning = ResponsePower(ac)
      /\ o.result.cleaning # NoLevel
  BY <1>1, IInvIsSound
  DEF ResponsePower, ACS, AutomaticCleaningStates, PowerLevels, NoLevel
<1>6. Unserved(s, Apply(Devices, o))
  BY <1>1, <1>4, <1>5, IInvIsSound, ApplyIsSound
<1> QED BY <1>1, <1>3, <1>6 DEF Sound, SameResponse

\* Behind a block with no response active; without a block nothing happens.
LEMMA ThreeSideIsSound ==
    ASSUME IInv, NEW s \in SensorStates, s.front = sensor.front \/ ac.confirmed,
           ac.pending => s.dust, ~ac.dustActive
    PROVE  Sound(s, Apply(Devices, HandleThreeSideObstacle(ac, s)))
<1> DEFINE o == HandleThreeSideObstacle(ac, s)
<1>1. /\ o.ac \in ACS /\ o.result \in CommandResults
      /\ BlockOK(o.ac) /\ SameResponse(ac, o.ac)
      /\ o.result.cleaning = NoLevel /\ o.result.timer = FALSE
      /\ ~ac.confirmed => o.ac = ac /\ o.result.moves = <<>>
      /\ ac.confirmed =>
           \/ /\ o.ac.status = "Blocked" /\ o.ac.confirmed
              /\ o.result.moves = <<"Stop">>
           \/ o.ac.status = "Stopped" /\ o.result.moves = <<"Stop">>
           \/ /\ o.ac.status = "Blocked" /\ ~o.ac.confirmed
              /\ o.result.moves \in {<<"MoveBackward">>,
                                     <<"Stop", "MoveBackward">>}
  BY IInvIsSound, ThreeSideContract
<1> HIDE DEF o
<1>2. /\ MotionFits(s, o.ac, LastDrive(Devices, o.result.moves))
      /\ \/ LastDrive(Devices, o.result.moves) # "None"
         \/ o.ac = ac /\ o.result.cleaning = NoLevel
            /\ Undriven(s, ac, Devices)
  <2>1. CASE ac.confirmed
    BY <1>1, <2>1, LastDriveValues DEF MotionFits
  <2>2. CASE ~ac.confirmed
    BY <1>1, <2>2, IInvIsSound, LastDriveFacts DEF MotionFits, Undriven
  <2> QED BY <2>1, <2>2
<1>3. o.ac.status = "Cleaning" => ac.status = "Cleaning"
  BY <1>1
<1>4. Unserved(s, Apply(Devices, o)) /\ Apply(Devices, o).ac = o.ac
  <2>1. Apply(Devices, o).ac = o.ac
    BY DEF Apply
  <2> QED BY <1>1, <1>2, <1>3, <2>1, IInvIsSound, ApplyIsSound
<1> QED BY <1>1, <1>3, <1>4, IInvIsSound DEF Sound, SameResponse, o

-----------------------------------------------------------------------------
(***************************************************************************)
(* The public methods, one lemma each.                                     *)
(***************************************************************************)

\* A front report (RVCSWController.cpp:28) keeps the invariant.
LEMMA FrontKeepsIInv ==
    ASSUME IInv, NEW front \in BOOLEAN, ReportFrontObstacleState(front)
    PROVE  IInv'
<1> DEFINE s == [sensor EXCEPT !.front = front]
<1>1. /\ s \in SensorStates /\ s.front = front
      /\ ac.pending => s.dust
  BY IInvIsSound DEF SensorStates
<1>2. PICK st : Return(s, st) /\ Sound(s, st)
  <2>1. CASE ac.probeActive
    <3>1. Return(s, ApplyRightProbeResult(Devices, s))
      BY <2>1 DEF ReportFrontObstacleState
    <3> HIDE DEF s
    <3> QED BY <1>1, <2>1, <3>1, ProbeResultIsSound
  <2>2. CASE ~ac.probeActive /\ ~front /\ Avoiding
    <3>1. Return(s, Resumed(s))
      BY <2>2 DEF ReportFrontObstacleState, Avoiding, Blocked
    <3> HIDE DEF s
    <3>2. BlockOK(ac) /\ SameResponse(ac, ac) /\ ac \in ACS
      BY IInvIsSound DEF SameResponse
    <3>3. Sound(s, Resumed(s))
      BY <1>1, <3>2, ResumptionIsSound DEF Resumed
    <3> QED BY <3>1, <3>3
  <2>3. CASE ~ac.probeActive /\ ~front /\ Blocked
    <3>1. Return(s, ApplyAvoidanceDecision(Devices, s))
      BY <2>3 DEF ReportFrontObstacleState, Avoiding, Blocked
    <3> HIDE DEF s
    <3> QED BY <1>1, <2>3, <3>1, DecisionIsSound
  <2>4. CASE /\ ~ac.probeActive /\ (front \/ ~(Avoiding \/ Blocked))
             /\ ac.dustActive
    <3>1. Return(s, SensedWhileResponding(s))
      BY <2>4 DEF ReportFrontObstacleState
    <3> HIDE DEF s
    <3> QED BY <1>1, <2>4, <3>1, RespondingIsSound
  <2>5. CASE /\ ~ac.probeActive /\ (front \/ ~(Avoiding \/ Blocked))
             /\ ~ac.dustActive
    <3>1. Return(s, ApplyPendingDustResponseIfCleaning(NewlySensed(s), s))
      BY <2>5 DEF ReportFrontObstacleState
    <3> HIDE DEF s
    <3> QED BY <1>1, <3>1, NewlySensedIsUnserved, PendingIsSound
  <2> QED BY <2>1, <2>2, <2>3, <2>4, <2>5
<1> HIDE DEF s
<1> QED BY <1>2, ReturnKeepsIInv

\* A back report (RVCSWController.cpp:55) keeps the invariant.
LEMMA BackKeepsIInv ==
    ASSUME IInv, NEW back \in BackStates, ReportBackObstacleState(back)
    PROVE  IInv'
<1> DEFINE s == [sensor EXCEPT !.back = back]
<1>1. /\ s \in SensorStates /\ s.front = sensor.front
      /\ ac.pending => s.dust
  BY IInvIsSound DEF SensorStates
<1>2. PICK st : Return(s, st) /\ Sound(s, st)
  <2>1. CASE ac.dustActive
    <3>1. Return(s, SensedWhileResponding(s))
      BY <2>1 DEF ReportBackObstacleState
    <3> HIDE DEF s
    <3> QED BY <1>1, <2>1, <3>1, RespondingIsSound
  <2>2. CASE ~ac.dustActive
    <3>1. Return(s, Apply(Devices, HandleThreeSideObstacle(ac, s)))
      BY <2>2 DEF ReportBackObstacleState
    <3> HIDE DEF s
    <3> QED BY <1>1, <2>2, <3>1, ThreeSideIsSound
  <2> QED BY <2>1, <2>2
<1> HIDE DEF s
<1> QED BY <1>2, ReturnKeepsIInv

\* A method that only takes note of the sensors.
LEMMA NothingIsSound ==
    ASSUME IInv, NEW s \in SensorStates, s.front = sensor.front,
           ac.pending => s.dust
    PROVE  Sound(s, NothingToDo)
  BY IInvIsSound DEF NothingToDo, Sound, Unserved, MotionFits, Undriven

\* A left report (RVCSWController.cpp:70) keeps the invariant.
LEMMA LeftKeepsIInv ==
    ASSUME IInv, NEW left \in BOOLEAN, ReportLeftObstacleState(left)
    PROVE  IInv'
<1> DEFINE s == [sensor EXCEPT !.left = left]
<1>1. /\ s \in SensorStates /\ s.front = sensor.front
      /\ ac.pending => s.dust
  BY IInvIsSound DEF SensorStates
<1>2. PICK st : Return(s, st) /\ Sound(s, st)
  <2>1. CASE ac.probeActive \/ ~(Avoiding \/ Blocked)
    <3>1. Return(s, NothingToDo)
      BY <2>1 DEF ReportLeftObstacleState
    <3> HIDE DEF s
    <3> QED BY <1>1, <3>1, NothingIsSound
  <2>2. CASE ~ac.probeActive /\ (Avoiding \/ Blocked)
    <3>1. Return(s, ApplyAvoidanceDecision(Devices, s))
      BY <2>2 DEF ReportLeftObstacleState
    <3> HIDE DEF s
    <3> QED BY <1>1, <2>2, <3>1, DecisionIsSound
  <2> QED BY <2>1, <2>2
<1> HIDE DEF s
<1> QED BY <1>2, ReturnKeepsIInv

\* A dust report (RVCSWController.cpp:148) keeps the invariant.
LEMMA DustKeepsIInv ==
    ASSUME IInv, ReportDustDetected
    PROVE  IInv'
<1> DEFINE s == [sensor EXCEPT !.dust = TRUE]
<1>1. /\ s \in SensorStates /\ s.front = sensor.front /\ s.dust
  BY IInvIsSound DEF SensorStates
<1>2. PICK st : Return(s, st) /\ Sound(s, st)
  <2>1. CASE ac.status # "Cleaning"
    <3> DEFINE b == MarkDustResponsePending(ac)
    <3>1. Return(s, [ac |-> b, dev |-> Devices])
      BY <2>1 DEF ReportDustDetected
    <3>2. /\ b \in ACS /\ b.status = ac.status /\ b.confirmed = ac.confirmed
          /\ BlockOK(b) /\ b.dustActive = ac.dustActive
          /\ b.dustLevel = ac.dustLevel
          /\ b.probeActive = ac.probeActive
      BY IInvIsSound
      DEF MarkDustResponsePending, ACS, AutomaticCleaningStates, BlockOK
    <3> HIDE DEF s, b
    <3>3. Sound(s, [ac |-> b, dev |-> Devices])
      BY <1>1, <2>1, <3>2, IInvIsSound
      DEF Sound, Unserved, MotionFits, PowerFits, Undriven
    <3> QED BY <3>1, <3>3
  <2>2. CASE ac.status = "Cleaning"
    <3>1. Return(s, ApplyInitialDustResponse(
                      Devices, HandleDustDetected(ac, s)))
      BY <2>2 DEF ReportDustDetected
    <3> HIDE DEF s
    <3>2. Unserved(s, NothingToDo)
      BY <1>1, NothingIsSound DEF Sound
    <3>3. NothingToDo.ac = ac /\ NothingToDo.dev = Devices
      BY DEF NothingToDo
    <3>4. Sound(s, ApplyInitialDustResponse(
                     NothingToDo.dev, HandleDustDetected(NothingToDo.ac, s)))
      BY <1>1, <2>2, <3>2, <3>3, InitialDustIsSound
    <3> QED BY <3>1, <3>3, <3>4
  <2> QED BY <2>1, <2>2
<1> HIDE DEF s
<1> QED BY <1>2, ReturnKeepsIInv

\* The end of the dust timer (RVCSWController.cpp:159) keeps the invariant.
LEMMA TimeoutKeepsIInv ==
    ASSUME IInv, IncreasedPowerDurationExpired
    PROVE  IInv'
<1> DEFINE d == [Devices EXCEPT !.timer = FALSE]
           o == HandleDustResponseTimeout(ac)
           e == Apply(d, o).dev
<1>1. /\ d \in DeviceStates /\ ~d.timer
      /\ d.drive = drive /\ d.power = power
  BY IInvIsSound DEF DeviceStates
<1>2. /\ o.ac \in ACS /\ o.result \in CommandResults
      /\ BlockOK(o.ac)
      /\ o.ac.status = ac.status /\ o.ac.confirmed = ac.confirmed
      /\ ~o.ac.dustActive
      /\ o.ac.pending => ac.pending /\ ~ac.dustActive
      /\ o.result.moves = <<>> /\ ~o.result.timer
      /\ o.result.cleaning = IF ac.dustActive THEN "Normal" ELSE NoLevel
  BY IInvIsSound, TimeoutContract
<1>3. Return(sensor, Apply(d, o))
  BY DEF IncreasedPowerDurationExpired
<1> HIDE DEF d, o
<1>4. /\ Apply(d, o).ac = o.ac /\ e \in DeviceStates
      /\ e.drive = drive
      /\ e.power = IF ac.dustActive THEN "Normal" ELSE power
      /\ ~e.timer
  BY <1>1, <1>2, ApplyContract DEF NoLevel
<1> HIDE DEF e
<1>5. MotionFits(sensor, o.ac, e.drive)
  BY <1>2, <1>4, IInvIsSound DEF MotionFits
<1>6. PowerFits(o.ac, e)
  BY <1>2, <1>4, IInvIsSound DEF PowerFits, DeviceStates
<1>7. Undriven(sensor, o.ac, e)
  <2>1. drive = "None" => o.ac = ac
    BY IInvIsSound
    DEF Undriven, HandleDustResponseTimeout, o
  <2> QED BY <1>4, <2>1, IInvIsSound DEF Undriven
<1>8. Sound(sensor, Apply(d, o))
  BY <1>2, <1>4, <1>5, <1>6, <1>7, IInvIsSound DEF Sound, Unserved, e
<1> QED BY <1>3, <1>8, ReturnKeepsIInv

\* A snapshot of all sensors (RVCSWController.cpp:85) keeps the invariant.
LEMMA SnapshotKeepsIInv ==
    ASSUME IInv, NEW front \in BOOLEAN, NEW back \in BackStates,
           NEW left \in BOOLEAN, ReportObstacleState(front, back, left)
    PROVE  IInv'
<1> DEFINE s == [sensor EXCEPT !.front = front, !.back = back, !.left = left]
           leaves == Blocked /\ HasEffect(LeaveBlock(s).result)
<1>1. /\ s \in SensorStates /\ s.front = front
      /\ ac.pending => s.dust
  BY IInvIsSound DEF SensorStates
<1>2. PICK st : Return(s, st) /\ Sound(s, st)
  <2>1. CASE ac.probeActive
    <3>1. Return(s, ApplyRightProbeResult(Devices, s))
      BY <2>1 DEF ReportObstacleState
    <3> HIDE DEF s
    <3> QED BY <1>1, <2>1, <3>1, ProbeResultIsSound
  <2>2. CASE ~ac.probeActive /\ leaves
    <3>1. Return(s, Apply(Devices, LeaveBlock(s)))
      BY <2>2 DEF ReportObstacleState, Avoiding, Blocked
    <3>2. CASE ac.dustActive
      <4>1. Apply(Devices, LeaveBlock(s)) = SensedWhileResponding(s)
        BY <3>2 DEF LeaveBlock, SensedWhileResponding
      <4> HIDE DEF s
      <4> QED BY <1>1, <3>1, <3>2, <4>1, RespondingIsSound
    <3>3. CASE ~ac.dustActive
      <4>1. LeaveBlock(s) = HandleThreeSideObstacle(ac, s)
        BY <3>3 DEF LeaveBlock
      <4> HIDE DEF s
      <4>2. ac.confirmed
        BY <2>2, <4>1 DEF HandleThreeSideObstacle, HasEffect, NoCommands
      <4> QED BY <1>1, <3>1, <3>3, <4>1, <4>2, ThreeSideIsSound
    <3> QED BY <3>2, <3>3
  <2>3. CASE ~ac.probeActive /\ ~leaves /\ (Blocked \/ (Avoiding /\ front))
    <3>1. Return(s, ApplyAvoidanceDecision(Devices, s))
      BY <2>3 DEF ReportObstacleState, Avoiding, Blocked
    <3> HIDE DEF s, leaves
    <3> QED BY <1>1, <2>3, <3>1, DecisionIsSound
  <2>4. CASE ~ac.probeActive /\ Avoiding /\ ~front
    <3>1. Return(s, Resumed(s))
      BY <2>4 DEF ReportObstacleState, Avoiding, Blocked
    <3> HIDE DEF s, leaves
    <3>2. BlockOK(ac) /\ SameResponse(ac, ac) /\ ac \in ACS
      BY IInvIsSound DEF SameResponse
    <3>3. Sound(s, Resumed(s))
      BY <1>1, <3>2, ResumptionIsSound DEF Resumed
    <3> QED BY <3>1, <3>3
  <2>5. CASE ~ac.probeActive /\ ~(Avoiding \/ Blocked) /\ ac.dustActive
    <3>1. Return(s, SensedWhileResponding(s))
      BY <2>5 DEF ReportObstacleState
    <3> HIDE DEF s, leaves
    <3> QED BY <1>1, <2>5, <3>1, RespondingIsSound
  <2>6. CASE ~ac.probeActive /\ ~(Avoiding \/ Blocked) /\ ~ac.dustActive
             /\ front
    <3>1. Return(s, NewlySensed(s))
      BY <2>6 DEF ReportObstacleState
    <3> HIDE DEF s, leaves
    <3>2. Sound(s, NewlySensed(s))
      BY <1>1, <2>6, NewlySensedIsUnserved DEF Sound
    <3> QED BY <3>1, <3>2
  <2>7. CASE ~ac.probeActive /\ ~(Avoiding \/ Blocked) /\ ~ac.dustActive
             /\ ~front
    <3>1. Return(s, ApplyPendingDustResponseIfCleaning(NewlySensed(s), s))
      BY <2>7 DEF ReportObstacleState
    <3> HIDE DEF s, leaves
    <3> QED BY <1>1, <3>1, NewlySensedIsUnserved, PendingIsSound
  <2> HIDE DEF s, leaves
  <2> QED BY <2>1, <2>2, <2>3, <2>4, <2>5, <2>6, <2>7
<1> HIDE DEF s
<1> QED BY <1>2, ReturnKeepsIInv

-----------------------------------------------------------------------------
(***************************************************************************)
(* The theorems.                                                           *)
(***************************************************************************)

\* A new controller with idle devices satisfies the invariant.
LEMMA InitEstablishesIInv == Init => IInv
<1> SUFFICES ASSUME Init PROVE IInv
  OBVIOUS
<1>1. TypeOK
  <2>1. ac \in AutomaticCleaningStates
    BY DEF Init, InitAutomaticCleaning, AutomaticCleaningStates,
           MovementStatus, RightProbeResults, PowerLevels
  <2>2. sensor \in SensorStates
    BY DEF Init, InitSensorState, SensorStates, BackStates
  <2>3. drive \in DriveStates /\ power \in PowerStates /\ timer \in BOOLEAN
    BY DEF Init, DriveStates, PowerStates
  <2>4. calls \in Seq(DeviceCalls)
    BY DEF Init
  <2> QED BY <2>1, <2>2, <2>3, <2>4 DEF TypeOK
<1> QED
  BY <1>1
  DEF Init, InitAutomaticCleaning, IInv, ForwardOnlyIntoClearSpace,
      StatusMatchesDrive, BlockRestsOnProbe, PowerFollowsResponse,
      TimerCoversResponse, PendingUnderResponse, NoTraceBeforeDrive,
      InitSensorState

\* The invariant is inductive: every call, or none, keeps it.
LEMMA NextKeepsIInv == IInv /\ [Next]_vars => IInv'
<1> SUFFICES ASSUME IInv, [Next]_vars PROVE IInv'
  OBVIOUS
<1>1. ASSUME NEW front \in BOOLEAN, ReportFrontObstacleState(front)
      PROVE  IInv'
  BY <1>1, FrontKeepsIInv
<1>2. ASSUME NEW back \in BackStates, ReportBackObstacleState(back)
      PROVE  IInv'
  BY <1>2, BackKeepsIInv
<1>3. ASSUME NEW left \in BOOLEAN, ReportLeftObstacleState(left)
      PROVE  IInv'
  BY <1>3, LeftKeepsIInv
<1>4. ASSUME NEW front \in BOOLEAN, NEW left \in BOOLEAN,
             NEW back \in BackStates, ReportObstacleState(front, back, left)
      PROVE  IInv'
  BY <1>4, SnapshotKeepsIInv
<1>5. CASE ReportDustDetected
  BY <1>5, DustKeepsIInv
<1>6. CASE IncreasedPowerDurationExpired
  BY <1>6, TimeoutKeepsIInv
<1>7. CASE UNCHANGED vars
  BY <1>7
  DEF vars, IInv, TypeOK, ForwardOnlyIntoClearSpace, StatusMatchesDrive,
      BlockRestsOnProbe, PowerFollowsResponse, TimerCoversResponse,
      PendingUnderResponse, NoTraceBeforeDrive
<1> QED BY <1>1, <1>2, <1>3, <1>4, <1>5, <1>6, <1>7 DEF Next

(***************************************************************************)
(* The controller keeps its invariant under every policy and every order   *)
(* of sensor reports, dust reports and timeouts.                           *)
(***************************************************************************)
THEOREM Invariance == Spec => []IInv
  BY InitEstablishesIInv, NextKeepsIInv, PTL DEF Spec

(***************************************************************************)
(* Every variable keeps its type, the device calls included.               *)
(***************************************************************************)
THEOREM TypeCorrect == Spec => []TypeOK
<1>1. IInv => TypeOK
  BY DEF IInv
<1> QED BY <1>1, Invariance, PTL

(***************************************************************************)
(* The robot never drives forward into an obstacle its front sensor has    *)
(* reported, and drives forward exactly while it cleans.                   *)
(***************************************************************************)
THEOREM ForwardIsSafe == Spec => []ForwardOnlyIntoClearSpace
<1>1. IInv => ForwardOnlyIntoClearSpace
  BY DEF IInv
<1> QED BY <1>1, Invariance, PTL

(***************************************************************************)
(* What the status says the robot does is what its drive was told last.    *)
(***************************************************************************)
THEOREM StatusIsTrue == Spec => []StatusMatchesDrive
<1>1. IInv => StatusMatchesDrive
  BY DEF IInv
<1> QED BY <1>1, Invariance, PTL

(***************************************************************************)
(* A block on three sides is confirmed only by a finished probe.           *)
(***************************************************************************)
THEOREM BlockIsProbed == Spec => []BlockRestsOnProbe
<1>1. IInv => BlockRestsOnProbe
  BY DEF IInv
<1> QED BY <1>1, Invariance, PTL

(***************************************************************************)
(* Increased power exactly during a dust response, whatever the policy.    *)
(***************************************************************************)
THEOREM PowerIsRight == Spec => []PowerFollowsResponse
<1>1. IInv => PowerFollowsResponse
  BY DEF IInv
<1> QED BY <1>1, Invariance, PTL

(***************************************************************************)
(* Unless the policy's duration is zero, the timer runs exactly while a    *)
(* dust response is active: no response is left without an end.            *)
(***************************************************************************)
THEOREM ResponseIsTimed == Spec => []TimerCoversResponse
<1>1. IInv => TimerCoversResponse
  BY DEF IInv
<1> QED BY <1>1, Invariance, PTL

(***************************************************************************)
(* While a dust report is pending the robot never cleans without an active *)
(* response.  The response may be older than the report: that the report   *)
(* is served itself is not claimed (see PendingUnderResponse).             *)
(***************************************************************************)
THEOREM PendingIsUnderResponse == Spec => []PendingUnderResponse
<1>1. IInv => PendingUnderResponse
  BY DEF IInv
<1> QED BY <1>1, Invariance, PTL

=============================================================================
