----------------------- MODULE ControllerSteps_proofs -----------------------
(***************************************************************************)
(* What one call of the controller does: the action properties of          *)
(* RVCSWController, PowerBeforeForward and the refinement of DustService,  *)
(* for every order of calls.  They follow from the inductive invariant of  *)
(* RVCSWController_proofs; what is added here is an account of the device  *)
(* calls a method makes, path by path, as that module accounts for the     *)
(* state it leaves.                                                        *)
(***************************************************************************)
EXTENDS MCRVCSWController, RVCSWController_proofs, SequenceTheorems

-----------------------------------------------------------------------------
(***************************************************************************)
(* Lists of device calls.                                                  *)
(***************************************************************************)

\* The drive commands among the calls.
DriveCalls(c) == {m \in MovementCommands : \E i \in 1..Len(c) : c[i] = m}

\* The power is set before the drive moves forward.
PowerFirst(c) ==
    \A i \in 1..Len(c) : c[i] = "MoveForward" =>
        \E j \in 1..i-1 : c[j] \in PowerCalls

\* The drive commands of the lists of movements the methods return.
LEMMA DriveCallsOfLists ==
    /\ DriveCalls(<<>>) = {}
    /\ \A m \in MovementCommands : DriveCalls(<<m>>) = {m}
    /\ \A m, n \in MovementCommands : DriveCalls(<<m, n>>) = {m, n}
<1>1. DriveCalls(<<>>) = {}
  BY DEF DriveCalls
<1>2. ASSUME NEW m \in MovementCommands PROVE DriveCalls(<<m>>) = {m}
  BY DEF DriveCalls
<1>3. ASSUME NEW m \in MovementCommands, NEW n \in MovementCommands
      PROVE  DriveCalls(<<m, n>>) = {m, n}
  <2>1. /\ Len(<<m, n>>) = 2
        /\ <<m, n>>[1] = m /\ <<m, n>>[2] = n
    OBVIOUS
  <2> QED BY <2>1 DEF DriveCalls
<1> QED BY <1>1, <1>2, <1>3

\* Another device's call is no drive command and comes after what there was.
LEMMA AppendedCall ==
    ASSUME NEW c \in Seq(DeviceCalls), NEW x \in DeviceCalls,
           x \notin MovementCommands
    PROVE  /\ Append(c, x) \in Seq(DeviceCalls)
           /\ DriveCalls(Append(c, x)) = DriveCalls(c)
           /\ PowerFirst(c) => PowerFirst(Append(c, x))
<1> DEFINE e == Append(c, x)
<1>1. /\ e \in Seq(DeviceCalls) /\ Len(c) \in Nat /\ Len(e) = Len(c) + 1
      /\ \A i \in 1..Len(c) : e[i] = c[i]
      /\ e[Len(c) + 1] = x
  OBVIOUS
<1>2. x # "MoveForward"
  BY DEF MovementCommands
<1> HIDE DEF e
<1>3. DriveCalls(e) = DriveCalls(c)
  BY <1>1 DEF DriveCalls
<1>4. ASSUME PowerFirst(c), NEW i \in 1..Len(e), e[i] = "MoveForward"
      PROVE  \E j \in 1..i-1 : e[j] \in PowerCalls
  <2>1. i \in 1..Len(c) /\ c[i] = "MoveForward"
    BY <1>1, <1>2, <1>4
  <2>2. PICK j \in 1..i-1 : c[j] \in PowerCalls
    BY <1>4, <2>1 DEF PowerFirst
  <2> QED BY <1>1, <2>1, <2>2
<1> QED BY <1>1, <1>3, <1>4 DEF PowerFirst, e

\* Movements after other calls, with the power set before if they need it.
LEMMA AppendedMovements ==
    ASSUME NEW c \in Seq(DeviceCalls), NEW ms \in Seq(MovementCommands)
    PROVE  /\ DriveCalls(c \o ms) = DriveCalls(c) \cup DriveCalls(ms)
           /\ /\ PowerFirst(c)
              /\ "MoveForward" \in DriveCalls(ms) =>
                    \E j \in 1..Len(c) : c[j] \in PowerCalls
              => PowerFirst(c \o ms)
<1> DEFINE e == c \o ms
<1>1. /\ Len(c) \in Nat /\ Len(ms) \in Nat /\ Len(e) = Len(c) + Len(ms)
      /\ \A i \in 1..Len(c) : e[i] = c[i]
      /\ \A i \in 1..Len(ms) : e[Len(c) + i] = ms[i]
      /\ \A i \in 1..Len(e) : i > Len(c) =>
            i - Len(c) \in 1..Len(ms) /\ e[i] = ms[i - Len(c)]
  OBVIOUS
<1>2. \A i \in 1..Len(ms) : Len(c) + i \in 1..Len(e)
  BY <1>1
<1>3. \A i \in 1..Len(c) : i \in 1..Len(e)
  BY <1>1
<1> HIDE DEF e
<1>4. DriveCalls(e) = DriveCalls(c) \cup DriveCalls(ms)
  <2>1. ASSUME NEW m \in DriveCalls(e)
        PROVE  m \in DriveCalls(c) \cup DriveCalls(ms)
    <3>1. m \in MovementCommands
      BY DEF DriveCalls
    <3>2. PICK i \in 1..Len(e) : e[i] = m
      BY DEF DriveCalls
    <3>3. \/ i \in 1..Len(c) /\ c[i] = m
          \/ i - Len(c) \in 1..Len(ms) /\ ms[i - Len(c)] = m
      BY <1>1, <3>2
    <3> QED BY <3>1, <3>3 DEF DriveCalls
  <2>2. ASSUME NEW m \in DriveCalls(c) \cup DriveCalls(ms)
        PROVE  m \in DriveCalls(e)
    <3>1. CASE m \in DriveCalls(c)
      BY <1>1, <1>3, <3>1 DEF DriveCalls
    <3>2. CASE m \in DriveCalls(ms)
      <4>1. PICK i \in 1..Len(ms) : ms[i] = m
        BY <3>2 DEF DriveCalls
      <4>2. Len(c) + i \in 1..Len(e) /\ e[Len(c) + i] = m
        BY <1>1, <1>2, <4>1
      <4>3. m \in MovementCommands
        BY <3>2 DEF DriveCalls
      <4> QED BY <4>2, <4>3 DEF DriveCalls
    <3> QED BY <2>2, <3>1, <3>2
  <2> QED BY <2>1, <2>2
<1>5. ASSUME PowerFirst(c),
             "MoveForward" \in DriveCalls(ms) =>
                \E j \in 1..Len(c) : c[j] \in PowerCalls,
             NEW i \in 1..Len(e), e[i] = "MoveForward"
      PROVE  \E j \in 1..i-1 : e[j] \in PowerCalls
  <2>1. CASE i <= Len(c)
    <3>1. PICK j \in 1..i-1 : c[j] \in PowerCalls
      BY <1>1, <1>5, <2>1 DEF PowerFirst
    <3>2. j \in 1..Len(c) /\ e[j] = c[j]
      BY <1>1, <2>1, <3>1
    <3> QED BY <3>1, <3>2
  <2>2. CASE i > Len(c)
    <3>1. "MoveForward" \in DriveCalls(ms)
      <4>1. i - Len(c) \in 1..Len(ms) /\ ms[i - Len(c)] = "MoveForward"
        BY <1>1, <1>5, <2>2
      <4> QED BY <4>1 DEF DriveCalls, MovementCommands
    <3>2. PICK j \in 1..Len(c) : c[j] \in PowerCalls
      BY <1>5, <3>1
    <3> QED BY <1>1, <2>2, <3>2
  <2> QED BY <1>1, <2>1, <2>2
<1> QED BY <1>4, <1>5 DEF PowerFirst, e

\* apply: what it calls is what the CommandResult asks for, power first.
LEMMA ApplyCalls ==
    ASSUME NEW d \in DeviceStates, d.calls = <<>>, NEW o,
           o.ac \in ACS, o.result \in CommandResults
    PROVE  LET c == Apply(d, o).dev.calls
               ms == o.result.moves
           IN  /\ DriveCalls(c) = DriveCalls(ms)
               /\ ("MoveForward" \in DriveCalls(ms) =>
                     o.result.cleaning # NoLevel) => PowerFirst(c)
               /\ o.result.cleaning = NoLevel /\ ~o.result.timer => c = ms
<1> DEFINE r == o.result
           d1 == ExecuteCleaningCommand(d, o.ac, r.cleaning)
           d2 == ExecuteMovementCommands(d1, r.moves)
           d3 == StartTimerIfNeeded(d2, r.timer)
<1>1. /\ r.moves \in Seq(MovementCommands)
      /\ r.cleaning \in PowerLevels \cup {NoLevel}
      /\ r.timer \in BOOLEAN
  BY DEF CommandResults
<1>2. d1 \in DeviceStates
  BY <1>1, CleaningContract
<1>3. /\ r.cleaning = NoLevel => d1.calls = <<>>
      /\ r.cleaning # NoLevel => \E x \in PowerCalls : d1.calls = <<x>>
  <2>1. \A x : Append(<<>>, x) = <<x>>
    OBVIOUS
  <2> QED
    BY <1>1, <2>1
    DEF ExecuteCleaningCommand, SetCleaningPower, DeviceStates, PowerCalls
<1> HIDE DEF d1
<1>4. /\ d1.calls \in Seq(DeviceCalls)
      /\ DriveCalls(d1.calls) = {} /\ PowerFirst(d1.calls)
      /\ r.cleaning # NoLevel =>
            \E j \in 1..Len(d1.calls) : d1.calls[j] \in PowerCalls
  <2>1. d1.calls \in Seq(DeviceCalls)
    BY <1>2 DEF DeviceStates
  <2>2. CASE r.cleaning = NoLevel
    BY <1>3, <2>1, <2>2, DriveCallsOfLists DEF PowerFirst
  <2>3. CASE r.cleaning # NoLevel
    <3>1. PICK x \in PowerCalls : d1.calls = <<x>>
      BY <1>3, <2>3
    <3>2. x \notin MovementCommands
      BY DEF PowerCalls, MovementCommands
    <3>3. Len(<<x>>) = 1 /\ <<x>>[1] = x
      OBVIOUS
    <3>4. DriveCalls(<<x>>) = {} /\ PowerFirst(<<x>>)
      BY <3>2, <3>3 DEF DriveCalls, PowerFirst, MovementCommands
    <3> QED BY <2>1, <3>1, <3>3, <3>4
  <2> QED BY <2>2, <2>3
<1>5. d2.calls = d1.calls \o r.moves
  BY <1>1, <1>2, <1>4 DEF ExecuteMovementCommands, DeviceStates
<1>6. d2 \in DeviceStates
  BY <1>1, <1>2, MovementContract
<1> HIDE DEF d2
<1>7. /\ d2.calls \in Seq(DeviceCalls)
      /\ DriveCalls(d2.calls) = DriveCalls(r.moves)
      /\ ("MoveForward" \in DriveCalls(r.moves) => r.cleaning # NoLevel)
            => PowerFirst(d2.calls)
      /\ r.cleaning = NoLevel => d2.calls = r.moves
  <2>1. d2.calls \in Seq(DeviceCalls)
    BY <1>6 DEF DeviceStates
  <2>2. r.cleaning = NoLevel => d2.calls = r.moves
    BY <1>1, <1>3, <1>5, ConcatEmptySeq
  <2>3. DriveCalls(d2.calls) = DriveCalls(d1.calls) \cup DriveCalls(r.moves)
    BY <1>1, <1>4, <1>5, AppendedMovements
  <2>4. ("MoveForward" \in DriveCalls(r.moves) => r.cleaning # NoLevel)
          => PowerFirst(d2.calls)
    BY <1>1, <1>4, <1>5, AppendedMovements
  <2> QED BY <1>4, <2>1, <2>2, <2>3, <2>4
<1>8. \/ d3.calls = d2.calls
      \/ r.timer /\ d3.calls = Append(d2.calls, "StartTimer")
  BY <1>6 DEF StartTimerIfNeeded, DeviceStates
<1>9. "StartTimer" \in DeviceCalls /\ "StartTimer" \notin MovementCommands
  BY DEF DeviceCalls, MovementCommands
<1>10. Apply(d, o).dev = d3
  BY DEF Apply, d1, d2
<1> HIDE DEF d3
<1>11. DriveCalls(d3.calls) = DriveCalls(d2.calls)
  BY <1>7, <1>8, <1>9, AppendedCall
<1>12. PowerFirst(d2.calls) => PowerFirst(d3.calls)
  BY <1>7, <1>8, <1>9, AppendedCall
<1> QED BY <1>7, <1>8, <1>10, <1>11, <1>12

-----------------------------------------------------------------------------
(***************************************************************************)
(* What holds of the calls of a method that ends with the sensors s and    *)
(* the values st: the action properties, of the values a method works on.  *)
(***************************************************************************)
Fits(s, st) ==
    LET c == st.dev.calls
    IN  /\ c \in Seq(DeviceCalls)
        /\ PowerFirst(c)
        /\ "MoveBackward" \in DriveCalls(c) =>
              ac.confirmed /\ CanMoveBackward(s)
        /\ "TurnRight" \in DriveCalls(c) => s.left /\ st.ac.probeActive
        /\ "TurnLeft" \in DriveCalls(c) =>
              ~s.left \/ (ac.probeActive /\ st.ac.confirmed)
        /\ ac.probeActive /\ ~st.ac.probeActive =>
              \/ st.ac.status = "Cleaning" /\ "MoveForward" \in DriveCalls(c)
              \/ /\ st.ac.status = "Blocked" /\ st.ac.confirmed
                 /\ c = <<"TurnLeft">>

(***************************************************************************)
(* What an obstacle report does to the dust response: nothing, or it       *)
(* starts the one that was pending.                                        *)
(***************************************************************************)
Answers(a) ==
    \/ SameResponse(ac, a)
    \/ ac.pending /\ ~a.pending /\ a.dustActive

\* The sensors and the devices a method starts from make no call.
LEMMA StartFacts ==
    ASSUME IInv
    PROVE  /\ ac \in ACS /\ sensor \in SensorStates /\ BlockOK(ac)
           /\ Devices \in DeviceStates /\ Devices.calls = <<>>
  BY IInvIsSound DEF Devices

\* apply, for a CommandResult that does not turn and needs no probe's end.
LEMMA ApplyFits ==
    ASSUME NEW s, NEW d \in DeviceStates, d.calls = <<>>, NEW o,
           o.ac \in ACS, o.result \in CommandResults,
           NEW D, D = DriveCalls(o.result.moves),
           D \cap {"TurnLeft", "TurnRight"} = {},
           "MoveForward" \in D => o.result.cleaning # NoLevel,
           "MoveBackward" \in D => ac.confirmed /\ CanMoveBackward(s),
           ac.probeActive /\ ~o.ac.probeActive =>
              o.ac.status = "Cleaning" /\ "MoveForward" \in D,
           SameResponse(ac, o.ac)
    PROVE  /\ Fits(s, Apply(d, o)) /\ Answers(Apply(d, o).ac)
           /\ DriveCalls(Apply(d, o).dev.calls) = D
<1>1. /\ DriveCalls(Apply(d, o).dev.calls) = D
      /\ PowerFirst(Apply(d, o).dev.calls)
  BY ApplyCalls
<1>2. /\ Apply(d, o).ac = o.ac
      /\ Apply(d, o).dev.calls \in Seq(DeviceCalls)
  BY ApplyContract DEF DeviceStates
<1> QED BY <1>1, <1>2 DEF Fits, Answers

\* Turning left, or right for a probe.
LEMMA TurnFits ==
    ASSUME IInv, NEW s, NEW a \in ACS, NEW direction, SameResponse(ac, a),
           direction = "Left" => ~s.left \/ (ac.probeActive /\ a.confirmed),
           direction # "Left" => s.left /\ a.probeActive,
           ac.probeActive /\ ~a.probeActive =>
              /\ direction = "Left"
              /\ a.status = "Blocked" /\ a.confirmed
    PROVE  LET st == Turn(Devices, a, direction)
           IN  /\ Fits(s, st) /\ Answers(st.ac)
               /\ DriveCalls(st.dev.calls) # {}
<1> DEFINE ms == IF direction = "Left" THEN <<"TurnLeft">> ELSE <<"TurnRight">>
           o == [ac |-> a, result |-> Moving(ms)]
           st == Turn(Devices, a, direction)
<1>1. /\ ms \in Seq(MovementCommands)
      /\ DriveCalls(ms) = IF direction = "Left" THEN {"TurnLeft"}
                          ELSE {"TurnRight"}
      /\ direction = "Left" => ms = <<"TurnLeft">>
  BY SequenceFacts, DriveCallsOfLists DEF MovementCommands
<1>2. st = Apply(Devices, o)
  BY DEF Turn
<1> HIDE DEF ms
<1>3. /\ o.ac = a
      /\ o.result \in CommandResults /\ o.result.moves = ms
      /\ o.result.cleaning = NoLevel /\ o.result.timer = FALSE
  BY <1>1, MovingContract
<1> HIDE DEF o, st
<1>4. /\ st.ac = a /\ st.dev.calls = ms
      /\ PowerFirst(st.dev.calls)
      /\ st.dev.calls \in Seq(DeviceCalls)
  BY <1>1, <1>2, <1>3, StartFacts, ApplyCalls, ApplyContract DEF DeviceStates
<1> QED BY <1>1, <1>4 DEF Fits, Answers, st

\* Deciding where to turn with no probe under way.
LEMMA DecisionFits ==
    ASSUME IInv, NEW s \in SensorStates, ~ac.probeActive
    PROVE  LET st == ApplyAvoidanceDecision(Devices, s)
           IN  /\ Fits(s, st) /\ Answers(st.ac)
               /\ DriveCalls(st.dev.calls) # {}
<1> DEFINE c == SelectAvoidanceDirection(ac, s)
<1>1. /\ c.ac \in ACS /\ SameResponse(ac, c.ac)
      /\ c.decision = IF s.left THEN "RightProbe" ELSE "Left"
      /\ c.ac.probeActive <=> c.decision = "RightProbe"
  BY StartFacts, SelectContract
<1>2. ApplyAvoidanceDecision(Devices, s) = Turn(Devices, c.ac, c.decision)
  BY <1>1 DEF ApplyAvoidanceDecision
<1> HIDE DEF c
<1> QED BY <1>1, <1>2, TurnFits

\* Serving a pending response moves nothing.
LEMMA PendingFits ==
    ASSUME NEW s, NEW st, Unserved(s, st), Fits(s, st), Answers(st.ac)
    PROVE  LET t == ApplyPendingDustResponseIfCleaning(st, s)
           IN  /\ Fits(s, t) /\ Answers(t.ac)
               /\ DriveCalls(t.dev.calls) = DriveCalls(st.dev.calls)
<1> DEFINE o == HandleDustDetected(st.ac, s)
           d == SetCleaningPower(st.dev, o.result.cleaning)
           e == StartTimerIfNeeded(d, o.result.timer)
<1>1. CASE st.ac.pending /\ st.ac.status = "Cleaning"
  <2>1. /\ o.ac \in ACS /\ o.result \in CommandResults
        /\ o.ac.status = st.ac.status
        /\ o.ac.dustActive /\ ~o.ac.pending
        /\ o.result.moves = <<>> /\ o.result.timer
        /\ o.result.cleaning = IncreasedPowerLevel
    BY <1>1, DustContract DEF Unserved
  <2>2. o.ac.confirmed = st.ac.confirmed /\ o.ac.probeActive = st.ac.probeActive
    BY <1>1 DEF Unserved, HandleDustDetected, ACS, AutomaticCleaningStates
  <2>3. ApplyPendingDustResponseIfCleaning(st, s) = [ac |-> o.ac, dev |-> e]
    <3>1. o.result.cleaning # NoLevel
      BY <2>1, PolicyAssumption DEF PowerLevels, NoLevel
    <3> QED
      BY <1>1, <2>1, <3>1
      DEF ApplyPendingDustResponseIfCleaning, ApplyInitialDustResponse,
          ExecuteMovementCommands
  <2> HIDE DEF o
  <2>4. PICK x \in PowerCalls : d.calls = Append(st.dev.calls, x)
    BY <2>1 DEF SetCleaningPower, PowerCalls, Unserved, DeviceStates
  <2>5. d \in DeviceStates
    BY <2>1, PolicyAssumption, SetPowerContract DEF Unserved
  <2> HIDE DEF d
  <2>6. \/ e.calls = d.calls
        \/ e.calls = Append(d.calls, "StartTimer")
    BY <2>5 DEF StartTimerIfNeeded, DeviceStates
  <2> HIDE DEF e
  <2>7. /\ x \in DeviceCalls /\ x \notin MovementCommands
        /\ "StartTimer" \in DeviceCalls /\ "StartTimer" \notin MovementCommands
    BY DEF DeviceCalls, PowerCalls, MovementCommands
  <2>8. /\ st.dev.calls \in Seq(DeviceCalls) /\ PowerFirst(st.dev.calls)
    BY DEF Fits
  <2>9. /\ d.calls \in Seq(DeviceCalls) /\ PowerFirst(d.calls)
        /\ DriveCalls(d.calls) = DriveCalls(st.dev.calls)
    BY <2>4, <2>7, <2>8, AppendedCall
  <2>10. /\ e.calls \in Seq(DeviceCalls) /\ PowerFirst(e.calls)
         /\ DriveCalls(e.calls) = DriveCalls(st.dev.calls)
    BY <2>6, <2>7, <2>9, AppendedCall
  <2>11. Answers(o.ac)
    BY <1>1, <2>1 DEF Answers, SameResponse
  <2> QED BY <1>1, <2>1, <2>2, <2>3, <2>10, <2>11 DEF Fits
<1>2. CASE ~(st.ac.pending /\ st.ac.status = "Cleaning")
  BY <1>2 DEF ApplyPendingDustResponseIfCleaning
<1> QED BY <1>1, <1>2

\* The drive commands of a robot that goes on, or stops for an obstacle.
LEMMA GoingOnCalls ==
    /\ DriveCalls(<<"Stop">>) = {"Stop"}
    /\ DriveCalls(<<"MoveForward">>) = {"MoveForward"}
    /\ DriveCalls(<<"MoveBackward">>) = {"MoveBackward"}
    /\ DriveCalls(<<"Stop", "MoveBackward">>) = {"Stop", "MoveBackward"}
  BY DriveCallsOfLists DEF MovementCommands

\* Driving on, or stopping, after a turn or a probe that found the way open.
LEMMA ResumptionFits ==
    ASSUME IInv, NEW a \in ACS, NEW s \in SensorStates, BlockOK(a),
           SameResponse(ac, a), ac.pending => s.dust,
           ac.probeActive => a.probeActive \/ ~s.front
    PROVE  LET st == ApplyPendingDustResponseIfCleaning(
                       Apply(Devices, ResumeAfterTurn(a, s)), s)
           IN  /\ Fits(s, st) /\ Answers(st.ac)
               /\ DriveCalls(st.dev.calls) # {}
<1> DEFINE o == ResumeAfterTurn(a, s)
           D == DriveCalls(o.result.moves)
<1>1. /\ o.ac \in ACS /\ o.result \in CommandResults
      /\ BlockOK(o.ac) /\ SameResponse(a, o.ac)
      /\ o.ac.probeActive = a.probeActive
      /\ s.front => /\ o.ac.status = "AvoidingObstacle"
                    /\ o.result.moves = <<"Stop">>
                    /\ o.result.cleaning = NoLevel
      /\ ~s.front => /\ o.ac.status = "Cleaning"
                     /\ o.result.moves = <<"MoveForward">>
                     /\ o.result.cleaning = ResponsePower(a)
      /\ o.result.timer = FALSE
  BY ResumeContract
<1> HIDE DEF o
<1>2. /\ s.front => D = {"Stop"}
      /\ ~s.front => D = {"MoveForward"}
  BY <1>1, GoingOnCalls
<1> HIDE DEF D
<1>3. SameResponse(ac, o.ac) /\ ResponsePower(a) = ResponsePower(ac)
  BY <1>1 DEF SameResponse, ResponsePower
<1>4. ResponsePower(a) # NoLevel
  BY DEF ResponsePower, ACS, AutomaticCleaningStates, PowerLevels, NoLevel
<1>5. /\ Fits(s, Apply(Devices, o)) /\ Answers(Apply(Devices, o).ac)
      /\ DriveCalls(Apply(Devices, o).dev.calls) = D
  BY <1>1, <1>2, <1>3, <1>4, StartFacts, ApplyFits DEF D
<1>6. /\ MotionFits(s, o.ac, LastDrive(Devices, o.result.moves))
      /\ LastDrive(Devices, o.result.moves) # "None"
  BY <1>1, LastDriveValues DEF MotionFits
<1>7. Unserved(s, Apply(Devices, o))
  BY <1>1, <1>3, <1>4, <1>6, IInvIsSound, ApplyIsSound
<1> QED BY <1>2, <1>5, <1>7, PendingFits DEF o

\* Resolving the probe under way.
LEMMA ProbeResultFits ==
    ASSUME IInv, NEW s \in SensorStates, ac.pending => s.dust, ac.probeActive
    PROVE  LET st == ApplyRightProbeResult(Devices, s)
           IN  /\ Fits(s, st) /\ Answers(st.ac)
               /\ DriveCalls(st.dev.calls) # {}
<1> DEFINE c == SelectAvoidanceDirection(ac, s)
<1>1. /\ c.ac \in ACS /\ BlockOK(c.ac) /\ SameResponse(ac, c.ac)
      /\ c.decision = IF s.front THEN "Backward" ELSE "Right"
      /\ c.decision = "Backward" => c.ac.status = "Blocked" /\ c.ac.confirmed
  BY StartFacts, SelectContract
<1>2. CASE c.decision = "Backward"
  <2>1. ApplyRightProbeResult(Devices, s) = Turn(Devices, c.ac, "Left")
    BY <1>2 DEF ApplyRightProbeResult
  <2> HIDE DEF c
  <2> QED BY <1>1, <1>2, <2>1, TurnFits
<1>3. CASE c.decision # "Backward"
  <2>1. ApplyRightProbeResult(Devices, s) =
          ApplyPendingDustResponseIfCleaning(
            Apply(Devices, ResumeAfterTurn(c.ac, s)), s)
    BY <1>3 DEF ApplyRightProbeResult
  <2>2. ~s.front
    BY <1>1, <1>3
  <2> HIDE DEF c
  <2> QED BY <1>1, <2>1, <2>2, ResumptionFits
<1> QED BY <1>2, <1>3

\* A robot that senses anew.
LEMMA NewlySensedFits ==
    ASSUME IInv, NEW s \in SensorStates
    PROVE  LET st == NewlySensed(s)
           IN  /\ Fits(s, st) /\ Answers(st.ac)
               /\ DriveCalls(st.dev.calls) # {}
<1> DEFINE o == HandleSensorState(ac, s)
           D == DriveCalls(o.result.moves)
<1>1. /\ o.ac \in ACS /\ o.result \in CommandResults
      /\ o.ac.probeActive = ac.probeActive /\ SameResponse(ac, o.ac)
      /\ s.front => o.result.moves = <<"Stop">>
      /\ ~s.front => /\ o.result.moves = <<"MoveForward">>
                     /\ o.result.cleaning = ResponsePower(ac)
  BY StartFacts, SensorStateContract
<1>2. NewlySensed(s) = Apply(Devices, o)
  BY DEF NewlySensed
<1> HIDE DEF o
<1>3. /\ s.front => D = {"Stop"}
      /\ ~s.front => D = {"MoveForward"}
  BY <1>1, GoingOnCalls
<1> HIDE DEF D
<1>4. ResponsePower(ac) # NoLevel
  BY StartFacts
  DEF ResponsePower, ACS, AutomaticCleaningStates, PowerLevels, NoLevel
<1>5. /\ Fits(s, Apply(Devices, o)) /\ Answers(Apply(Devices, o).ac)
      /\ DriveCalls(Apply(Devices, o).dev.calls) = D
  BY <1>1, <1>3, <1>4, StartFacts, ApplyFits DEF D
<1> QED BY <1>2, <1>3, <1>5

\* Obstacles while a response is active.
LEMMA RespondingFits ==
    ASSUME IInv, NEW s \in SensorStates, ac.dustActive
    PROVE  LET st == SensedWhileResponding(s)
           IN  /\ Fits(s, st) /\ Answers(st.ac)
               /\ DriveCalls(st.dev.calls) # {}
<1> DEFINE o == HandleObstacleWhileDustResponse(ac, s)
           D == DriveCalls(o.result.moves)
<1>1. /\ o.ac \in ACS /\ o.result \in CommandResults
      /\ o.ac.probeActive = ac.probeActive /\ SameResponse(ac, o.ac)
      /\ o.result.cleaning = ac.dustLevel
      /\ \/ o.result.moves \in {<<"Stop">>, <<"MoveForward">>}
         \/ /\ ac.confirmed /\ CanMoveBackward(s)
            /\ o.result.moves \in {<<"MoveBackward">>,
                                   <<"Stop", "MoveBackward">>}
  BY StartFacts, WhileRespondingContract
<1>2. SensedWhileResponding(s) = Apply(Devices, o)
  BY DEF SensedWhileResponding
<1> HIDE DEF o
<1>3. /\ D # {} /\ D \cap {"TurnLeft", "TurnRight"} = {}
      /\ "MoveBackward" \in D => ac.confirmed /\ CanMoveBackward(s)
  BY <1>1, GoingOnCalls
<1> HIDE DEF D
<1>4. o.result.cleaning # NoLevel
  BY <1>1, StartFacts DEF ACS, AutomaticCleaningStates, PowerLevels, NoLevel
<1>5. /\ Fits(s, Apply(Devices, o)) /\ Answers(Apply(Devices, o).ac)
      /\ DriveCalls(Apply(Devices, o).dev.calls) = D
  BY <1>1, <1>3, <1>4, StartFacts, ApplyFits DEF D
<1> QED BY <1>2, <1>3, <1>5

\* Behind a block with no response active.
LEMMA ThreeSideFits ==
    ASSUME IInv, NEW s \in SensorStates
    PROVE  LET st == Apply(Devices, HandleThreeSideObstacle(ac, s))
           IN  /\ Fits(s, st) /\ Answers(st.ac)
               /\ ac.confirmed => DriveCalls(st.dev.calls) # {}
<1> DEFINE o == HandleThreeSideObstacle(ac, s)
           D == DriveCalls(o.result.moves)
<1>1. /\ o.ac \in ACS /\ o.result \in CommandResults
      /\ o.ac.probeActive = ac.probeActive /\ SameResponse(ac, o.ac)
      /\ \/ o.result.moves = <<>> /\ ~ac.confirmed
         \/ o.result.moves = <<"Stop">>
         \/ /\ ac.confirmed /\ CanMoveBackward(s)
            /\ o.result.moves \in {<<"MoveBackward">>,
                                   <<"Stop", "MoveBackward">>}
  BY StartFacts, ThreeSideContract
<1> HIDE DEF o
<1>2. /\ D \cap {"TurnLeft", "TurnRight", "MoveForward"} = {}
      /\ "MoveBackward" \in D => ac.confirmed /\ CanMoveBackward(s)
      /\ ac.confirmed => D # {}
  BY <1>1, GoingOnCalls, DriveCallsOfLists
<1> HIDE DEF D
<1>3. /\ Fits(s, Apply(Devices, o)) /\ Answers(Apply(Devices, o).ac)
      /\ DriveCalls(Apply(Devices, o).dev.calls) = D
  BY <1>1, <1>2, StartFacts, ApplyFits DEF D
<1> QED BY <1>2, <1>3 DEF o

-----------------------------------------------------------------------------
(***************************************************************************)
(* The public methods.                                                     *)
(***************************************************************************)

\* The same, of the step a method makes.
CallFits == Fits(sensor', [ac |-> ac', dev |-> [calls |-> calls']])

\* What a method leaves and what the step leaves are the same.
LEMMA ReturnFits ==
    ASSUME NEW s, NEW st, Return(s, st), Fits(s, st)
    PROVE  /\ CallFits
           /\ ac' = st.ac /\ calls' = st.dev.calls
  BY DEF Return, Fits, CallFits

\* A front report (RVCSWController.cpp:28).
LEMMA FrontFits ==
    ASSUME IInv, NEW front \in BOOLEAN, ReportFrontObstacleState(front)
    PROVE  CallFits /\ Answers(ac')
<1> DEFINE s == [sensor EXCEPT !.front = front]
<1>1. /\ s \in SensorStates /\ s.front = front
      /\ ac.pending => s.dust
  BY IInvIsSound DEF SensorStates
<1>2. PICK st : Return(s, st) /\ Fits(s, st) /\ Answers(st.ac)
  <2>1. CASE ac.probeActive
    <3>1. Return(s, ApplyRightProbeResult(Devices, s))
      BY <2>1 DEF ReportFrontObstacleState
    <3> HIDE DEF s
    <3> QED BY <1>1, <2>1, <3>1, ProbeResultFits
  <2>2. CASE ~ac.probeActive /\ ~front /\ Avoiding
    <3>1. Return(s, Resumed(s))
      BY <2>2 DEF ReportFrontObstacleState, Avoiding, Blocked
    <3> HIDE DEF s
    <3>2. SameResponse(ac, ac)
      BY DEF SameResponse
    <3>3. Fits(s, Resumed(s)) /\ Answers(Resumed(s).ac)
      BY <1>1, <2>2, <3>2, StartFacts, ResumptionFits DEF Resumed
    <3> QED BY <3>1, <3>3
  <2>3. CASE ~ac.probeActive /\ ~front /\ Blocked
    <3>1. Return(s, ApplyAvoidanceDecision(Devices, s))
      BY <2>3 DEF ReportFrontObstacleState, Avoiding, Blocked
    <3> HIDE DEF s
    <3> QED BY <1>1, <2>3, <3>1, DecisionFits
  <2>4. CASE /\ ~ac.probeActive /\ (front \/ ~(Avoiding \/ Blocked))
             /\ ac.dustActive
    <3>1. Return(s, SensedWhileResponding(s))
      BY <2>4 DEF ReportFrontObstacleState
    <3> HIDE DEF s
    <3> QED BY <1>1, <2>4, <3>1, RespondingFits
  <2>5. CASE /\ ~ac.probeActive /\ (front \/ ~(Avoiding \/ Blocked))
             /\ ~ac.dustActive
    <3>1. Return(s, ApplyPendingDustResponseIfCleaning(NewlySensed(s), s))
      BY <2>5 DEF ReportFrontObstacleState
    <3> HIDE DEF s
    <3> QED BY <1>1, <3>1, NewlySensedFits, NewlySensedIsUnserved, PendingFits
  <2> QED BY <2>1, <2>2, <2>3, <2>4, <2>5
<1> HIDE DEF s
<1> QED BY <1>2, ReturnFits

\* A back report (RVCSWController.cpp:55).
LEMMA BackFits ==
    ASSUME IInv, NEW back \in BackStates, ReportBackObstacleState(back)
    PROVE  CallFits /\ Answers(ac')
<1> DEFINE s == [sensor EXCEPT !.back = back]
<1>1. s \in SensorStates
  BY StartFacts DEF SensorStates
<1>2. PICK st : Return(s, st) /\ Fits(s, st) /\ Answers(st.ac)
  <2>1. CASE ac.dustActive
    <3>1. Return(s, SensedWhileResponding(s))
      BY <2>1 DEF ReportBackObstacleState
    <3> HIDE DEF s
    <3> QED BY <1>1, <2>1, <3>1, RespondingFits
  <2>2. CASE ~ac.dustActive
    <3>1. Return(s, Apply(Devices, HandleThreeSideObstacle(ac, s)))
      BY <2>2 DEF ReportBackObstacleState
    <3> HIDE DEF s
    <3> QED BY <1>1, <3>1, ThreeSideFits
  <2> QED BY <2>1, <2>2
<1> HIDE DEF s
<1> QED BY <1>2, ReturnFits

\* A left report (RVCSWController.cpp:70).
LEMMA LeftFits ==
    ASSUME IInv, NEW left \in BOOLEAN, ReportLeftObstacleState(left)
    PROVE  CallFits /\ Answers(ac')
<1> DEFINE s == [sensor EXCEPT !.left = left]
<1>1. s \in SensorStates
  BY StartFacts DEF SensorStates
<1>2. PICK st : Return(s, st) /\ Fits(s, st) /\ Answers(st.ac)
  <2>1. CASE ac.probeActive \/ ~(Avoiding \/ Blocked)
    <3>1. Return(s, NothingToDo)
      BY <2>1 DEF ReportLeftObstacleState
    <3>2. NothingToDo.ac = ac /\ NothingToDo.dev.calls = <<>>
      BY DEF NothingToDo, Devices
    <3>3. <<>> \in Seq(DeviceCalls) /\ PowerFirst(<<>>)
      BY DEF PowerFirst
    <3> HIDE DEF s
    <3>4. Fits(s, NothingToDo)
      BY <3>2, <3>3, DriveCallsOfLists DEF Fits
    <3> QED BY <3>1, <3>2, <3>4 DEF Answers, SameResponse
  <2>2. CASE ~ac.probeActive /\ (Avoiding \/ Blocked)
    <3>1. Return(s, ApplyAvoidanceDecision(Devices, s))
      BY <2>2 DEF ReportLeftObstacleState
    <3> HIDE DEF s
    <3> QED BY <1>1, <2>2, <3>1, DecisionFits
  <2> QED BY <2>1, <2>2
<1> HIDE DEF s
<1> QED BY <1>2, ReturnFits

\* A snapshot of all sensors (RVCSWController.cpp:85); it always commands.
LEMMA SnapshotFits ==
    ASSUME IInv, NEW front \in BOOLEAN, NEW back \in BackStates,
           NEW left \in BOOLEAN, ReportObstacleState(front, back, left)
    PROVE  CallFits /\ Answers(ac') /\ DriveCalls(calls') # {}
<1> DEFINE s == [sensor EXCEPT !.front = front, !.back = back, !.left = left]
           leaves == Blocked /\ HasEffect(LeaveBlock(s).result)
           Good(st) == Return(s, st) /\ Fits(s, st) /\ Answers(st.ac)
                       /\ DriveCalls(st.dev.calls) # {}
<1>1. /\ s \in SensorStates /\ s.front = front
      /\ ac.pending => s.dust
  BY IInvIsSound DEF SensorStates
<1>2. PICK st : Good(st)
  <2>1. CASE ac.probeActive
    <3>1. Return(s, ApplyRightProbeResult(Devices, s))
      BY <2>1 DEF ReportObstacleState
    <3> HIDE DEF s
    <3> QED BY <1>1, <2>1, <3>1, ProbeResultFits
  <2>2. CASE ~ac.probeActive /\ leaves
    <3>1. Return(s, Apply(Devices, LeaveBlock(s)))
      BY <2>2 DEF ReportObstacleState, Avoiding, Blocked
    <3>2. CASE ac.dustActive
      <4>1. Apply(Devices, LeaveBlock(s)) = SensedWhileResponding(s)
        BY <3>2 DEF LeaveBlock, SensedWhileResponding
      <4> HIDE DEF s
      <4> QED BY <1>1, <3>1, <3>2, <4>1, RespondingFits
    <3>3. CASE ~ac.dustActive
      <4>1. LeaveBlock(s) = HandleThreeSideObstacle(ac, s)
        BY <3>3 DEF LeaveBlock
      <4> HIDE DEF s
      <4>2. ac.confirmed
        BY <2>2, <4>1 DEF HandleThreeSideObstacle, HasEffect, NoCommands
      <4> QED BY <1>1, <3>1, <4>1, <4>2, ThreeSideFits
    <3> QED BY <3>2, <3>3
  <2>3. CASE ~ac.probeActive /\ ~leaves /\ (Blocked \/ (Avoiding /\ front))
    <3>1. Return(s, ApplyAvoidanceDecision(Devices, s))
      BY <2>3 DEF ReportObstacleState, Avoiding, Blocked
    <3> HIDE DEF s, leaves
    <3> QED BY <1>1, <2>3, <3>1, DecisionFits
  <2>4. CASE ~ac.probeActive /\ Avoiding /\ ~front
    <3>1. Return(s, Resumed(s))
      BY <2>4 DEF ReportObstacleState, Avoiding, Blocked
    <3> HIDE DEF s, leaves
    <3>2. SameResponse(ac, ac)
      BY DEF SameResponse
    <3>3. /\ Fits(s, Resumed(s)) /\ Answers(Resumed(s).ac)
          /\ DriveCalls(Resumed(s).dev.calls) # {}
      BY <1>1, <2>4, <3>2, StartFacts, ResumptionFits DEF Resumed
    <3> QED BY <3>1, <3>3
  <2>5. CASE ~ac.probeActive /\ ~(Avoiding \/ Blocked) /\ ac.dustActive
    <3>1. Return(s, SensedWhileResponding(s))
      BY <2>5 DEF ReportObstacleState
    <3> HIDE DEF s, leaves
    <3> QED BY <1>1, <2>5, <3>1, RespondingFits
  <2>6. CASE ~ac.probeActive /\ ~(Avoiding \/ Blocked) /\ ~ac.dustActive
             /\ front
    <3>1. Return(s, NewlySensed(s))
      BY <2>6 DEF ReportObstacleState
    <3> HIDE DEF s, leaves
    <3> QED BY <1>1, <3>1, NewlySensedFits
  <2>7. CASE ~ac.probeActive /\ ~(Avoiding \/ Blocked) /\ ~ac.dustActive
             /\ ~front
    <3> DEFINE t == ApplyPendingDustResponseIfCleaning(NewlySensed(s), s)
    <3>1. Return(s, t)
      BY <2>7 DEF ReportObstacleState
    <3> HIDE DEF s, leaves
    <3>2. Fits(s, t) /\ Answers(t.ac) /\ DriveCalls(t.dev.calls) # {}
      BY <1>1, NewlySensedFits, NewlySensedIsUnserved, PendingFits
    <3> QED BY <3>1, <3>2
  <2> HIDE DEF s, leaves, Good
  <2> QED BY <2>1, <2>2, <2>3, <2>4, <2>5, <2>6, <2>7
<1> HIDE DEF s
<1> QED BY <1>2, ReturnFits


\* A dust report (RVCSWController.cpp:148): answered or put off; no motion.
LEMMA DustFits ==
    ASSUME IInv, ReportDustDetected
    PROVE  /\ CallFits /\ DriveCalls(calls') = {}
           /\ ac' = [ac EXCEPT !.dustActive = ac'.dustActive,
                               !.dustLevel = ac'.dustLevel,
                               !.pending = ac'.pending]
           /\ \/ ~ac'.pending /\ ac'.dustActive
              \/ ac'.pending /\ ac'.dustActive = ac.dustActive
<1> DEFINE s == [sensor EXCEPT !.dust = TRUE]
<1>1. /\ s \in SensorStates /\ s.dust
  BY StartFacts DEF SensorStates
<1>2. /\ <<>> \in Seq(DeviceCalls) /\ PowerFirst(<<>>)
      /\ DriveCalls(<<>>) = {}
  BY DriveCallsOfLists DEF PowerFirst
<1>3. CASE ac.status # "Cleaning"
  <2> DEFINE b == MarkDustResponsePending(ac)
  <2>1. Return(s, [ac |-> b, dev |-> Devices])
    BY <1>3 DEF ReportDustDetected
  <2>2. ac' = b /\ calls' = <<>>
    BY <2>1, StartFacts DEF Return
  <2>3. /\ b = [ac EXCEPT !.dustActive = b.dustActive,
                          !.dustLevel = b.dustLevel, !.pending = b.pending]
        /\ b.probeActive = ac.probeActive
        /\ b.pending /\ b.dustActive = ac.dustActive
    BY StartFacts DEF MarkDustResponsePending, ACS, AutomaticCleaningStates
  <2> HIDE DEF b
  <2> QED BY <1>2, <2>2, <2>3 DEF CallFits, Fits
<1>4. CASE ac.status = "Cleaning"
  <2> DEFINE o == HandleDustDetected(ac, s)
             d == SetCleaningPower(Devices, o.result.cleaning)
             e == StartTimerIfNeeded(d, o.result.timer)
  <2>1. Return(s, ApplyInitialDustResponse(Devices, o))
    BY <1>4 DEF ReportDustDetected
  <2>2. /\ o.ac \in ACS /\ o.result.moves = <<>>
        /\ o.result.cleaning = IncreasedPowerLevel
        /\ o.ac.dustActive /\ ~o.ac.pending
    BY <1>1, StartFacts, DustContract
  <2>3. /\ o.ac = [ac EXCEPT !.dustActive = o.ac.dustActive,
                             !.dustLevel = o.ac.dustLevel,
                             !.pending = o.ac.pending]
        /\ o.ac.probeActive = ac.probeActive
    BY <1>1, StartFacts DEF HandleDustDetected, ACS, AutomaticCleaningStates
  <2> HIDE DEF o
  <2>4. ApplyInitialDustResponse(Devices, o) = [ac |-> o.ac, dev |-> e]
    <3>1. o.result.cleaning # NoLevel
      BY <2>2, PolicyAssumption DEF PowerLevels, NoLevel
    <3> QED
      BY <2>2, <3>1 DEF ApplyInitialDustResponse, ExecuteMovementCommands
  <2>5. PICK x \in PowerCalls : d.calls = Append(<<>>, x)
    BY <2>2, StartFacts DEF SetCleaningPower, PowerCalls, DeviceStates
  <2>6. d \in DeviceStates
    BY <2>2, StartFacts, PolicyAssumption, SetPowerContract
  <2> HIDE DEF d
  <2>7. \/ e.calls = d.calls
        \/ e.calls = Append(d.calls, "StartTimer")
    BY <2>6 DEF StartTimerIfNeeded, DeviceStates
  <2> HIDE DEF e
  <2>8. /\ x \in DeviceCalls /\ x \notin MovementCommands
        /\ "StartTimer" \in DeviceCalls /\ "StartTimer" \notin MovementCommands
    BY DEF DeviceCalls, PowerCalls, MovementCommands
  <2>9. /\ d.calls \in Seq(DeviceCalls) /\ PowerFirst(d.calls)
        /\ DriveCalls(d.calls) = {}
    BY <1>2, <2>5, <2>8, AppendedCall
  <2>10. /\ e.calls \in Seq(DeviceCalls) /\ PowerFirst(e.calls)
         /\ DriveCalls(e.calls) = {}
    BY <2>7, <2>8, <2>9, AppendedCall
  <2>11. ac' = o.ac /\ calls' = e.calls
    BY <2>1, <2>4 DEF Return
  <2> QED BY <2>2, <2>3, <2>10, <2>11 DEF CallFits, Fits
<1> QED BY <1>3, <1>4

\* The end of the dust timer (RVCSWController.cpp:159): no motion either.
LEMMA TimeoutFits ==
    ASSUME IInv, IncreasedPowerDurationExpired
    PROVE  /\ CallFits /\ DriveCalls(calls') = {}
           /\ ac' = [ac EXCEPT !.dustActive = ac'.dustActive,
                               !.dustLevel = ac'.dustLevel,
                               !.pending = ac'.pending]
           /\ ~timer' /\ ~ac'.dustActive
           /\ ac'.pending = IF ac.dustActive THEN FALSE ELSE ac.pending
<1> DEFINE d == [Devices EXCEPT !.timer = FALSE]
           o == HandleDustResponseTimeout(ac)
<1>1. d \in DeviceStates /\ d.calls = <<>> /\ ~d.timer
  BY StartFacts DEF DeviceStates
<1>2. /\ o.ac \in ACS /\ o.result \in CommandResults
      /\ ~o.ac.dustActive
      /\ o.result.moves = <<>> /\ ~o.result.timer
  BY StartFacts, TimeoutContract
<1>3. /\ o.ac = [ac EXCEPT !.dustActive = o.ac.dustActive,
                           !.dustLevel = o.ac.dustLevel,
                           !.pending = o.ac.pending]
      /\ o.ac.probeActive = ac.probeActive
      /\ o.ac.pending = IF ac.dustActive THEN FALSE ELSE ac.pending
  BY StartFacts DEF HandleDustResponseTimeout, ACS, AutomaticCleaningStates
<1>4. Return(sensor, Apply(d, o))
  BY DEF IncreasedPowerDurationExpired
<1> HIDE DEF d, o
<1>5. /\ ac' = o.ac /\ calls' = Apply(d, o).dev.calls /\ ~timer'
      /\ calls' \in Seq(DeviceCalls)
  BY <1>1, <1>2, <1>4, ApplyContract DEF Return, DeviceStates
<1>6. DriveCalls(calls') = {} /\ PowerFirst(calls')
  BY <1>1, <1>2, <1>5, ApplyCalls, DriveCallsOfLists
<1> QED BY <1>2, <1>3, <1>5, <1>6 DEF CallFits, Fits

-----------------------------------------------------------------------------
(***************************************************************************)
(* The theorems on the calls of a step.                                    *)
(***************************************************************************)

\* Every call of the controller fits.
LEMMA NextFits ==
    ASSUME IInv, Next
    PROVE  CallFits
<1>1. ASSUME NEW front \in BOOLEAN, ReportFrontObstacleState(front)
      PROVE  CallFits
  BY <1>1, FrontFits
<1>2. ASSUME NEW back \in BackStates, ReportBackObstacleState(back)
      PROVE  CallFits
  BY <1>2, BackFits
<1>3. ASSUME NEW left \in BOOLEAN, ReportLeftObstacleState(left)
      PROVE  CallFits
  BY <1>3, LeftFits
<1>4. ASSUME NEW front \in BOOLEAN, NEW left \in BOOLEAN,
             NEW back \in BackStates, ReportObstacleState(front, back, left)
      PROVE  CallFits
  BY <1>4, SnapshotFits
<1>5. CASE ReportDustDetected
  BY <1>5, DustFits
<1>6. CASE IncreasedPowerDurationExpired
  BY <1>6, TimeoutFits
<1> QED BY <1>1, <1>2, <1>3, <1>4, <1>5, <1>6 DEF Next

\* What a step issues is what its calls command.
LEMMA IssuedCalls ==
    \A m \in MovementCommands : Issued(m)' <=> m \in DriveCalls(calls')
  BY DEF Issued, DriveCalls

(***************************************************************************)
(* In every call the power is set before the drive is told to go forward.  *)
(***************************************************************************)
THEOREM PowerComesFirst == Spec => []PowerBeforeForward
<1>1. Init => PowerBeforeForward
  BY DEF Init, PowerBeforeForward
<1>2. IInv /\ PowerBeforeForward /\ [Next]_vars => PowerBeforeForward'
  <2> SUFFICES ASSUME IInv, PowerBeforeForward, [Next]_vars
               PROVE  PowerBeforeForward'
    OBVIOUS
  <2>1. CASE Next
    BY <2>1, NextFits DEF CallFits, Fits, PowerFirst, PowerBeforeForward
  <2>2. CASE UNCHANGED vars
    BY <2>2 DEF vars, PowerBeforeForward
  <2> QED BY <2>1, <2>2
<1> QED BY <1>1, <1>2, Invariance, PTL DEF Spec

(***************************************************************************)
(* The robot backs up only out of a block that was confirmed before and    *)
(* with the back sensor known to be clear.                                 *)
(***************************************************************************)
THEOREM ReversingIsSafe == Spec => ReverseOnlyOutOfBlock
<1>1. IInv /\ [Next]_vars =>
        [Issued("MoveBackward")' =>
           ac.confirmed /\ CanMoveBackward(sensor')]_vars
  BY NextFits, IssuedCalls DEF CallFits, Fits, MovementCommands
<1> QED BY <1>1, Invariance, PTL DEF Spec, ReverseOnlyOutOfBlock

(***************************************************************************)
(* The robot turns right only to probe beside a blocked left side, and     *)
(* left only into a clear side or back from a probe.                       *)
(***************************************************************************)
THEOREM LeftGoesFirst == Spec => TurnsFollowLeftHandRule
<1>1. IInv /\ [Next]_vars =>
        [/\ Issued("TurnRight")' => sensor'.left /\ ac'.probeActive
         /\ Issued("TurnLeft")' =>
              ~sensor'.left \/ (ac.probeActive /\ ac'.confirmed)]_vars
  BY NextFits, IssuedCalls DEF CallFits, Fits, MovementCommands
<1> QED BY <1>1, Invariance, PTL DEF Spec, TurnsFollowLeftHandRule

(***************************************************************************)
(* A probe ends by driving on or by the turn that undoes its own.          *)
(***************************************************************************)
THEOREM ProbeKeepsHeading == Spec => ProbeEndsInHeading
<1>1. IInv /\ [Next]_vars =>
        [ac.probeActive /\ ~ac'.probeActive =>
           \/ ac'.status = "Cleaning" /\ Issued("MoveForward")'
           \/ ac'.confirmed /\ calls' = <<"TurnLeft">>]_vars
  BY NextFits, IssuedCalls DEF CallFits, Fits, MovementCommands
<1> QED BY <1>1, Invariance, PTL DEF Spec, ProbeEndsInHeading

(***************************************************************************)
(* Every snapshot is answered with a drive command.                        *)
(***************************************************************************)
THEOREM SnapshotIsAnswered == Spec => SnapshotMovesDrive
<1>1. IInv =>
        ((\E f, l \in BOOLEAN, b \in BackStates : ReportObstacleState(f, b, l))
           => \E m \in MovementCommands : Issued(m)')
  <2> SUFFICES ASSUME IInv, NEW f \in BOOLEAN, NEW l \in BOOLEAN,
                      NEW b \in BackStates, ReportObstacleState(f, b, l)
               PROVE  \E m \in MovementCommands : Issued(m)'
    OBVIOUS
  <2>1. PICK m : m \in DriveCalls(calls')
    BY SnapshotFits
  <2>2. m \in MovementCommands
    BY <2>1 DEF DriveCalls
  <2> QED BY <2>1, <2>2, IssuedCalls
<1> QED BY <1>1, Invariance, PTL DEF Spec, SnapshotMovesDrive

(***************************************************************************)
(* Dust reports and timeouts leave the motion alone.                       *)
(***************************************************************************)
THEOREM DustKeepsMotion == Spec => CleaningEventsKeepMotion
<1>1. IInv =>
        (ReportDustDetected \/ IncreasedPowerDurationExpired =>
           /\ ac' = [ac EXCEPT !.dustActive = ac'.dustActive,
                               !.dustLevel = ac'.dustLevel,
                               !.pending = ac'.pending]
           /\ \A m \in MovementCommands : ~Issued(m)')
  BY DustFits, TimeoutFits, IssuedCalls
<1> QED BY <1>1, Invariance, PTL DEF Spec, CleaningEventsKeepMotion

-----------------------------------------------------------------------------
(***************************************************************************)
(* The refinement of DustService, under the default policy: its level is   *)
(* the increased one and its duration is not zero.                         *)
(***************************************************************************)
DefaultPolicy ==
    IncreasedPowerLevel = "Increased" /\ IncreasedPowerDuration # 0

\* Under the invariant the mapped variables are two members of the object.
LEMMA DustMapping ==
    ASSUME IInv, DefaultPolicy
    PROVE  /\ ac.pending \in BOOLEAN
           /\ (power = "Increased") = ac.dustActive
           /\ timer = ac.dustActive
  BY DEF DefaultPolicy, IInv, TypeOK, AutomaticCleaningStates,
         PowerFollowsResponse, TimerCoversResponse

\* The same of the state a step leaves.
LEMMA DustMappingAfter ==
    ASSUME IInv', DefaultPolicy
    PROVE  /\ ac'.pending \in BOOLEAN
           /\ (power' = "Increased") = ac'.dustActive
           /\ timer' = ac'.dustActive
  BY DEF DefaultPolicy, IInv, TypeOK, AutomaticCleaningStates,
         PowerFollowsResponse, TimerCoversResponse

\* An obstacle report changes nothing of the service or resumes it.
LEMMA ReportIsServiceStep ==
    ASSUME IInv, IInv', DefaultPolicy, Answers(ac')
    PROVE  [Dust!Resume]_(Dust!dustVars)
<1>1. CASE SameResponse(ac, ac')
  BY <1>1, DustMapping, DustMappingAfter DEF SameResponse, Dust!dustVars
<1>2. CASE ac.pending /\ ~ac'.pending /\ ac'.dustActive
  BY <1>2, DustMapping, DustMappingAfter DEF Dust!Resume, Dust!Respond
<1> QED BY <1>1, <1>2 DEF Answers

\* All four obstacle reports are such.
LEMMA ObstacleIsServiceStep ==
    ASSUME IInv, IInv', DefaultPolicy, ObstacleReported
    PROVE  [Dust!Resume]_(Dust!dustVars)
<1>1. ASSUME NEW front \in BOOLEAN, ReportFrontObstacleState(front)
      PROVE  Answers(ac')
  BY <1>1, FrontFits
<1>2. ASSUME NEW back \in BackStates, ReportBackObstacleState(back)
      PROVE  Answers(ac')
  BY <1>2, BackFits
<1>3. ASSUME NEW left \in BOOLEAN, ReportLeftObstacleState(left)
      PROVE  Answers(ac')
  BY <1>3, LeftFits
<1>4. ASSUME NEW front \in BOOLEAN, NEW left \in BOOLEAN,
             NEW back \in BackStates, ReportObstacleState(front, back, left)
      PROVE  Answers(ac')
  BY <1>4, SnapshotFits
<1> QED
  BY <1>1, <1>2, <1>3, <1>4, ReportIsServiceStep DEF ObstacleReported

\* A dust report is the service's report.
LEMMA DustIsServiceStep ==
    ASSUME IInv, IInv', DefaultPolicy, ReportDustDetected
    PROVE  Dust!Report
<1>1. \/ ~ac'.pending /\ ac'.dustActive
      \/ ac'.pending /\ ac'.dustActive = ac.dustActive
  BY DustFits
<1> QED
  BY <1>1, DustMapping, DustMappingAfter DEF Dust!Report, Dust!Respond

\* A timeout ends the response, or finds none to end.
LEMMA TimeoutIsServiceStep ==
    ASSUME IInv, IInv', DefaultPolicy, IncreasedPowerDurationExpired
    PROVE  [Dust!Expire]_(Dust!dustVars)
<1>1. /\ ~ac'.dustActive
      /\ ac'.pending = IF ac.dustActive THEN FALSE ELSE ac.pending
  BY TimeoutFits
<1>2. CASE ac.dustActive
  BY <1>1, <1>2, DustMapping, DustMappingAfter DEF Dust!Expire
<1>3. CASE ~ac.dustActive
  BY <1>1, <1>3, DustMapping, DustMappingAfter DEF Dust!dustVars
<1> QED BY <1>2, <1>3

\* What each call of the controller may do in the service.
CallsKeepService ==
    /\ ReportDustDetected => Dust!Report
    /\ ObstacleReported => [Dust!Resume]_(Dust!dustVars)
    /\ IncreasedPowerDurationExpired => [Dust!Expire]_(Dust!dustVars)

\* Every step of the controller is a step of the service or a stutter.
LEMMA StepIsServiceStep ==
    ASSUME IInv, IInv', DefaultPolicy, [Next]_vars
    PROVE  CallsKeepService /\ [Dust!Next]_(Dust!dustVars)
<1>1. CallsKeepService
  BY ObstacleIsServiceStep, DustIsServiceStep, TimeoutIsServiceStep
  DEF CallsKeepService
<1>2. \/ ObstacleReported \/ ReportDustDetected
      \/ IncreasedPowerDurationExpired \/ UNCHANGED vars
  BY DEF Next, ObstacleReported
<1>3. UNCHANGED vars => UNCHANGED Dust!dustVars
  BY DEF vars, Dust!dustVars
<1> QED BY <1>1, <1>2, <1>3 DEF CallsKeepService, Dust!Next

(***************************************************************************)
(* The controller implements DustService, call by call: through every      *)
(* order of obstacle reports, dust reports and timeouts, a response starts *)
(* or starts again only in a dust report or in an obstacle report that     *)
(* finds one owed, and only the timer ends it.                             *)
(***************************************************************************)
THEOREM DustServiceIsKept == DefaultPolicy => (Spec => ImplementsDustService)
<1> SUFFICES ASSUME DefaultPolicy PROVE Spec => ImplementsDustService
  OBVIOUS
<1>1. Init => Dust!Init
  BY DEF Init, InitAutomaticCleaning, Dust!Init
<1>2. IInv /\ IInv' /\ [Next]_vars => [Dust!Next]_(Dust!dustVars)
  BY StepIsServiceStep
<1>3. IInv /\ IInv' /\ [Next]_vars =>
        (/\ ReportDustDetected => Dust!Report
         /\ ObstacleReported => [Dust!Resume]_(Dust!dustVars)
         /\ IncreasedPowerDurationExpired => [Dust!Expire]_(Dust!dustVars))
  BY StepIsServiceStep DEF CallsKeepService
<1> QED
  BY <1>1, <1>2, <1>3, Invariance, PTL DEF Spec, ImplementsDustService, Dust!Spec

=============================================================================
