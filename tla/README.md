# Robot vacuum controller: specifications and proofs

TLA+ modules for the robot vacuum of this repository, from the decision logic to
the simulator that drives it: the controller, the application around it, the
command protocol, the TCP server, the simulator's client and its world. TLC
checks each of them and the closed loop of all; TLAPS proves every safety
property that TLC checks, and the refinements, for all values of the constants:
any policy, any set of lines, any number of sessions, any set of maps.

## 1. The system

`rvc_app` is a C++ program that decides how a vacuum moves. It has no sensors of
its own: a client (the Python simulator, or the system tests) connects by TCP,
sends one command per line (sensor values, "dust detected", "the dust timer is
over", RESET, GET_STATE) and reads back what the robot should do. The robot has
no right sensor: to learn about its right side it turns right and looks ahead
(the *right probe*).

```
 simulator.py / world.py --TCP--> TcpServer --> CommandHandler --> RobotVacuumApplication
   world, timer deadline           sessions,      CommandParser       shadows of the inputs
                                   one mutex      StateFormatter      devices, controller
                                                                          |
                                  RVCSWController <-----------------------+
                                  SensorState, AutomaticCleaning
```

| Component | State | Operations | What makes it correct | Status |
| --- | --- | --- | --- | --- |
| `AutomaticCleaning` (with `RightDirectionProbe`, `DustResponse`, `CleaningPolicy`, `CommandResult`, `AvoidanceDecision`) | movement status, probe, confirmed three-side block, whether its stop was issued, dust response, pending response | `handleSensorState`, `selectAvoidanceDirection`, `resumeAfterTurn`, `handleThreeSideObstacle`, `handleDustDetected`, `handleObstacleWhileDustResponse`, `handleDustResponseTimeout`, `markDustResponsePending` | its flags belong together: a block is confirmed by a probe and by nothing else | modelled |
| `RVCSWController` (with `SensorState` and the devices) | last sensor values, the decision object, last drive command, power, timer | the reports of each sensor, the snapshot of all obstacle sensors, the dust report, the end of the timer | never forward into a known obstacle; backs up only out of a confirmed block with a clear back; left before right; power and timer follow the dust response | modelled |
| `RobotVacuumApplication` | the devices, one controller, a copy of the inputs | one per command, `reset`, `expirePowerTimer`, `snapshot` | GET_STATE shows what the controller acts on; RESET forgets everything | modelled |
| Command protocol (`CommandParser`, `CommandHandler`, `StateFormatter`) | none | parse a line, make the call it stands for, word the response | the documented grammar and nothing else is taken; a refused line changes nothing; GET_STATE shows what was said | modelled |
| `TcpServer` | a thread per session with its line buffer, one mutex | accept, read a line, handle it under the mutex, write the response | a line is handled whole, once and as it was sent; no session waits for another one's client | partly |
| Simulator client (`protocol_client.py`, `simulator.py`) | connection, last state, deadline of the dust timer, playing flag | exchange a command, read the state, step of a map run, poll the deadline, keys | it ends every response it has seen; the world moves as the robot was told; a run ends | partly |
| Grid world (`world.py`) | map, robot, heading, dust, cleaned cells | sensors, drive commands, coverage assist, resets | with the controller, the floor is covered and no wall is hit | modelled |
| Simulator user interface, `main.cpp`, unit and system tests | none of interest | drawing, arguments, harness | | not modelled |

What is hard here:

* **Orders of reports.** Every sensor has a report of its own, a snapshot
  reports all of them, and dust and the timer come in between. The meaning of a
  report depends on flags that earlier ones left: is a probe under way, is a
  block confirmed, was its stop issued, is a response active or pending. The
  unit tests each walk through one order.
* **Two concerns in one object.** Motion and cleaning power share the status,
  the result record and some paths (`handleObstacleWhileDustResponse`).
* **Copies.** The inputs exist twice (application and controller); the dust
  flag and the timer are set and cleared in different classes.
* **A timer owned by the other side.** The controller starts a timer, the
  client lets it expire; the command may be late, doubled or spurious.
* **Sessions.** Commands of several clients interleave between lines, responses
  are written outside the mutex, clients time out and reconnect.
* **Two halves of one robot.** The controller knows the turns it ordered, the
  world knows the heading; an answer that is lost between a SET and a GET_STATE
  lets them drift apart, and the run goes on.

The `hazards` of PROJECT.json list these line by line, with the properties that
cover each.

## 2. Modules

| Module | Models | Role |
| --- | --- | --- |
| `AutomaticCleaning` | `src/src/AutomaticCleaning.cpp` and the value classes | operators: object state and sensors to new state and commands |
| `RVCSWController` | `src/src/RVCSWController.cpp`, `src/src/sim/RecordingDevices.cpp` | variables, one action per public method, invariants and action properties |
| `MCRVCSWController` | | the controller for TLC; the documents' claims that do not hold |
| `RobotVacuumApplication` | `src/src/sim/RobotVacuumApplication.cpp` | extends the controller: one action per application call |
| `MCRobotVacuumApplication` | | the application for TLC |
| `RVCSWController_proofs` | | contracts of the operators, the controller's inductive invariant |
| `ControllerSteps_proofs` | | the controller's action properties, the refinement of `DustService` |
| `RobotVacuumApplication_proofs`, `CommandProtocol_proofs`, `TcpServer_proofs`, `GridWorld_proofs`, `SimulatorClient_proofs` | | the theorems about the module each is named for |
| `DustService` | | abstract: what the controller promises about dust |
| `CommandParser` | `src/src/protocol/CommandParser.cpp` | operators: from the words of a line to a command or an error |
| `StateFormatter` | `src/src/protocol/StateFormatter.cpp` | operators: from a snapshot to the fields of a response |
| `CommandProtocol` | `src/src/protocol/CommandHandler.cpp` | extends the application, the parser and the formatter: one action per line |
| `MCCommandProtocol` | | the lines for TLC; the documented grammar |
| `CommandService` | | abstract: what the server promises its clients |
| `TcpServer` | `src/src/net/TcpServer.cpp` | the session threads, the mutex, fairness, the refinement |
| `MCTcpServer` | | two sessions for TLC |
| `GridWorld` | `src/simulator/world.py` | the world's variables and one operator per operation |
| `SimulatorClient` | `src/simulator/simulator.py`, `protocol_client.py` | extends the application, the formatter and the world: the closed loop |
| `MCSimulatorClient` | `MAP_PRESETS` of `src/simulator/world.py` | the seven presets for TLC; two claims that do not hold |

### How state and actions correspond to the code

`AutomaticCleaning` holds no variables. The C++ object is a record `a`: its
members keep their meaning (`confirmed` is `threeSideBlockedConfirmed_`,
`stopIssued` is `threeSideStopIssued_`, `pending` is `dustResponsePending_`,
`probeActive` and `probeResult` are the probe, `dustActive` and `dustLevel` the
response). A method is an operator that returns the record `[ac, result]`: the
object it leaves and the `CommandResult` it returns. Two members are left out:
`restoreOriginalHeadingRequired_`, which equals "the probe's result is Blocked"
after every method, and the response's `duration_`, which nothing reads.

`RVCSWController` has the variables `ac`, `sensor`, `drive` (the drive's last
command), `power`, `timer` (the timer is running) and `calls`, the device calls
of the last method in their order; `calls` is there because the order is part
of the promise (power before motion). Each public method is one action whose
disjuncts are the method's paths to a return, in the order of its early returns.
The private helpers (`apply`, `applyInitialDustResponse`,
`applyPendingDustResponseIfCleaning`, ...) are operators that thread the pair of
the decision object and the devices. One call is one action because the server
handles a line under one mutex and nothing else calls the controller.
`IncreasedPowerDurationExpired` stops the timer as its caller does
(`AppTime::expireTimer`); in the controller module it may also come with no
timer running, as in the unit tests.

`RobotVacuumApplication` adds `shadow` (the application's copy of the inputs)
and `accepted` (what `expirePowerTimer` returned). `Reset` puts the devices,
the copy and a new controller in their initial states.

`CommandParser` works on a line as the sequence of its words; a word KEY=value is
a pair. White space and case are gone by then, as they are in the code after
`trim`, `splitWords` and `uppercase`. An optional value is the set of its at most
one element. `CommandProtocol` adds `line` and `reply` (the `CommandResponse` of
the last line) to the application's variables; one line is one action, because
the server handles it under one mutex.

`TcpServer` has, per session, the place its thread is at (`pc`), its buffer
(`line`) and `sent`, a history of the bytes its client has sent; and the `mutex`
and the application's state (`executed`, the lines it has executed). A handler
takes the lock and reads the state in one step (`LockAndHandle`) and leaves the
changed state and the lock in another (`ReturnAndUnlock`), so that a missing lock
shows as a lost update. Every character is a step of its own. Reading and writing
may fail at any time, also after the line took effect.

`GridWorld` has the map (floor, first cell and first dust), what the robot can
reach of it, and the robot, heading, dust and cleaned cells. The coverage assist
measures the distance from each neighbour to the nearest target; the module
searches from the targets instead and takes the neighbours it comes to first,
which are the same. Both searches are recursive functions.

`SimulatorClient` puts the application, the formatter and the world together with
the client's `playing`, `assist` (`coverage_bias`), `deadline` (unset, ahead or
reached) and `task` (what the GET_STATE to come is for). A command and its answer
are one step (`Exchange`), since the client waits; between the command and its
GET_STATE others may step. The fault model: a command may be lost, or be
executed and its answer be lost, in both cases the client goes on without a
response; and a command of another session, or one the client has given up on,
may be executed at any time (`Intrude`). A key is an action (`KeyEnter`,
`KeyReset`, `KeyRestoreDust`, ...). `handsOff` is a history and no variable of the
code: nobody has sent a manual command, switched the assist or put dust back since
the world and the controller were last reset.

The constants of the controller are the cleaning policy: `IncreasedPowerLevel` and
`IncreasedPowerDuration`. The class accepts every level and every int, so the
assumption is just that (`PolicyAssumption`). The application always takes the
default policy, of which its module assumes that the duration is not zero. The
lines of the protocol are any set of sequences of words that holds PING
(`LinesAssumption`); the server has any number of sessions and any limit;
a map is any finite set of cells with the robot on one and dust on others
(`MapsAssumption`).

## 3. What is checked

| Run | Properties | States |
| --- | --- | --- |
| `controller` | `TypeOK`, 7 invariants, 5 action properties, `ImplementsDustService` | 1014 |
| `application` | `AppTypeOK`, 4 invariants, 1 action property | 1324 |
| `protocol` | `ProtocolTypeOK`, 2 invariants, 2 action properties | 27325 |
| `server` | `ServerTypeOK`, 2 invariants, `ImplementsService`, `LinesAreAnswered` | 291792 |
| `simulator` | `SimTypeOK`, 2 invariants, 1 action property, 2 liveness properties | 590972 |
| seven violation runs | one claim each | section 6 |

**Invariants of the controller.**
`ForwardOnlyIntoClearSpace`: forward exactly in the status Cleaning, and never
with the front sensor last reporting an obstacle.
`StatusMatchesDrive`: the status tells what the drive does.
`BlockRestsOnProbe`: the block's flags and the probe's result agree.
`PowerFollowsResponse`: the response's power exactly while it is active.
`TimerCoversResponse`: a response has a running timer and a running timer has a
response, unless the policy's duration is zero.
`PendingUnderResponse`: while a report is pending the robot never cleans without an
active response. The response may be older than the report, so this does not say
that the report is served as FR-011 and UC-006 A1 ask; section 6 shows that it need
not be.
`PowerBeforeForward`: within a call the power is set before the drive starts.

**Action properties of the controller.** `ReverseOnlyOutOfBlock`,
`TurnsFollowLeftHandRule`, `ProbeEndsInHeading` (a turned robot either drives on
or turns back, so its heading is never lost), `SnapshotMovesDrive` (every
snapshot gets a drive command, which is what the simulator relies on when it
applies DRIVE after each), `CleaningEventsKeepMotion`.

**Application.** `ShadowsMatchSensors`, `DustFlagShowsResponse` (DUST shows
exactly "active or pending", though it is set and cleared without asking the
controller), `FreshUntilDriven` and `StatusMatchesDrive` (after RESET nothing of
the earlier run is left: the first says so of all but the drive as long as the drive
is at none, the second refuses a RESET that forgets the drive), `TimeoutGuarded` (POWER_TIMEOUT is taken exactly while a response is
active, and a refused one changes nothing).

**Dust service.** `ImplementsDustService`: seen without sensors and motion, the
controller is the small state machine `DustService`, a report owed or answered, a
response with its power and its timer, ended by the timer alone. The mapping takes
`pending`, the power and the timer for the abstract variables. As `DustService` alone
cannot tell a response to a new report from one nobody asked for, the property also
says which abstract action each call may be: a dust report is `Report`, an obstacle
report `Resume` or nothing, and `Resume` needs a report that is owed; the end of the
timer is `Expire` or nothing.

**Protocol.** `DocumentedGrammar`: a line is taken exactly when
`docs/command-protocol.md` lists it, and the two errors of the parser are told
apart as they should. `ErrorChangesNothing`: no error leaves a trace, whichever
of the parser, the handler and the application refused the line.
`SensorsReadBack`: what a line says of a sensor is what GET_STATE shows, through
the three conversions of the back value. `StateResponseCoherent`: the fields of
one response, put together from the controller, three devices and the copies,
agree with each other.

**Server.** `ImplementsService`: however the threads interleave, the server is
`CommandService`, in which a line is executed at one instant between its arrival
and its answer. What the answer says is a local variable of the thread and not
modelled. `ExecutesWhatWasSent`: no line is lost, doubled, joined with
another or taken from the rest of a long one. `RefusesExactlyLongLines`: the limit,
to the byte. `LinesAreAnswered`: a client that reads gets its answers while another
one never reads, which is why the response is written after the mutex is released.

**Closed loop.** `DeadlineMatchesTimer`: an idle client waits for a deadline
exactly while the controller's timer runs. `ResponseEnds`: then a response ends.
`NeverBumps`: the robot is never driven against a wall. `BlockIsReal`: a block the
controller has confirmed by turning and probing is one in the world. There are
obstacles on both sides of the robot, and ahead of it is an obstacle or a cell it
has cleaned: a robot that is backing out of a block probes again when its left
stays blocked (UC-005, steps 4 to 8 and E2), and then the cell ahead is the one it
came from. (That all three sides are obstructed holds on the presets, but not on
every map: a floor shaped like a T refutes it.) These four hold as long as nothing
has gone wrong; their formulas say so (`Undisturbed`), and section 6 shows one that
fails otherwise. `BlockIsReal` is also limited to runs nobody has touched
(`handsOff`), as a key may restore dust or switch the assist and so change what the
sensors report.
`RunEnds`: a run with the coverage assist ends, that is, the floor is covered,
from every state the keys and faults within the bounds leave the two sides in. Two
of them decided the bounds: a world that was reset without its controller (start,
reset with the RESET lost, start again: three keys and a fault), and a command that
the client gave up and that is executed later (two faults). Both are reached.

**Bounds.** None for the controller and the application: the inputs are Booleans
and a three-valued back report and the code has no counters, so the instances are
the whole state space of the default policy. The other policies (increased level
Normal, duration 0) are covered by the proofs.

* Protocol (`Lines`): every documented line, every order of the arguments of
  SET_OBSTACLES for one choice of values, and 16 malformed lines, at least one per
  check of the parser. Lines of other names or values take the same branches.
* Server (`Sessions`, `MaxCommandLineLength` 2, `MaxBytes` 4, two characters, one
  of them the carriage return): enough for two lines in a session, an empty line, a
  line of exactly the limit with and without a carriage return, QUIT, and a line
  that is too long and goes on. A third session would add no new pair of threads.
* Simulator: the maps are the seven presets of the code. `MaxKeys` is the key that
  starts the run, and two more on the smallest map (`three_side_back_clear`), where
  every key meets every state; a key that switches the map only goes to one on which
  the keys that are left may be pressed. `MaxFaults` is one, and two on
  `front_obstacle`. Time is not counted: a deadline may pass at once or late.

Deadlock is checked in the runs of the controller, the application and the
protocol. The server stops when all sessions are over and the simulator may wait
for a key for ever, so their configurations say `CHECK_DEADLOCK FALSE`.

**Fairness.** The controller, the application and the protocol only react: nothing
obliges the environment to report, and none is assumed.

* Server: weak fairness of taking the free mutex, of returning from the handler,
  and of writing the response, the last only for clients that read. These are
  steps of a thread that is ready to run. `std::mutex` promises no order; since a
  session sends finitely many lines in the model, weak fairness is enough, and no
  strong fairness is claimed. Reading has no fairness: a client may be silent.
* Simulator: the frame loop never stops, so a playing simulator makes its next
  step, an exchange that was begun is finished (the socket has a timeout), and a
  deadline that was reached is noticed in the next frame; time passes. The
  conditions name the change the step makes (`Steps`, `Finishes`, `Polls`) instead
  of the whole action: each is possible exactly when the action is, and only
  keys, of which there are finitely many, make the same change. Nobody has to
  press a key, and nothing has to go wrong. Fairness only makes the steps
  happen: that finitely many of them are enough for `RunEnds` is due to the assist,
  and a mutant that passes it on without using it makes the robot circle for ever.

## 4. What is proved

Every invariant, action property and refinement the passing runs check is a theorem
of its specification; only the three liveness properties are not. Seven modules hold
the proofs.

| Module | Theorems | For every |
| --- | --- | --- |
| `RVCSWController_proofs` | `Invariance`, `TypeCorrect`, `ForwardIsSafe`, `StatusIsTrue`, `BlockIsProbed`, `PowerIsRight`, `ResponseIsTimed`, `PendingIsUnderResponse` | policy |
| `ControllerSteps_proofs` | `PowerComesFirst`, `ReversingIsSafe`, `LeftGoesFirst`, `ProbeKeepsHeading`, `SnapshotIsAnswered`, `DustKeepsMotion`; `DustServiceIsKept` | policy; the refinement for the default one |
| `RobotVacuumApplication_proofs` | `AppInvariance`, `ControllerSurvivesReset`, `AppTypeCorrect`, `ShadowsAreTrue`, `DustFlagIsTrue`, `ResetLeavesNoTrace`, `TimeoutIsGuarded` | policy with a duration other than zero |
| `CommandProtocol_proofs` | `ProtocolRunsApplication`, `ProtocolTypeCorrect`, `ErrorsAreHarmless`, `StatesAreCoherent`, `SentIsReadBack`, `GrammarIsDocumented` | set of lines; `StatesAreCoherent` for the default policy |
| `TcpServer_proofs` | `ServerInvariance`, `ServerTypeCorrect`, `HandlersRunAlone`, `LongLinesAreRefused`, `ServerImplementsService`, `SentIsExecuted` | number of sessions, limit, stream of bytes |
| `GridWorld_proofs` | `ReachableIsLeast` | finite map |
| `SimulatorClient_proofs` | `SimInvariance`, `SimTypeCorrect`, `TimersAgree`, `RobotKeepsToReachable`, `RobotNeverBumps`, `BlocksAreReal`, `SimulatorDrivesApplication` | set of maps, number of keys and faults |

The assumptions are the named ones of the modules (`PolicyAssumption`,
`DefaultPolicyAssumption`, `LinesAssumption`, `ServerAssumption`, `MapsAssumption`,
`BudgetAssumption`); TLC evaluates them in the runs. Two theorems have
`DefaultPolicy` (level Increased, duration not zero) as a hypothesis: with the level
Normal a response does not show in the power, which is where the abstract dust
service and the field POWER look for it. It is the only policy the program builds.

**Controller.** None of the invariants is inductive alone: that a robot in the
status Blocked does not drive forward depends on the block's flags, that a pending
response never waits under normal power on the status, that the timer is right on the response's flags.
Their conjunction `IInv` (with `NoTraceBeforeDrive`, which the application needs for
RESET) is inductive. The proof has three layers:

1. a *contract* for every operator (`SelectContract`, `ThreeSideContract`,
   `ApplyContract`, ...): the type of what it returns, what it does to the
   block, the response and the devices;
2. `Sound(s, st)`, the invariant said of the values a method is about to return
   instead of the variables, and `Unserved`, the same but for a response still
   pending; a lemma per shared path (`TurnIsSound`, `ResumptionIsSound`,
   `ProbeResultIsSound`, ...) and `ReturnKeepsIInv`, which turns `Sound` into
   `IInv'`;
3. one lemma per public method (`FrontKeepsIInv`, ... , `SnapshotKeepsIInv`),
   with one case per path, combined in `NextKeepsIInv`.

The action properties follow the same paths once more with `Fits`, which says of the
calls a method makes what the six properties say of a step (`ControllerSteps_proofs`),
and `DustServiceIsKept` shows, call by call, that an obstacle report is a stutter of
the service unless it serves a pending report (`ObstacleIsServiceStep`).

**Application.** `AppInv` is `IInv` with the agreement of the copies and of the dust
flag. `Reset` is the only step that is not one of the controller's: its conjuncts
are those of `Init` in the next state.

**Protocol.** `ParseContract` says which lines `Parse` takes and which command it
makes of them; `LineIsAppStep` maps a line to one call of the application or to
none, so `ProtocolSpec => AppSpec` and all of the above holds behind the protocol.
`GrammarIsDocumented` compares the parser with the written grammar for lines of any
length, where TLC has a sample of malformed ones.

**Server.** `ServerInv` has the mutual exclusion (`Exclusive`: who handles holds the
mutex and has seen all that was executed) and `Cut`, which says where a session's
buffer begins and ends in the bytes its client has sent. The refinement needs the
first, `RefusesExactlyLongLines` the second; `SentIsExecuted` adds `AllMatch`, the
correspondence of the line ends of a stream and the executions of its session by
their ranks.

**World.** `ReachableIsLeast` gives the recursive flood fill its meaning, the least
closed set of floor around the first cell. As no induction theorem of the library can
be used (they take an operator as a parameter), the proof takes a minimal
counterexample in the well-founded order of the sets of floor the fill has not reached.
From it follows that the robot, which moves by one cell at a time, stays in what it
can reach.

**Closed loop.** `SimInv` joins the invariants of the application and the world and
adds two facts: client and controller agree on the timer, and while a step waits for
its GET_STATE the drive command it will read leads onto floor (`StepIsFree`). The
second rests on what a snapshot does to the drive (`SnapshotDrivesFreely`: forward
only with a clear front, backward only with a clear back) and on nobody else's
command coming in between. `BlocksAreReal` follows an obstacle through the turns:
ahead of the robot, on its left while it probes, ahead again when it has turned back
(`BlockInv`, with `IdleFits` between two steps and `StepFits` within one).
`SnapshotOutcome` lists what a snapshot can make of an avoidance, `TurnedView` how
the four sides move on with a turn. The world must not change meanwhile: the assist
depends on what is cleaned, and a robot that probes or is blocked stands on no dust.

Each inductive invariant was first checked with TLC. The proof of
`BlockIsReal` showed where its premises are needed: with all three sides obstructed it
is not a consequence of any inductive invariant, and TLC found the map that refutes
that form (section 3).

**Only model-checked.** Liveness under fairness is beyond the prover: `LinesAreAnswered`,
`ResponseEnds` and `RunEnds`. What `CoverageOpenNeighbours` computes (the neighbours
nearest to the targets) is only used through its type. The claims of section 6 are
counterexamples, and stay with TLC.

## 5. Mutants

Each property of a passing run has an operator, marked `Mutant` in the module of
the definition it replaces, that is a plausible mistake in that piece of code
and makes TLC find the property violated.

## 6. Where code and documents differ

Each of these is a run in which TLC finds the calls that break a documented
claim.

* `StopsBeforeReversing` (UC-005). `resumeAfterTurn` does not clear a confirmed
  block, and its `threeSideStopIssued_` stays set too. After front, left, front
  (probe blocked), back blocked or unknown (stop), front, front clear (forward),
  a report "back clear" makes the robot go from forward to backward without a
  stop, though its front is clear.
* `TurnsAfterReversing` (FR-008). With a dust response active, a robot that
  backs out of a block drives forward again on the next snapshot or back report
  with a clear front: the dust path comes before the choice of a turn.
* `PendingOnlyServed` (FR-011). The end of a response also drops a report that
  is pending, so dust found during an avoidance goes unanswered if the earlier
  response ends before cleaning resumes. It also goes unanswered if cleaning resumes
  by the wrong way: a robot that backs out of a block with a response active and
  then gets a snapshot with a clear front, or one that has turned and gets a back
  report, drives on through `handleObstacleWhileDustResponse`, with no call of
  `applyPendingDustResponseIfCleaning`. The report stays pending beneath the older
  response and is dropped with it.
* `BackSensorAloneKeepsDrive` (a unit test's claim). With a response active the
  back report runs the obstacle logic and may start or stop the drive.
* `NeverReversingIntoObstacle` (FR-013). A robot that is backing up takes no
  notice of a back report "blocked" with no response active: the confirmation
  was cleared when it started to back up.

* `SeenTimerIsExpired` (the simulator's README: a timer GET_STATE has shown is
  ended by POWER_TIMEOUT). If POWER_TIMEOUT gets no answer the client drops its
  deadline. A GET_STATE would set a new one, but when the run is over none is
  sent: the controller keeps its increased power until somebody presses a key.
* `DeadlineCountsFromTimerStart` (the same: the deadline mirrors the controller's
  timer). Dust restored with the key C while the robot avoids something and a
  response is active becomes a pending report. The GET_STATE after it sets a
  deadline, the resumption restarts the controller's timer, and the deadline
  stays: the second response ends early.

Noticed as well, with no run: a robot that gave up (status Stopped, FR-013)
starts a new avoidance on the next snapshot with the same values.

## 7. Not modelled

* Server: an error of `accept`, which ends `run()` and `main` while detached session
  threads still use the handler (what they do then is not defined by the code),
  exceptions of the handler itself, and errors when the server starts.
* Client: PING and ESC, the mode flag (a key of manual mode stands for the change of
  mode and the command), a map from a file, `connected`, the last state between two
  frames (only the screen reads it), and `timer_active_observed`, which is true
  exactly while a deadline is set. The server is fresh when the simulator starts.
* World: parsing of a map, its size and name, messages.
* The text of commands and responses beyond their words, the value of the timer's
  duration (who measures it is the client), accessors, and four methods of
  `AutomaticCleaning` nobody calls.
* `main.cpp` (arguments and wiring), the simulator's drawing, the test harnesses and
  the build: they keep no state the others depend on.

## 8. Plan

The parts that carry the system's logic are modelled, checked and proved about. What
is left, in this order:

1. The coverage assist: that `CoverageOpenNeighbours` is the set of neighbours nearest
   to a target, with the technique of `ReachableIsLeast`, and that it is not empty as
   long as there is something to clean. This is the safe half of `RunEnds`: with the
   assist the robot always has somewhere to go.
2. What the clients of several sessions see of each other: the service with the
   protocol's state in place of the list of lines.
3. `NeverBumps` and `TimersAgree` after a fault: which exchange restores the
   agreement.
