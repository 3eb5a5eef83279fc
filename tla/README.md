# Verification of the racing stack

TLA+ models of the decision logic of the F1TENTH racing stack, model-checked
with TLC and, where it matters most, proved with TLAPS. Sources are quoted
relative to `src/`.

## 1. Inventory

The stack is a set of ROS 2 nodes. Most run a single threaded executor: a
callback or a timer runs to its end before the next one. The exceptions are the
detection, which runs its callbacks in threads of their own, and the VESC
driver, whose serial port has a reader thread. Nodes exchange messages through
topics, so between two nodes every order of arrival is possible and a reader may
hold an old message for as long as it likes.

| Component | State | Operations | Hard behaviour | What makes it correct |
|---|---|---|---|---|
| Behaviour planner `state_machine/` | state, position, obstacles, held message of the spliner, cached spline, time to live, sector flags, parameters | sensor callbacks, `avoidance_cb`, parameter callbacks, main loop | conditions with side effects, a time to live, messages and loops in any order, operator interference | OVERTAKE only on a live, checked line; a silent spliner is forgotten; back to the raceline |
| its start-up `init_ot_params` | service calls under way, sector list, event handler | answers, events, main loops in between | main loops before the sectors are known, changes between answer and subscription | flags agree with their parameters; it starts up |
| Spline planner `planner/local_planners/spline_planner` | obstacles, position, side and time of the last switch | callbacks, `spliner_loop` | in-place propagation, aborts, switch times | lines evade, keep off the bounds, aborts cool down |
| Overtaking pipeline | both, and the topic between them | | obstacles that reach the two nodes at different times, delayed messages | cool-down across the topic; return to the raceline; no swap of sides |
| Controller `controller/` | local waypoints and their age, opponent, gap integral | callbacks, `control_loop` in the modes MAP and PP; FTG ends in the constructor | loss of waypoints, order of obstacles, wind-up | stops when blind, trails the right opponent, yields when too near |
| Joystick teleop `teleop_tools/joy_teleop` | which commands are active | `joy_callback` | commands that share buttons | without the deadman button nothing of the operator's passes |
| Command multiplexer `ackermann_mux` | last stamp of each source | topic callbacks | expiry, priorities | the highest live source drives |
| VESC driver `sensors/vesc` | mode, firmware version, limits | timer, reader thread, speed commands | two threads without a lock, lost requests, lost port | it gets to work; it obeys within the limits |
| Drive chain | all four, and the topics | ticks of the processes | a joystick out of range, a dead controller, a silent planner | the right source drives the motor in the end |
| Tracking `perception/perception/tracking.py` | tracked obstacles, one opponent, votes, times to live | `update` at 40 Hz, callbacks | association, two counters, one shared opponent record, the start line | a lost opponent is dropped, one in sight is kept |
| Detection `perception/perception/detect.py` | parameters, boundary arrays, scan | `pathCb`, `loop`, parameter callback, in threads | arrays rebuilt under the loop that reads them | clusters are judged by the line; changes take effect |
| Global planner `planner/global_planner` | laps, map, button, files | `global_plan_callback` | retries, lap counting, files left by earlier runs | laps before the map; one line is published |
| Republisher `global_trajectory_publisher.py` | the last line | timer, callbacks | it listens to the topic it publishes on | a new line reaches everyone |
| Sector tuner `utilities/nodes/sector_tuner` | scalings, the line and its scaled copy | parameter events, waypoints, timer | two names for one message | speeds are scaled once, by the newest scaling |
| Line supply | planner, republishers and sector tuner, and the topic | | starts in any order, old lines about | everyone ends up with the new line |
| Overtaking interpolator `ot_interpolator.py` | scaled waypoints, interpolated line | parameter events, waypoint callbacks | events that overtake messages | not modelled (its flags are, as environment of the start-up) |
| AutoDRIVE adapter `f110_autodrive` | last command, feedback, watchdog | callbacks, timer | watchdog against late commands | a lost link halts the car; not modelled |
| State estimation, utilities, simulator, other drivers | | | numeric, I/O, vendored | not modelled |

Interactions: detection publishes `/perception/raw_obstacles` to tracking, and
tracking `/perception/obstacles` to spliner, state machine and controller; the
spliner publishes `/planner/avoidance/otwpnts` to the state machine; the global
planner publishes `/global_waypoints` once, the republisher repeats it to
detection, tracking, controller and sector tuner, and the tuner publishes
`/global_waypoints_scaled` to spliner, state machine and overtaking
interpolator; the state machine reads the `ot_flag` parameters of the
interpolator and publishes `state` and `local_waypoints` to the controller; the
controller's and the joystick's commands pass the multiplexer to the VESC
driver.

## 2. Modules

| Module | Models |
|---|---|
| `StateMachine` | the behaviour planner in `head_to_head` mode with `overtake_mode` `spliner` |
| `BehaviourPlanner` | its promise to the controller: an overtaking spline is a lease |
| `Spliner` | the spline planner |
| `Overtaking` | state machine and spliner with the topic in between; extends `StateMachine`, instantiates `Spliner` |
| `OtSectors` | the start-up handshake for the overtaking sectors and the flag events |
| `Controller` | the controller: MAP and PP (one program but for a text), and FTG as far as it gets |
| `JoyTeleop`, `AckermannMux`, `VescDriver` | joystick commands, multiplexer, motor driver |
| `DriveChain` | the four of them and the topics in between; extends `Controller` and the three |
| `Tracking` | association, classification and the opponent record of the tracking |
| `Detect` | the threads of the detection and its judgement of clusters |
| `GlobalPlanner` | mapping, laps, button, files, outcomes of the computation |
| `SectorTuner` | the scaling of the velocities and the two names of one message |
| `LineSupply` | planner, republishers and tuner with the topic; extends the last two |
| `OvertakingProofs`, `OtSectorsProofs`, `ControllerProofs`, `DriveChainProofs`, `TrackingProofs`, `DetectProofs`, `LineSupplyProofs` | theorems and proofs about the modules they are named after and the parts of these |
| `RecursionLemmas` | induction and the existence of recursive functions, for the proofs about the loops of the code |
| `MCStateMachine`, `MCOvertaking`, `MCController`, `MCDriveChain`, `MCTracking`, `MCDetect`, `MCLineSupply` | values of the constants for TLC |

### StateMachine

One action for each callback, named as in the code, and `main_loop_callback`
for the timer. Only the conditions of the code are guards: every callback can
run at any time. The main loop is one action because nothing can run between
the transition, the publication and the countdown.

- `avoidance_wpnts` is the last non-empty message, `last_valid_avoidance_wpnts`
  the cached spline, `splini_ttl_counter` the time to live. `NoWpnts` stands
  for both `None` and an array of length 0, which the code treats alike.
- The check `_check_availability_splini_wpts` copies the message into the cache
  when it succeeds. The model separates the value of the check from its effect
  (`UpdatedCache`); `EvaluatesAvailability` says when the code evaluates it at
  all, which follows from the short circuits of `transitions.py`, and
  `check_ofree` is given the line as it is after the copy.
- Messages carry `header.stamp - last_switch_time` (`since_switch`), which is
  all the hysteresis reads.
- Lengths are in units of `waypoints_dist`, time is in loops. `int(splini_ttl *
  rate_hz)` is the parameter `splini_ttl` of the model.
- `only_ftg_zones` is created empty and never filled, and `ftg_disabled` is set
  to true and never changed: FTGONLY can only be reached through the operator.
- `msg_age` and `cache_age` are ghosts. They count loops, up to `AgeCap`, and no
  guard reads them.
- `out` is what a main loop published: the state, whether it was forced, and
  the spline fused into the local waypoints.

### BehaviourPlanner

Three actions: `Renew` (a message takes the lease for up to `TtlMax` loops),
`SetMode` (the operator), `Cycle` (a loop: without a lease no spline is
followed, OVERTAKE is entered from TRAILING only, FTGONLY never unless forced).
`StateMachine` implements it with the mapping `BP`: the lease is
`splini_ttl_counter` while a message is held and 0 otherwise.

### Spliner

`spliner_loop` is one action with three outcomes: nothing near (an empty
message), `Evade`, `Abort`. The line is reduced to the apex beside the obstacle
and the point where it is back on the raceline, the two that the state machine
and the bounds check tell apart; between them the code clips the spline to the
apex's offset. The obstacles near the raceline are propagated in place, as in
the code: a second loop without a new message propagates them again. Which
obstacles are near the raceline is decided by where they stand before that, and
what a propagation moves to its other side stays on the list; afterwards only
the distance in front is looked at (`spline_planner.py:567-584`). Track bounds
are constant along the track.

### Overtaking

The two nodes share the position of the car (one topic), get the obstacles at
times of their own, and are connected by a queue of `Depth` messages that loses
the oldest when it is full. `abort_age`, `held_abort_age` and `passing` are
ghosts.

### OtSectors

`pc` says which of the two service calls `init_ot_params` waits for. During a
call the executor spins, so `Sense` and `main_loop_callback` may run. `Match`
is the discovery that connects the subscription of the event handler; a change
before it sends no event. `missed` is a ghost with the sectors whose last
change was in no answer and no event; the ghost `ot_place` is the sector in
which the last main loop published OVERTAKE. The transitions are those of
`StateMachine`, reduced to what depends on the sectors; what lines and raceline
decide is a choice.

### Controller

`Hear` are the callbacks, `wait_for_messages` the blocking part of the
constructor, `control_loop` the timer, with `pursuit_cycle` for `map_cycle` and
`pp_cycle`. `map.py` and `pp.py` are one program but for
the text they take for TRAILING, so `TrailingText` is all that tells the two
apart. What is numeric and needs no history is open: the reduction of the speed
for the lateral error gives any speed down to a third, the lateral control any
steering target. What has a history is not: the gap integral and its bound, the
limit of the change of the steering angle, the counter of loops without local
waypoints. The counter stops at its limit in the model, where nothing can tell
it from a larger one. `obstacle_cb` is a fold over the array, as in the code,
with the flag that lets a dynamic obstacle replace a static one.

FTG does not start. The constructor waits in every mode for what MAP and PP need
and then declares parameters with the values of `self.l1_params`
(`controller_manager.py:158`), which `init_ftg_controller` does not set: it
raises, before the timer exists, and no step of `ftg.py` is ever taken. In the
model `wait_for_messages` ends mode FTG in "crashed". (`controller/README.md:173`
describes the follow-the-gap controller for FTGONLY sectors; beside this, the
state FTGONLY changes nothing in the controller, whose mode alone selects FTG.)
Setting `prioritize_dyn` at run time has no effect, so it is a value of the
start.

### DriveChain and its parts

One process of the chain runs per tick, in any order (`due`), a tick ends when
everything has run and all messages have arrived, and between ticks the
joystick may go out of range, the controller may die and the cable of the motor
may come off. `Working` lists the processes of a tick. `obeyed` is a ghost: the
source of the command the motor follows.

- `JoyTeleop` has the buttons of every command and which commands are active.
  The autonomous command on RB is a static message for `/dev/null`: RB is no
  deadman for the controller, whose commands pass whenever nothing is heard from
  the joystick.
- `AckermannMux` keeps the age of each source in ticks. A source that was never
  heard has the stamp 0; with a timeout of 0 it never expires and then counts as
  alive before its first message. Nothing is published when a source expires:
  the motor follows the last command until another comes. The controller's stop
  without waypoints (`LostPlannerStops`) is what stops the car.
- `VescDriver` has the two halves of the firmware version as two writes of the
  reader thread. A command before `operating` is lost.

### Tracking

`loop` is one action, made of the parts of `update` in their order: the
prediction of the opponent, then for one tracked obstacle after the other its
measurement, its classification and what it does to the opponent's record, or
its loss of time or its removal; then the new obstacles and the opponent's own
time to live. Every dynamic obstacle that is measured updates the one record, so
the last one wins. Positions are cells; distances do not wrap at the start line where
the code's do not. The votes of `isStatic` depend on spreads and are open once
there are enough measurements, so an obstacle may be reclassified in any loop.
Filter gains are left out: the record's position after an update is the
measurement. `meas_obstacles` is not cleared by a loop, as in the code: a silent
detection keeps its last obstacles alive. `aggro_multi` is stored where nothing
reads it and is no variable. `unseen` and `dropped` are ghosts.

### Detect

The one module with threads. The executor is multi threaded; `pathCb`, `loop`
and the parameter callback are in different callback groups and the lock the
node creates is never taken. `pathCb` is split where another thread can see the
difference: the arrays emptied, one entry of `s_array`, one of the lateral
arrays, the extremes, the flag taken back. `loop` is split at the sampling of
the scan, at the look at a cluster with `s_array`, and at the look into the
lateral arrays with the index found before. An index off the arrays raises in a
thread of the executor and ends the node (`alive`). A scan is a sequence of
clusters: what segmentation and rectangle fitting make of a scan is input.

### GlobalPlanner, SectorTuner, LineSupply

`GlobalPlanner` has the poses of the car as cells of the lap and the outcomes of
`compute_global_trajectory` as `Endings`, one for every way it returns or
raises. Offline planning ignores the result and publishes what
`global_waypoints.json` holds, which may be an earlier line: the model does the
same. When the contour has another length than the car drove, the code prepares
for another lap and says "Will try again in one lap"
(`global_planner_logic.py:278-285`), and after no closed contour "Keep
driving..." (`:274`). Neither comes to anything: the window with the button has
been closed by then and the button counts only on the screen, so nothing is
`Ready` again. The fall-back to the distance transform cannot succeed either: it
needs watershed bounds. `SaveFails` are the errors of `save_map_png`, before or
after the directory is made. Poses that jitter about the edge of the start are
left out; the code counts laps without hysteresis.

`SectorTuner` has the aliasing of the two messages: `glb_wpnts_scaled` is the
message `glb_wpnts_og` until the next one arrives, and `scale_points` writes
into it, so until then every timer scales again. A longer line than the first
one raises an index error (`tuner_alive`), so does a division without sectors
with the first line, and a sector that starts beyond the line in
`marker_callback`. The global limit is looked at only after a first parameter
event, and the shortest path is stored and never published scaled. The divisions
are those `sector_slicer.py:154-161` writes (`SectorTunerAssumption`): the first
sector starts at 0, or at -1 when the slider was drawn back to its stop, each
later one starts a waypoint after the end of the one before, and there may be none
(`maps/small_loop`). Between the end of a sector and the start of the next lies
no waypoint, so `get_vel_scaling` compares with the start of the next (`Border`).

`LineSupply` has one message of a sender under way to a receiver at a time
(they are half a second apart), and no order between senders. A republisher
receives what it publishes; with an earlier line from a file this can bring the
old line back after the new one. And it does not read the file the planner
writes: that one is in the sources of stack_master
(`global_planner_utils.py:18-22`), the republisher's in the install share
(`base_system_launch.xml:18-20`). `share` is what stack_master was last built
with, a line or a link (`--symlink-install`), and `FinishSectors` is the build
that a slicer starts when it is done. In a mapping run the republisher has no
file at all. `NewLineReachesAll` has the premise that no earlier line is about
in any of these places; with one, the new line may be lost.

## 3. Runs

| Run | Checks | Bounds |
|---|---|---|
| `state_machine` | `TypeOK`, `CacheUnderLease`, `OvertakeOnLiveLine`, `OvertakeIsChecked`, `ImplementsPlanner`, `SplineForgotten`, `BackToRaceline`, `EventuallyOvertakes` | 4 waypoints, 2 positions, no or two obstacles, one sector, 2 lines (one clear, one that comes back to the raceline beside an obstacle; the second only after the hysteresis), times to live 1 and 2, operator states OVERTAKE and FTGONLY; 107,488 states |
| `sm_ttl` | `CachedLineWithinTtl` is violated | the same with all messages, without operator |
| `overtaking` | `LinesEvade`, `CoolDown`, `ReturnsToRaceline` | an opponent that swerves from the right of the raceline to the left, two positions of the car, hysteresis 2, queue of 1; 43,416 states |
| `overtaking_swap` | `NoSideSwapWhileOvertaking` is violated | opponents left, right and across the track |
| `startup` | `KnowsUnlessMissed`, `ClosedSectorsStayClear`, `StartsUp` | 2 sectors, 2 events under way; 4,848 states |
| `startup_lost` | `KnowsFlags` is violated | the same |
| `controller` | `TypeOK`, `SilenceStops`, `PrefersDynamic`, `TooCloseYields` | modes MAP, PP and FTG, 6 obstacle arrays, limit of 2 loops without waypoints, integral up to 2; 3,808 states |
| `controller_pp` | `TrailingStateTrails` is violated | mode PP |
| `drive` | `ChainTypeOK`, `NoLiveSourceOutranks`, `LBTakesOver`, `LettingGoStops`, `LostPlannerStops`, `DriverStarts` | the topics of `mux.yaml` with timeouts of one tick, the commands of `joy_teleop.yaml`, LB and RB, one speed each; 164,074 states |
| `tracking` | `TrackingTypeOK`, `Forgets`, `ComesBack`, `OneObstacleEach`, `Vanishes` | a track of 4 cells, none, one or two measurements, two obstacles tracked at most, times to live 1 and 2; 68,100 states |
| `detect` | `DetectTypeOK`, `DiesOnlyInRebuild`, `JudgedByTheLine`, `ChangeTakesEffect` | a line of 3 waypoints of different widths, 2 scans of 3 clusters, 2 parameter sets, 2 changes; 274,412 states |
| `line_supply` | `SupplyTypeOK`, `MapAfterLaps`, `ScaledOnce`, `SettlesOnScaling`, `NewLineReachesAll` | a lap of 3 cells, 0 or 2 laps required, one republisher with a file, sectors 0-2 and 3-4 with `hl_change` 1, lines of 2 and 5 waypoints, a share without, with the old and with a linked file, one parameter change; 52,257 states |

Why the bounds are enough. The transitions of the state machine compare
positions, widths and horizons, so one obstacle inside and one outside of each,
on both sides of the start line, reach every branch; two obstacles of which only
the second is in the way tell a check of all from a check of one. The lease
logic needs a time to live of 1 (it expires in the loop that sees it) and of 2
(a loop in between), and ages are compared with `TtlMax` only, so `AgeCap =
TtlMax + 1` loses nothing for the invariants; `sm_ttl` uses a larger cap to show
the age growing. The swerving opponent gives the spliner a line on each side, a
change of sides, aborts because the car is off the raceline, and its own
disappearance from the trajectory.

In `controller` the obstacles are what tracking publishes (static ones first, at
most one dynamic), near and far, visible and not. The integral's bound of 2 is
reached in two loops. In `drive` a timeout of
one tick makes every source expire after one silent tick, which is what
priorities and expiry tell apart; speeds above the driver's limit exist on the
joystick (clipped) and below it on the controller. In `tracking` a track of 4
cells has the start line next to every other cell, and implausible speeds
across it; publishing static obstacles and remembering them are switched
together, while nothing is tracked. In `detect` the clusters lie inside where the line is
not at its narrowest, after the last waypoint, before the first, outside, too
small and too large; two changes let one come in the middle of the rebuild of
the other. In `line_supply` the old line is shorter than the new one, which is
what ends a tuner, and one republisher sends to itself and to the tuner, so old
and new lines pass each other; the theorems
cover any number of republishers, and the liveness properties, with a second one
in the run, would only add another sender of the same kind.

Deadlock is not looked for in `controller`, `controller_pp`, `drive`, `detect`
and `line_supply`: a crashed controller, a driver that has shut down, a dead
detection, and a planner that has gone without publishing a line are states in
which these systems do stop.

### What the violations say

- `sm_ttl`: `README.md:18` of the state machine calls `splini_ttl` the time to
  live of a cached trajectory. Every message restarts the counter, also one
  that is never copied into the cache, so TRAILING may follow a cached spline
  for longer. What does hold is `CacheUnderLease`: the cache never survives
  without a held message that is within its time.
- `overtaking_swap`: `README.md:17` says that overtaking is blocked after a
  change of sides. The first line on the new side carries the time of the
  switch before, so the machine goes on overtaking with it for one message.
- `startup_lost`: a flag changed after the second answer and before the handler
  is connected is not learnt until it changes again.
- `controller_pp`: `controller/README.md:96` says that the velocity is computed
  by the trailing controller in the Trailing state. `pp.py:145` and `:228`
  compare the state with "TRAILING", while the state machine publishes
  "StateType.TRAILING" (`state_machine.py:566`), as `map.py:148` expects: in mode
  PP the car never trails.

### Fairness

`FairSpec` of `StateMachine` has weak fairness of the main loop only: it is a
wall timer of a node that spins for ever. Messages, sensors and the operator
owe nothing. `FairSystem` adds weak fairness of the spliner's timer and of the
delivery of obstacles and spliner messages, which reliable topics (the default
of the subscriptions) provide. `FairSpec` of `OtSectors` assumes that the
service answers, which the code assumes too (it waits without timeout), that
discovery ends, and that the executor handles what has come. The liveness
properties state their own premises: no operator interference from some point
on (`Undisturbed`), a silent spliner, a raceline that stays free.

`ChainFairness` has weak fairness of the processes as a whole and of the tick:
within a tick each process runs once, so fairness to all is fairness to each.
The controller gets its first messages and starts, the serial port is read, and
of the driver's requests not all are lost (strong fairness of a timer whose
request is answered: the timer asks again for ever, and a loss of every single
request is a broken cable, which `Disconnect` models). The user, the joystick's
range and the planner owe nothing; each property names the behaviour it assumes
of them from some point on.

`TrackingSpec` has weak fairness of the timer. `DetectSpec` has weak fairness of
the thread of `pathCb`, to which the republisher sends twice a second, and of the
thread of `loop` once it has begun. `SupplySpec` has weak fairness of the start
of the nodes and of their timers, of each sender's messages to each receiver and
of the tuner's parameter events; the car, the user and the outcomes of the
planning owe nothing, and `GlobalPlanner` has no fairness at all.

## 4. Proofs

Every invariant, every action property and every refinement that a passing run
checks is also a theorem: the run shows it on one instance, the theorem for
every value of the constants that satisfies the assumptions. The proofs are
checked by TLAPS without any unproved step.

| Module | Theorems about the properties of the runs |
|---|---|
| `OvertakingProofs` | `TypeCorrect`, `CacheLease`, `OvertakeLive`, `OvertakeChecked`, `Refinement` (of the state machine alone), `EveryLineEvades`, `AbortCoolsDown` (of the pipeline) |
| `OtSectorsProofs` | `Knows` |
| `ControllerProofs` | `ControllerTypeCorrect`, `SilenceMeansStop`, `PrefersTheDynamic`, `YieldsWhenTooClose` |
| `DriveChainProofs` | `ChainTypeCorrect`, `ChainNothingOutranks`; `MuxTypeCorrect`, `NothingAliveOutranks` (of the multiplexer alone) |
| `TrackingProofs` | `TrackingTypeCorrect`, `OpponentForgotten`, `OpponentComesBack`, `MeasuredOnce` |
| `DetectProofs` | `DetectTypeCorrect`, `DeathNeedsChange`, `JudgesByTheLine` |
| `LineSupplyProofs` | `SupplyTypeCorrect`, `SupplyLapsBeforeMap`, `ScalesOnce`; `PlannerTypeCorrect`, `LapsBeforeMap` (of the planner alone) |

### Loops of the code

Folds and searches are recursive functions or choices in the models, and what
they compute is proved by induction. The provers cannot use a theorem with an
operator as a parameter, so `RecursionLemmas` states induction for sets: a set of
numbers that holds 0 and the successor of each of its elements holds all
(`SetInduction`, from the well-foundedness of finite sets under inclusion), and
the same for the rounds of a loop (`RoundInduction`). `RecursiveFunction` and
`RoundFunction` show that a function defined by recursion on the rounds exists
and satisfies its equation; `FoldExists` and `SumOfTwo` do so for the sum over a
finite set; `GreatestEntry` is the maximum of a sequence, `Remainder` what `%`
and `\div` give. A fact about a loop is then the statement "after k rounds ..."
as a set of numbers k.

### The overtaking pipeline

The inductive invariant `IInv` of the state machine joins the type invariant
with what the lease needs: while a message is held the counter is at least 1 and
counter plus age never exceed `TtlMax`, a cached line has a held message, its age
is a real age, and a published OVERTAKE has a line younger than `TtlMax`.
`CacheUnderLease` alone is not enough for `OvertakeOnLiveLine`: an overtake uses
the line of the held message because the transition has just copied it (lemma
`UnforcedOvertake`), and its age is bounded by the lease. One lemma for each
group of actions shows that `IInv` is preserved; the refinement of
`BehaviourPlanner` uses `IInv` in both states of a step.

`EveryLineEvades`: `ApexEvades` does the arithmetic of the two sides, with the
case that the offset is clipped to 0 and the bounds check that it passes.
Obstacles may have been propagated any number of times; `PropagatedTypes` says
what is still known of them then.

`AbortCoolsDown` follows a number along the topic: the time since the last switch
that a message carries is no more than the time since the last abort when it was
planned, because an abort resets both. `PipelineInv` says so of the spliner, of
every message that waits and of the one that is held; a message that is dropped
for a newer one, or is empty, keeps it. With it the check of the hysteresis in
`_check_availability_splini_wpts` implies the property.

`PipelineRunsStateMachine` and `PipelineRunsSpliner` show that the pipeline is an
instance of each of its parts, so that the theorems about the state machine,
which receives any messages at any time, hold in it (`PipelinePlans`).

### The start-up

`KnowsUnlessMissed` is about an empty queue only and not inductive; `IInv` says
what the node will know once the queue is handled. `WillKnow(i)`: the last event
under way about sector `i` has the value of its flag, and without one
`ot_sectors[i]` has it already. `SetFlagIInv` appends the last word about a
sector, `FlagIInv` removes the first event, which was the last word or is
overruled by a later one. `Connected` says that only a running, connected node
has events under way, `AnswerHolds` that an answer differs from the flags in
missed sectors only. The code tells a sector from the last character of its name,
so `SectorsAssumption` bounds their number by `DigitBase`.

### The controller and the drive chain

`IInv` of the controller has the types, that no loop runs without the messages
waited for (`Ready`), that an opponent was heard after the track length and the
position it is measured by (`OpponentHeard`), and that the safety counter equals
the ghost `quiet`: only then does a loop at the limit stop the car.
`LoopPublishes` shows that a loop ends in a typed command.

`PrefersTheDynamic` is an induction over the obstacles of a message: after k of
them the choice is the nearest so far, or the nearest among the dynamic ones
(`RoundChooses`). `YieldsWhenTooClose` needs the bound of the integral and that
products with gains keep their order; it speaks of loops that trail and are so
near that the proportional term outweighs the integral at its bound, and leaves
a slower car the differential term, which then adds to the opponent's speed.

`NothingAliveOutranks` has the hypothesis that every topic has a timeout, as all of
`mux.yaml` do. Without it the property is false: a topic with timeout 0 is alive
before its first message. What is needed beside it is that ageing turns no expired
source into a live one (`TickOnlyAges`) and that a message that does not pass is
masked by a source that is alive (`PassesOrMasked`). `ChainRunsMux` shows that
the chain implements `MuxSpec`, which carries the theorem over;
`ChainRunsController` that the controller's invariant survives in the chain, where
it may die. `ChainTypeCorrect` follows each topic's messages and the limits of
the driver.

### The perception

A loop of the tracking goes over its obstacles, and every prediction and
classification is a choice; `Outcomes` is the set of all results. Its invariant is
one of each element (`SoundOutcomes`): every measurement is assigned, left, or new,
and never to two obstacles (`EachAssignedOnce`), an opponent that no dynamic
obstacle has renewed is that of the loop before (`OldUnlessRenewed`), and a single
measurement starts one (`StartsAtOnce`). `OutcomesAreSound` is the induction over
the rounds. The invariant of the node says that the loops without a measurement
and the time to live left add up to less than `ttl_dynamic`; the properties follow.

In the detection `IInv` says how far the rebuild has come (`ArraysInStep`: outside
a rebuild the arrays are as long as the line, during one their lengths are those
of the step `pathCb` is at), that a rebuild with a path there already is for a
change (`RebuiltForChange`), and that the index `loop` holds is on the line
(`IndexOnLine`). `Contents` adds what the arrays hold and that the extremes kept
are extremes, `Judged` what an undisturbed loop has kept so far. `SegmentFound` shows
that counting the waypoints behind a cluster gives the segment it is in, also
before the first and after the last waypoint, and `ShortcutsAgree` that the two
shortcuts by the widest and the narrowest place never judge otherwise than the
borders do.

### The supply of the line

`IInv` of the planner joins the types with `LapsAreReturns` (the laps counted, and
the one the next callback will count, never exceed the returns of the car; after
the map is saved there may be one more, because the place where the car stands
becomes its start). `SupplyRunsPlanner`, `SupplySpec =>
PlannerSpec`, shows that each step of the composition is a step of the planner or
leaves it alone; with it, what is proved of the planner holds in the composition.

`ScalesOnce` compares `get_vel_scaling`, which looks at the heads, bodies and
tails of the sectors and treats the first and the last one apart, with the mean
over a window of the closed lap. `SectorOfPlace` shows that the sectors divide
the lap, `DecidesItsSector` which of the branches a waypoint takes, `WindowSum`
what the mean is with two scalings in the window, `InterpOnRamp` that the
interpolation is that; `SmoothsOverWindow` puts them together. `Originals` says
that a message that is no longer shared has the velocities it came with. The
hypotheses are `WideSectors` (the sectors begin with the line, at 0, and each is
at least twice `hl_change` long up to its border; in a shorter one the head and
the tail overlap) and `LinesOnSectors` (the line goes on for at most `hl_change`
waypoints and one after the last sector; `sector_slicer.py:124` ends that one at
the length of the line). Divisions that begin at -1 or have no sector are in the
model but not in these theorems.

### Assumptions on the constants

They stand in the modules and TLC evaluates them in every run. Beside ranges of
parameters: widths and distances of the spliner are not negative and obstacles
are whole numbers along and across the track (`Geometry`); the state machine can
receive what the spliner can plan, and perception may see nothing
(`MessagesAssumption`); gains of the trailing controller are not negative, as in
`l1_params.yaml` (`TrailingAssumption`); tracking publishes the opponent as the
last obstacle, as `tracking.py:1093-1107` does (`PublishedAssumption`); sectors
are those the slicer writes, each starting a waypoint after the end of the one
before, the first at 0 or -1, or none (`SectorTunerAssumption`); lines are
sequences of velocities and the share's link is no line (`SupplyAssumption`); the
joystick has finitely many commands, and its topic and the controller's are
topics of the multiplexer (`ChainAssumption`).

### What the proofs corrected

- `TooCloseYields` used to say that the car does not drive faster than the
  opponent. An opponent with a negative speed, which the filter can report,
  makes it false: the command is then 0; and so does a car that is slower than the
  opponent, for which the differential term adds speed. It now says both.
- `Associate` and `ChosenObstacle` are written as one round of their loop and what
  the rounds before it give, which is what the inductions are about.

### Only model-checked

All liveness properties, because fairness and ENABLED are out of the provers'
reach: `SplineForgotten`, `BackToRaceline`, `EventuallyOvertakes`,
`ReturnsToRaceline`, `ClosedSectorsStayClear`, `StartsUp`, `LBTakesOver`,
`LettingGoStops`, `LostPlannerStops`, `DriverStarts`, `Vanishes`,
`ChangeTakesEffect`, `SettlesOnScaling`, `NewLineReachesAll`.

## 5. Not modelled

- Numeric control laws, filters, splines, segmentation and fitting: a model
  would restate formulas. The spline between apex and ends, the lookahead point
  and the steering table, the Kalman filter, rectangle fitting, odometry.
- In the state machine: the `dummy` and `timetrials` modes, `overtake_mode`
  `predictive_spliner` (its planner is not in the repository), the index
  arithmetic of `get_splini_wpts`, the operator's values that are no state
  (`initial_state` then raises, `force_state_choice` is rejected,
  `state_machine_params.py:218-225`), changes at run time of the parameters that
  are constants of the model (`:226-227`), markers and logging.
- In the controller: `ftg.py`, of which no step is ever taken.
- In the multiplexer: locks, of which `mux.yaml` configures none, and
  diagnostics. In joy_teleop: services, actions and axes as deadman. In the VESC
  driver: packet framing, the commands the stack does not send, a first
  connection that fails and ends the node (`vesc_driver.cpp:72-78`), and the
  offset of the speed conversion, which is 0.0 in `vesc.yaml`.
- The overtaking interpolator's own line. Two hazards in it are listed without a
  property: it raises if the shortest path comes last (`ot_interpolator.py:110`),
  and an event can be overtaken by a message (`:124`).
- The AutoDRIVE adapter: it stands in the place of multiplexer and driver. Its
  watchdog straightens the wheels but leaves the angle from which the odometry
  is integrated.
- State estimation, which relays and converts poses; lap analyser, opponent
  publisher, collision detector, the choice of points in the sector slicers and
  the map editor, which are tools beside the driving loop; the simulator, the raceline optimiser and the
  other drivers, which are third-party.

## 6. Plan

1. The AutoDRIVE adapter as another end of `DriveChain`: with its watchdog a dead
   controller stops the car, which it does not behind the multiplexer; and the
   proof that the command it holds is never older than the watchdog.
2. The overtaking interpolator in `LineSupply`: freshness of its line.
3. `SplineFusion`: the index arithmetic of `get_splini_wpts` against a reference.
4. Proofs: the safety part of the liveness properties (a message of the newest
   line never gives way to an older one without an old line about; a lost
   planner's last speed is bounded until the stop).
