----------------------------- MODULE DriveChain -----------------------------
(***************************************************************************)
(* From the controller and the joystick to the motor: joy_node sends the   *)
(* buttons to joy_teleop, joy_teleop and the controller send commands to   *)
(* ackermann_mux, the multiplexer sends the winning ones to                *)
(* ackermann_to_vesc, which converts them for vesc_driver.                 *)
(*                                                                         *)
(* Every process of the chain runs once per tick, and a message arrives in *)
(* the tick it is sent in; within a tick any order is possible.            *)
(***************************************************************************)
EXTENDS Controller, AckermannMux, JoyTeleop, VescDriver

CONSTANTS
    Buttons,             \* of the joystick
    AxisSpeed,           \* speed asked for with the stick
    speed_to_erpm_gain

ASSUME ChainAssumption ==
    /\ {"joystick", "navigation"} \subseteq Topics
    /\ IsFiniteSet(Commands)
    /\ AxisSpeed \in Int /\ speed_to_erpm_gain \in Int

VARIABLES
    pressed, connected,  \* the joystick: the buttons last sent
    planning,            \* the state machine last sent local waypoints
    due,                 \* processes that have not run in this tick
    teleop, drive_topic, ackermann_cmd, motor_speed,   \* messages on their way
    obeyed               \* ghost: the topic whose command set_speed comes from

topics == <<teleop, drive_topic, ackermann_cmd, motor_speed>>
world == <<pressed, connected, planning>>
chain_vars == <<vars, mux_vars, active, driver_vars, world, due, topics, obeyed>>

\* The processes that have to run before the tick is over.  An operating
\* driver's timer only polls telemetry, unless the port is gone.
Working ==
    {"planner"} \cup (IF connected THEN {"joy"} ELSE {})
                \cup (IF phase = "running" THEN {"controller"} ELSE {})
                \cup (IF driver_mode = "operating" /\ port_open THEN {} ELSE {"vesc"})

ChainInit ==
    /\ Init /\ MuxInit /\ JoyInit /\ DriverInit
    /\ pressed = {} /\ connected = TRUE /\ planning = TRUE
    /\ due = {"planner", "vesc", "joy"}
    /\ teleop = <<>> /\ drive_topic = <<>>
    /\ ackermann_cmd = <<>> /\ motor_speed = <<>>
    /\ obeyed = NoTopic

-----------------------------------------------------------------------------
(* The surroundings.                                                       *)

\* Between ticks the joystick may go out of range or come back, the
\* controller's process may die, and the cable to the motor controller may come
\* off.  The model ends with the driver's node: after that nothing reaches the
\* motor.
Tick ==
    /\ due = {}
    /\ driver_mode # "shutdown"
    /\ teleop = <<>> /\ drive_topic = <<>>
    /\ ackermann_cmd = <<>> /\ motor_speed = <<>>
    /\ MuxTick
    /\ connected' \in BOOLEAN
    /\ phase' \in {phase} \cup (IF phase = "running" THEN {"crashed"} ELSE {})
    /\ Disconnect \/ UNCHANGED driver_vars
    /\ UNCHANGED <<mode, heard, prioritize_dyn, control, active,
                   pressed, planning, topics, obeyed>>
    /\ due' = Working'

-----------------------------------------------------------------------------
(* The processes.                                                          *)

\* Faulty: the stick is obeyed although LB is not held.
StickAlways(c) == AxisSpeed

\* What a command of joy_teleop.yaml sends: the default one scales the stick
\* with 0; the one on RB goes to /dev/null.
TeleopSpeed(c) == IF c = "human_control" THEN AxisSpeed ELSE 0

\* joy_node sends the buttons pressed at this time; joy_teleop answers.
Joy ==
    /\ "joy" \in due
    /\ due' = due \ {"joy"}
    /\ pressed' \in SUBSET Buttons
    /\ joy_callback(pressed')
    /\ LET sent == {c \in Published(pressed') : ~static[c]}
       IN  teleop' = teleop \o [k \in 1..Cardinality(sent) |->
                                    TeleopSpeed(CHOOSE c \in sent : TRUE)]
    /\ UNCHANGED <<vars, mux_vars, driver_vars, connected, planning, drive_topic,
                   ackermann_cmd, motor_speed, obeyed>>

\* The state machine publishes local waypoints, or none, as in FTGONLY.
Planner ==
    /\ "planner" \in due
    /\ due' = due \ {"planner"}
    /\ planning' \in BOOLEAN
    /\ IF planning' /\ phase # "crashed"
       THEN \E speed \in WaypointSpeeds : local_waypoint_cb(speed)
       ELSE UNCHANGED vars
    /\ UNCHANGED <<mux_vars, active, driver_vars, pressed, connected, topics, obeyed>>

\* What the controller waits for besides the waypoints.
Localise ==
    /\ phase = "waiting"
    /\ track_length_cb \/ \E reported \in CarStates : car_state_cb(reported)
    /\ UNCHANGED <<mux_vars, active, driver_vars, world, due, topics, obeyed>>

ControllerStarts ==
    /\ wait_for_messages
    /\ UNCHANGED <<mux_vars, active, driver_vars, world, due, topics, obeyed>>

ControlLoop ==
    /\ "controller" \in due
    /\ due' = due \ {"controller"}
    /\ control_loop
    /\ drive_topic' = Append(drive_topic, drive'.speed)
    /\ UNCHANGED <<mux_vars, active, driver_vars, world, teleop,
                   ackermann_cmd, motor_speed, obeyed>>

\* The multiplexer receives a message of a topic.
Forward(h, speed) ==
    /\ callback(h)
    /\ ackermann_cmd' =
          IF Passes(h) THEN Append(ackermann_cmd, [from |-> h, speed |-> speed])
          ELSE ackermann_cmd

MuxTeleop ==
    /\ teleop # <<>>
    /\ Forward("joystick", Head(teleop))
    /\ teleop' = Tail(teleop)
    /\ UNCHANGED <<vars, active, driver_vars, world, due, drive_topic,
                   motor_speed, obeyed>>

MuxDrive ==
    /\ drive_topic # <<>>
    /\ Forward("navigation", Head(drive_topic))
    /\ drive_topic' = Tail(drive_topic)
    /\ UNCHANGED <<vars, active, driver_vars, world, due, teleop, motor_speed,
                   obeyed>>

ackermannCmdCallback ==
    /\ ackermann_cmd # <<>>
    /\ motor_speed' = Append(motor_speed,
          [Head(ackermann_cmd) EXCEPT !.speed = @ * speed_to_erpm_gain])
    /\ ackermann_cmd' = Tail(ackermann_cmd)
    /\ UNCHANGED <<vars, mux_vars, active, driver_vars, world, due, teleop,
                   drive_topic, obeyed>>

Motor ==
    /\ motor_speed # <<>>
    /\ speedCallback(Head(motor_speed).speed)
    /\ obeyed' = IF Obeys THEN Head(motor_speed).from ELSE obeyed
    /\ motor_speed' = Tail(motor_speed)
    /\ UNCHANGED <<vars, mux_vars, active, world, due, teleop, drive_topic,
                   ackermann_cmd>>

Timer ==
    /\ "vesc" \in due
    /\ due' = due \ {"vesc"}
    /\ timerCallback
    /\ UNCHANGED <<vars, mux_vars, active, world, topics, obeyed>>

Reader ==
    /\ vescPacketCallback
    /\ UNCHANGED <<vars, mux_vars, active, world, due, topics, obeyed>>

Processes ==
    /\ driver_mode # "shutdown"
    /\ \/ Joy \/ Planner \/ Localise \/ ControllerStarts \/ ControlLoop
       \/ MuxTeleop \/ MuxDrive \/ ackermannCmdCallback \/ Motor \/ Timer \/ Reader

ChainNext == Processes \/ Tick

ChainSpec == ChainInit /\ [][ChainNext]_chain_vars

\* Timers fire, messages arrive and time goes on (a tick ends when every
\* process has run, so fairness to the processes as a whole is fairness to
\* each); the serial port is read, the controller starts up, and not every
\* answer of the motor controller is lost.
ChainFairness ==
    /\ WF_chain_vars(Processes) /\ WF_chain_vars(Tick)
    /\ WF_chain_vars(Localise) /\ WF_chain_vars(ControllerStarts)
    /\ WF_chain_vars(Reader)
    /\ SF_chain_vars(Timer /\ answer' = "sent")

FairChain == ChainSpec /\ ChainFairness

-----------------------------------------------------------------------------
(* Correctness.                                                            *)

ChainTypeOK ==
    /\ TypeOK /\ MuxTypeOK
    /\ active \in [Commands -> BOOLEAN]
    /\ driver_mode \in {"initializing", "operating", "shutdown"}
    /\ set_speed \in lower..upper \cup {NoSpeed}
    /\ obeyed \in Topics \cup {NoTopic}

\* The operator who holds LB for good drives the car, whatever the controller
\* publishes (README.md: "the LB button is the deadman's switch for teleop").
LBTakesOver ==
    <>[](connected /\ port_open /\ "LB" \in pressed) =>
        <>[](obeyed = "joystick" /\ set_speed = clip(AxisSpeed * speed_to_erpm_gain))

\* The operator who lets go of all buttons for good stops the car: the default
\* command of joy_teleop.yaml outranks the controller.
LettingGoStops ==
    <>[](connected /\ port_open /\ pressed = {}) => <>[](set_speed = 0)

\* When the local waypoints stop for good, the controller's commands that
\* reach the motor come to zero, although multiplexer and driver know nothing
\* of waypoints (map_cycle counts the loops without them).
LostPlannerStops ==
    <>[](~planning /\ phase = "running" /\ port_open) =>
        <>[](obeyed = "navigation" => set_speed = 0)

\* The driver gets to work although requests are lost and the timer reads the
\* two halves of the version between the writes of the reader thread.
DriverStarts == []port_open => <>(driver_mode = "operating")
=============================================================================
