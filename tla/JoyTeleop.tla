------------------------------ MODULE JoyTeleop ------------------------------
(***************************************************************************)
(* The node "joy_teleop": each joystick message is run through all the     *)
(* configured commands, and every command it activates is published.       *)
(* Commands are told apart by their buttons; no axes activate any.         *)
(***************************************************************************)
CONSTANTS
    Commands,            \* the commands of joy_teleop.yaml
    deadman_buttons,     \* the buttons of each; {} stands for 'default'
    static               \* whether a command sends a fixed message_value

VARIABLE active          \* self.active of each command

JoyInit == active = [c \in Commands |-> FALSE]

\* update_active_from_buttons_and_axes: a default command is active while no
\* button at all is pressed.
Activates(c, pressed) ==
    IF deadman_buttons[c] = {} THEN pressed = {}
    ELSE deadman_buttons[c] \cap pressed # {}

\* The commands published for a message; a fixed message is sent once.
Published(pressed) ==
    {c \in Commands : Activates(c, pressed) /\ ~(static[c] /\ active[c])}

joy_callback(pressed) ==
    active' = [c \in Commands |-> Activates(c, pressed)]
=============================================================================
