----------------------------- MODULE VescDriver -----------------------------
(***************************************************************************)
(* The node "vesc_driver": it asks the motor controller for its firmware   *)
(* version until it knows it and obeys commands from then on.  The answers *)
(* are handled by the thread that reads the serial port, without a lock:   *)
(* major and minor version are written one after the other, and the timer  *)
(* may read them in between.                                               *)
(***************************************************************************)
EXTENDS Integers

CONSTANTS
    speed_min, speed_max,    \* limits of the speed as configured
    NoSpeed                  \* no speed set yet

ASSUME LimitAssumption == speed_min \in Int /\ speed_max \in Int

VARIABLES
    driver_mode,             \* "initializing", "operating" or "shutdown"
    fw_version_major, fw_version_minor,    \* TRUE when 0 or more
    answer,                  \* the firmware's answer: "none", "sent", or
                             \* "half" when its major version is written
    port_open,
    set_speed                \* the speed set last, or NoSpeed

driver_vars == <<driver_mode, fw_version_major, fw_version_minor, answer,
                 port_open, set_speed>>

DriverInit ==
    /\ driver_mode = "initializing"
    /\ fw_version_major = FALSE /\ fw_version_minor = FALSE
    /\ answer = "none"
    /\ port_open = TRUE
    /\ set_speed = NoSpeed

\* Limits given the wrong way round are swapped.
lower == IF speed_min <= speed_max THEN speed_min ELSE speed_max
upper == IF speed_min <= speed_max THEN speed_max ELSE speed_min

\* Faulty: the limit for driving forwards is forgotten.
ClipBelow(value) == IF value < lower THEN lower ELSE value

clip(value) == IF value < lower THEN lower ELSE IF value > upper THEN upper ELSE value

\* Faulty: the version is asked for in the constructor only.
AskedBefore == answer' = answer

\* Every call asks again; an answer that has not come may have been lost.
requestFWVersion == answer' \in IF answer = "none" THEN {"none", "sent"} ELSE {answer}

KnowsVersion == fw_version_major /\ fw_version_minor

timerCallback ==
    /\ driver_mode # "shutdown"
    /\ IF ~port_open
       THEN driver_mode' = "shutdown" /\ UNCHANGED answer
       ELSE IF driver_mode = "initializing"
       THEN /\ requestFWVersion
            /\ driver_mode' = IF KnowsVersion THEN "operating" ELSE "initializing"
       ELSE UNCHANGED <<driver_mode, answer>>
    /\ UNCHANGED <<fw_version_major, fw_version_minor, port_open, set_speed>>

\* vescPacketCallback for "FWVersion": two writes of the reader thread.
FWMajor ==
    /\ answer = "sent"
    /\ fw_version_major' = TRUE
    /\ answer' = "half"
    /\ UNCHANGED <<driver_mode, fw_version_minor, port_open, set_speed>>
FWMinor ==
    /\ answer = "half"
    /\ fw_version_minor' = TRUE
    /\ answer' = "none"
    /\ UNCHANGED <<driver_mode, fw_version_major, port_open, set_speed>>
vescPacketCallback == FWMajor \/ FWMinor

Disconnect ==
    /\ port_open
    /\ port_open' = FALSE
    /\ UNCHANGED <<driver_mode, fw_version_major, fw_version_minor, answer, set_speed>>

Obeys == driver_mode = "operating" /\ port_open

\* Before the firmware is known, and after the port is gone, a command is lost.
speedCallback(speed) ==
    /\ set_speed' = IF Obeys THEN clip(speed) ELSE set_speed
    /\ UNCHANGED <<driver_mode, fw_version_major, fw_version_minor, answer, port_open>>
=============================================================================
