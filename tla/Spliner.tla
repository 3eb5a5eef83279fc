------------------------------- MODULE Spliner -------------------------------
(***************************************************************************)
(* The overtaking planner (ROS node "spliner_node"): in every loop it      *)
(* plans an evasion line around the closest obstacle and publishes it, or  *)
(* an empty message.  A single threaded executor: callbacks and the timer  *)
(* loop are atomic.                                                        *)
(*                                                                         *)
(* The evasion line is given by its two points that matter: the apex       *)
(* beside the obstacle and the end, where it is back on the raceline.      *)
(* Time is counted in spliner loops.                                       *)
(***************************************************************************)
EXTENDS Integers, Sequences

CONSTANTS
    gb_max_s,              \* length of the track
    CarPositions,          \* Frenet positions <<cur_s, cur_d>> of the car
    ObstacleArrays,        \* obstacle arrays perception may publish
    d_left, d_right,       \* distances of the track bounds from the raceline
    evasion_dist,          \* distance kept from the obstacle
    spline_bound_mindist,  \* distance kept from the track bounds
    spline_resolution,     \* offsets up to this are not checked against them
    obs_traj_tresh,        \* obstacles further from the raceline are ignored
    lookahead,             \* obstacles further ahead are ignored
    prediction_range,      \* obstacles nearer than this are propagated
    side_switch_d,         \* largest cur_d at which the side may change
    post_apex,             \* length of the line behind the apex
    AgeCap,                \* last_switch_age stops counting here
    NoWpnts                \* a message without waypoints

\* What perception reports of an obstacle.
Obstacles == [s_center : 0..(gb_max_s - 1), d_center : Int, d_left : Int,
              d_right : Int, vs : Int, vd : Int]

\* What the widths and lengths, and what is reported, have to be.
Geometry ==
    /\ \A data \in ObstacleArrays : data \subseteq Obstacles
    /\ CarPositions \subseteq Int \X Int
    /\ post_apex \in Int
    /\ d_left \in Nat /\ d_right \in Nat
    /\ evasion_dist \in Nat /\ spline_bound_mindist \in Nat
    /\ spline_resolution \in Nat
    /\ AgeCap \in Nat
    /\ gb_max_s \in Nat \ {0}

Sides == {"left", "right"}

VARIABLES
    obs,              \* self.obs: a set of obstacles
    car,              \* <<self.cur_s, self.cur_d>>
    last_switch_age,  \* time since self.last_switch_time
    last_ot_side,     \* the side of the last line, "" before the first one
    evasion           \* the message of the last loop

vars == <<obs, car, last_switch_age, last_ot_side, evasion>>

cur_s == car[1]
cur_d == car[2]

Init ==
    /\ obs = {}
    /\ car \in CarPositions
    /\ last_switch_age = 0
    /\ last_ot_side = ""
    /\ evasion = NoWpnts

-----------------------------------------------------------------------------
(* Helpers.                                                                *)

Magnitude(x) == IF x < 0 THEN -x ELSE x

InFront(o) == (o.s_center - cur_s) % gb_max_s

\* An obstacle in range moves on by what it drives in the constant prediction
\* time, along the track and across it.
predict_obs_movement(o) ==
    IF InFront(o) < prediction_range
    THEN [o EXCEPT !.s_center = (@ + o.vs) % gb_max_s,
                   !.d_left = @ + o.vd, !.d_center = @ + o.vd, !.d_right = @ + o.vd]
    ELSE o

\* The filter propagates the obstacles near the raceline in place, in
\* self.obs: without a new message the next loop starts from the result.  They
\* are chosen as they stood; of the propagated ones only the distance in front
\* is looked at, so one that swerves off the raceline is still evaded.
OnTrajectory(o) == Magnitude(o.d_center) < obs_traj_tresh
Propagated ==
    {IF OnTrajectory(o) THEN predict_obs_movement(o) ELSE o : o \in obs}
CloseObstacles ==
    LET propagated == {predict_obs_movement(o) : o \in {p \in obs : OnTrajectory(p)}}
    IN  {o \in propagated : InFront(o) < lookahead}

\* Side and lateral offset of the apex: the only side with room enough, else
\* the one that needs the smaller offset.  An apex across the raceline is
\* moved onto it.
LeftApex(o) == IF o.d_left + evasion_dist < 0 THEN 0 ELSE o.d_left + evasion_dist
RightApex(o) == IF o.d_right - evasion_dist > 0 THEN 0 ELSE o.d_right - evasion_dist

\* Faulty: the side is chosen by room alone.
MoreRoomWins(o) ==
    IF Magnitude(d_right + o.d_right) > Magnitude(d_left - o.d_left)
    THEN <<"right", o.d_right>> ELSE <<"left", o.d_left>>

more_space(o) ==
    LET left_gap  == Magnitude(d_left - o.d_left)
        right_gap == Magnitude(d_right + o.d_right)
        min_space == evasion_dist + spline_bound_mindist
        right == <<"right", RightApex(o)>>
        left  == <<"left", LeftApex(o)>>
    IN  IF right_gap > min_space /\ left_gap < min_space THEN right
        ELSE IF left_gap > min_space /\ right_gap < min_space THEN left
        ELSE IF Magnitude(o.d_left + evasion_dist) <= Magnitude(o.d_right - evasion_dist)
        THEN left
        ELSE right

check_ot_side_possible(side) ==
    ~(Magnitude(cur_d) > side_switch_d /\ side # last_ot_side)

\* The apex is the point of the line nearest to the bounds.  As in the code,
\* a left line is checked against d_left, a right one against d_right.
TooCloseToBounds(side, d_apex) ==
    /\ Magnitude(d_apex) > spline_resolution
    /\ Magnitude(d_apex) >
          (IF side = "left" THEN d_left ELSE d_right) - spline_bound_mindist

Line(o, d_apex) ==
    << [s_m |-> o.s_center, d_m |-> d_apex],
       [s_m |-> (o.s_center + post_apex) % gb_max_s, d_m |-> 0] >>

NextAge(age) == IF age < AgeCap THEN age + 1 ELSE age

-----------------------------------------------------------------------------
(* The callbacks and the loop.                                             *)

obs_cb(data) ==
    /\ obs' = data
    /\ UNCHANGED <<car, last_switch_age, last_ot_side, evasion>>

state_cb(pos) ==
    /\ car' = pos
    /\ UNCHANGED <<obs, last_switch_age, last_ot_side, evasion>>

\* Nothing to evade: an empty message.
NothingClose ==
    /\ CloseObstacles = {}
    /\ evasion' = NoWpnts
    /\ last_switch_age' = NextAge(last_switch_age)
    /\ UNCHANGED last_ot_side

Closest(o) ==
    o \in CloseObstacles /\ \A p \in CloseObstacles : InFront(o) <= InFront(p)

Danger(side, d_apex) ==
    ~check_ot_side_possible(side) \/ TooCloseToBounds(side, d_apex)

\* The line is published with the time of the switch before; only then is
\* the time of a switch to another side taken.
Evade ==
    \E o \in CloseObstacles :
        LET side   == more_space(o)[1]
            d_apex == more_space(o)[2]
        IN  /\ Closest(o)
            /\ ~Danger(side, d_apex)
            /\ evasion' = [wpnts |-> Line(o, d_apex), ot_side |-> side,
                           since_switch |-> last_switch_age]
            /\ last_switch_age' =
                  IF side # last_ot_side THEN NextAge(0) ELSE NextAge(last_switch_age)
            /\ last_ot_side' = side

\* Faulty: an aborted evasion does not restart the time of the last switch.
AbortWithoutCoolDown ==
    \E o \in CloseObstacles :
        /\ Closest(o)
        /\ Danger(more_space(o)[1], more_space(o)[2])
        /\ evasion' = NoWpnts
        /\ last_switch_age' = NextAge(last_switch_age)
        /\ UNCHANGED last_ot_side

\* The evasion is aborted: an empty message, and the time of the last switch
\* is set to cool the state machine down.
Abort ==
    \E o \in CloseObstacles :
        /\ Closest(o)
        /\ Danger(more_space(o)[1], more_space(o)[2])
        /\ evasion' = NoWpnts
        /\ last_switch_age' = NextAge(0)
        /\ UNCHANGED last_ot_side

spliner_loop ==
    /\ obs' = Propagated
    /\ NothingClose \/ Evade \/ Abort
    /\ UNCHANGED car

Next ==
    \/ \E data \in ObstacleArrays : obs_cb(data)
    \/ \E pos \in CarPositions : state_cb(pos)
    \/ spliner_loop

Spec == Init /\ [][Next]_vars

-----------------------------------------------------------------------------
(* Correctness.                                                            *)

\* The messages that the loop can plan at all.
Offsets(side) ==
    LET room == (IF side = "left" THEN d_left ELSE d_right) - spline_bound_mindist
        most == IF room < spline_resolution THEN spline_resolution ELSE room
    IN  IF side = "left" THEN 0..most ELSE (-most)..0
PlannedMsgs ==
    UNION { {[wpnts |-> Line([s_center |-> s], d), ot_side |-> side, since_switch |-> age] :
                s \in 0..(gb_max_s - 1), d \in Offsets(side), age \in 0..AgeCap} :
            side \in Sides }

\* A published line keeps clear of the obstacle it evades and of the track
\* bounds, whichever side is chosen: beside the closest obstacle its offset is
\* beyond the obstacle's edge by evasion_dist, on the side it names, and off
\* the raceline it ends spline_bound_mindist before the bound of that side.
LineEvades ==
    [][spliner_loop /\ evasion' # NoWpnts =>
        \E o \in CloseObstacles :
            LET d == evasion'.wpnts[1].d_m
            IN  /\ Closest(o) /\ evasion'.wpnts[1].s_m = o.s_center
                /\ evasion'.ot_side = "left" =>
                      /\ d >= 0 /\ d >= o.d_left + evasion_dist
                      /\ d > spline_resolution => d <= d_left - spline_bound_mindist
                /\ evasion'.ot_side = "right" =>
                      /\ d <= 0 /\ d <= o.d_right - evasion_dist
                      /\ -d > spline_resolution => -d <= d_right - spline_bound_mindist
      ]_vars
=============================================================================
