---------------------------- MODULE VehicleModes ----------------------------
(***************************************************************************)
(* What handleStateMachine (ASW/fsm/fsm.c) promises of the modes of the    *)
(* car: between which of them it moves, when it warns, and that it parks   *)
(* on request.  Vehicle implements it.                                     *)
(***************************************************************************)

VARIABLES
  mode,      \* currentState
  armed,     \* buzzerFlag: the next emergency stop warns
  request    \* autoParkFlag: a parking run was asked for

vars == <<mode, armed, request>>

Init == mode = "IDLE" /\ armed = TRUE /\ request = FALSE

Move(from, to) == mode = from /\ mode' = to

Start == Move("IDLE", "MANUAL_DRIVE") /\ UNCHANGED <<armed, request>>
Brake == Move("MANUAL_DRIVE", "EMERGENCY_STOP") /\ UNCHANGED <<armed, request>>

\* Once per emergency stop.
Warn ==
  /\ mode = "EMERGENCY_STOP" /\ armed
  /\ armed' = FALSE
  /\ UNCHANGED <<mode, request>>

Release ==
  /\ Move("EMERGENCY_STOP", "MANUAL_DRIVE")
  /\ ~armed /\ armed' = TRUE
  /\ UNCHANGED request

\* A request is taken back by nothing but the run it asked for.
Ask == request' = TRUE /\ UNCHANGED <<mode, armed>>
Park == Move("IDLE", "AUTO_PARK") /\ request /\ UNCHANGED <<armed, request>>
Parked ==
  /\ Move("AUTO_PARK", "IDLE")
  /\ request /\ request' = FALSE
  /\ UNCHANGED armed

\* Logged out, at the start of an iteration.  What was asked for stays asked for,
\* and a warning that was given is not given again.
Logout == mode' = "IDLE" /\ UNCHANGED <<armed, request>>

Next == Start \/ Brake \/ Warn \/ Release \/ Ask \/ Park \/ Parked \/ Logout

Spec == Init /\ [][Next]_vars
=============================================================================
