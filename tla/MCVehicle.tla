----------------------------- MODULE MCVehicle -----------------------------
(* The small worlds Vehicle is model-checked in: which frames arrive.      *)
EXTENDS Vehicle

Straight == {2, 5, 8}      \* reverse, STOP, forward
Forward == {8}
Turning == {4, 5, 8}       \* turn on the spot, STOP, forward
Undocumented == {0, 2, 8}  \* 0 is no direction at all: IDLE is not left

Fast == {120}              \* percent, clamped to MAX_DUTY

NearAndFar == {300, 600}   \* braking distance; limited but safe
=============================================================================
