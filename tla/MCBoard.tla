------------------------------ MODULE MCBoard ------------------------------
(* The small world the outputs and the timer are model-checked in.  They   *)
(* share nothing, so a behaviour looks at one and leaves the other alone.  *)
EXTENDS Board, Timing

\* Every direction, and a byte that is none; a duty of zero stops as well.
SomeDirs == 0..9
SomeDuties == {0, 900}

\* Every delay shorter than a round of the timer; time-outs of an echo shorter
\* and longer than one.
EveryDelay == 1..(Wrap - 1)
SomeLimits == {1, 5, 10}

MCInit ==
  \/ Init /\ TimerAt("off")
  \/ Init /\ room = FALSE /\ wall = FALSE /\ TimerInit

MCNext ==
  \/ phase = "off" /\ Next /\ UNCHANGED timerVars
  \/ phase # "off" /\ TimerNext /\ UNCHANGED vars

MCSpec ==
  MCInit /\ [][MCNext]_<<vars, timerVars>> /\ WF_vars(Write) /\ WF_vars(Parks)
=============================================================================
