---------------------------- MODULE MCDiagnostics ----------------------------
(* The small world the diagnostics are model-checked in.                   *)
EXTENDS Diagnostics

\* Two tasks of different intervals, and the slots that are not set up.
Intervals == <<1, 2, 0, 0, 0>>
=============================================================================
