---------------------------- MODULE MCIsoTpLink -----------------------------
(* The small worlds the diagnostic link is model-checked in.               *)
EXTENDS IsoTpLink

\* Requests of one frame, or of a first frame and three more; responses of one
\* frame, or with two or three consecutive frames.
Overlapping == [asks |-> {3, 22}, gives |-> {4, 14, 23}, rounds |-> 3]

\* Up to sixteen consecutive frames in both directions: the number wraps.
Wrapping == [asks |-> {3, 118}, gives |-> {3, 118}, rounds |-> 2]

Both == {Overlapping, Wrapping}

\* Requests of three frames, answered by one.
ThreeFrames == {[asks |-> {14}, gives |-> {4}, rounds |-> 2]}
=============================================================================
