---------------------------- MODULE MCCanDriver ----------------------------
(* The small world the CAN driver is model-checked in: narrow words, where *)
(* the value of a silent sensor still exceeds every distance.              *)
EXTENDS CanDriver

\* One reading, MIN_CHANGE less one from the default, which is as far from 0: a
\* sensor that drifts in steps the publisher ignores.
Drifting == {8}
=============================================================================
