----------------------------- MODULE MCNetwork -----------------------------
(* Instances of NetworkSetup for TLC.  An identifier is <<time stamp,      *)
(* upper part of the counter, last digit of the counter>>.                 *)
EXTENDS NetworkSetup, TLC

CONSTANT Stamp  \* time stamps

\* One machine created at each time: no shared device name.
OnePerStamp == {<<t, 0, 0>> : t \in Stamp}

\* Machines created in one millisecond.
SameMillisecond == {<<t, 0, d>> : t \in Stamp, d \in 0 .. 1}

\* Time stamps are interchangeable.
Symmetry == Permutations(Stamp)
=============================================================================
