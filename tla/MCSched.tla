------------------------------ MODULE MCSched ------------------------------
(* Instances of Sched for TLC: the levels, programs and processes of the   *)
(* runs.                                                                   *)
EXTENDS SchedBypass, TLC

CONSTANTS p1, p2, p3, c1, c2

\* Two processes share a level and a program, the third, whose configured
\* priority is beyond MAX_PRIO, is clamped to the lowest level.
MCConfPrio == p1 :> 0 @@ p2 :> 0 @@ p3 :> 7
MCName == p1 :> "a" @@ p2 :> "b" @@ p3 :> "b"
=============================================================================
