------------------------------- MODULE Clock -------------------------------
(***************************************************************************)
(* What timer.c promises its devices (the CPUs and the loader): slots in   *)
(* lockstep.  A device works in the current slot until it calls next_slot  *)
(* or detach_event; the slot ends, for all devices at once, when no device *)
(* works any more.  Timer.tla shows that the threads implement this.       *)
(***************************************************************************)
EXTENDS Naturals

CONSTANTS
    Dev,       \* the devices attached before the timer starts
    TimeCap    \* time is counted up to this bound, enough for its readers

ASSUME ClockAssumption == TimeCap \in Nat

VARIABLES
    dev,     \* per device: "working", "waiting" (in next_slot), "finished"
    time,    \* _time
    ticking  \* the timer thread may still end a slot

clockvars == <<dev, time, ticking>>

ClockInit ==
    /\ dev = [d \in Dev |-> "working"]
    /\ time = 0
    /\ ticking = TRUE

NextTime(t) == IF t < TimeCap THEN t + 1 ELSE t

\* A device has done its work of the slot: the first half of next_slot().
Arrive(d) ==
    /\ dev[d] = "working"
    /\ dev' = [dev EXCEPT ![d] = "waiting"]
    /\ UNCHANGED <<time, ticking>>

\* A device leaves for good: detach_event().
Detach(d) ==
    /\ dev[d] = "working"
    /\ dev' = [dev EXCEPT ![d] = "finished"]
    /\ UNCHANGED <<time, ticking>>

\* The slot ends and every waiting device begins the next one.  With no
\* device left the timer thread ends after this slot.
Tick ==
    /\ ticking
    /\ \A d \in Dev : dev[d] # "working"
    /\ dev' = [d \in Dev |-> IF dev[d] = "waiting" THEN "working" ELSE dev[d]]
    /\ time' = NextTime(time)
    /\ ticking' = \E d \in Dev : dev[d] = "waiting"

\* The timer thread sees timer_stop, which main sets when every device has left.
Stop ==
    /\ ticking
    /\ \A d \in Dev : dev[d] = "finished"
    /\ ticking' = FALSE
    /\ UNCHANGED <<dev, time>>

ClockNext == Tick \/ Stop \/ \E d \in Dev : Arrive(d) \/ Detach(d)

ClockSpec == ClockInit /\ [][ClockNext]_clockvars

\* The slot does end once every device has done its work.
FairClock == ClockSpec /\ WF_clockvars(Tick \/ Stop)
=============================================================================
