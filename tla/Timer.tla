------------------------------- MODULE Timer -------------------------------
(***************************************************************************)
(* timer.c, run by the threads of os.c: the timer thread, the devices that *)
(* call next_slot and detach_event, and main, which attaches the devices,  *)
(* starts the timer, joins the devices and stops the timer.                *)
(*                                                                         *)
(* Each critical section is one action.  pthread_cond_wait is a "sleep"    *)
(* state that a signal, or a spurious wakeup, leaves; a signal sent when   *)
(* nobody sleeps is lost.                                                  *)
(***************************************************************************)
EXTENDS Naturals, Sequences

CONSTANTS
    NDev,      \* num_cpus + 1: the CPUs and the loader
    TimeCap    \* _time is counted up to this bound

ASSUME TimerAssumption == NDev \in Nat \ {0} /\ TimeCap \in Nat

Dev == 1 .. NDev

VARIABLES
    main,        \* main thread: "attach", "start", "join", "stop", "end"
    dev_list,    \* the list of attached devices
    timer_stop,
    done,        \* id.done of each device
    fsh,         \* id.fsh of each device
    thread,      \* per device thread, see ThreadState
    timer,       \* timer thread, see TimerState
    cur,         \* timer_routine's position temp in dev_list
    nfsh,        \* timer_routine's counter fsh
    time         \* _time

vars == <<main, dev_list, timer_stop, done, fsh, thread, timer, cur, nfsh,
          time>>

\* "work": outside the timer; "test": in next_slot before the test of done;
\* "sleep": in next_slot's pthread_cond_wait.
ThreadState == {"unborn", "work", "test", "sleep", "exit"}

\* "loop": at the head of the loop; "scan" and "sleep": in the first pass;
\* "release": in the second pass.
TimerState == {"unborn", "loop", "scan", "sleep", "release", "end"}

Init ==
    /\ main = "attach"
    /\ dev_list = <<>>
    /\ timer_stop = FALSE
    /\ done = [d \in Dev |-> FALSE]
    /\ fsh = [d \in Dev |-> FALSE]
    /\ thread = [d \in Dev |-> "unborn"]
    /\ timer = "unborn"
    /\ cur = 1
    /\ nfsh = 0
    /\ time = 0

-----------------------------------------------------------------------------
(* main                                                                    *)

\* Devices are attached one by one, each at the head of the list.
attach_event ==
    /\ main = "attach"
    /\ dev_list' = <<Len(dev_list) + 1>> \o dev_list
    /\ main' = IF Len(dev_list) + 1 = NDev THEN "start" ELSE "attach"
    /\ UNCHANGED <<timer_stop, done, fsh, thread, timer, cur, nfsh, time>>

start_timer ==
    /\ main = "start"
    /\ timer' = "loop"
    /\ main' = "join"
    /\ UNCHANGED <<dev_list, timer_stop, done, fsh, thread, cur, nfsh, time>>

\* main creates the thread of device d, in any order.
create(d) ==
    /\ main = "join"
    /\ thread[d] = "unborn"
    /\ thread' = [thread EXCEPT ![d] = "work"]
    /\ UNCHANGED <<main, dev_list, timer_stop, done, fsh, timer, cur, nfsh,
                   time>>

\* All device threads are joined: stop_timer() asks the timer thread to end ...
stop_timer ==
    /\ main = "join"
    /\ \A d \in Dev : thread[d] = "exit"
    /\ timer_stop' = TRUE
    /\ main' = "stop"
    /\ UNCHANGED <<dev_list, done, fsh, thread, timer, cur, nfsh, time>>

\* The list is freed without joining the timer thread.
free_list_no_join ==
    /\ main = "stop"
    /\ dev_list' = <<>>
    /\ main' = "end"
    /\ UNCHANGED <<timer_stop, done, fsh, thread, timer, cur, nfsh, time>>

\* ... joins it and frees the list.
free_list ==
    /\ main = "stop"
    /\ timer = "end"
    /\ dev_list' = <<>>
    /\ main' = "end"
    /\ UNCHANGED <<timer_stop, done, fsh, thread, timer, cur, nfsh, time>>

-----------------------------------------------------------------------------
(* timer_routine                                                           *)

\* The counter of finished devices is not reset.
begin_slot_no_reset ==
    /\ timer = "loop"
    /\ timer' = IF timer_stop THEN "end" ELSE "scan"
    /\ cur' = 1
    /\ UNCHANGED <<main, dev_list, timer_stop, done, fsh, thread, nfsh, time>>

begin_slot ==
    /\ timer = "loop"
    /\ timer' = IF timer_stop THEN "end" ELSE "scan"
    /\ cur' = 1
    /\ nfsh' = 0
    /\ UNCHANGED <<main, dev_list, timer_stop, done, fsh, thread, time>>

\* The timer does not wait for a device that has not done its work.
scan_device_no_wait ==
    /\ timer = "scan"
    /\ cur <= Len(dev_list)
    /\ nfsh' = nfsh + (IF fsh[dev_list[cur]] THEN 1 ELSE 0)
    /\ cur' = cur + 1
    /\ UNCHANGED <<main, dev_list, timer_stop, done, fsh, thread, timer, time>>

\* First pass: a device that has done its work is counted, for one that has
\* not the timer sleeps.
scan_device ==
    /\ timer = "scan"
    /\ cur <= Len(dev_list)
    /\ LET d == dev_list[cur]
       IN  \/ /\ done[d] \/ fsh[d]
              /\ nfsh' = nfsh + (IF fsh[d] THEN 1 ELSE 0)
              /\ cur' = cur + 1
              /\ UNCHANGED timer
           \/ /\ ~ done[d] /\ ~ fsh[d]
              /\ timer' = "sleep"
              /\ UNCHANGED <<nfsh, cur>>
    /\ UNCHANGED <<main, dev_list, timer_stop, done, fsh, thread, time>>

NextTime(t) == IF t < TimeCap THEN t + 1 ELSE t

tick ==
    /\ timer = "scan"
    /\ cur > Len(dev_list)
    /\ time' = NextTime(time)
    /\ cur' = 1
    /\ timer' = "release"
    /\ UNCHANGED <<main, dev_list, timer_stop, done, fsh, thread, nfsh>>

\* done is cleared without a signal to the device.
release_device_silent ==
    /\ timer = "release"
    /\ cur <= Len(dev_list)
    /\ done' = [done EXCEPT ![dev_list[cur]] = FALSE]
    /\ cur' = cur + 1
    /\ UNCHANGED <<main, dev_list, timer_stop, fsh, thread, timer, nfsh, time>>

\* Second pass: done is cleared and the device is signalled.
release_device ==
    /\ timer = "release"
    /\ cur <= Len(dev_list)
    /\ LET d == dev_list[cur]
       IN  /\ done' = [done EXCEPT ![d] = FALSE]
           /\ thread' = [thread EXCEPT ![d] = IF @ = "sleep" THEN "test" ELSE @]
    /\ cur' = cur + 1
    /\ UNCHANGED <<main, dev_list, timer_stop, fsh, timer, nfsh, time>>

\* The loop ends when every device had left before this slot.
end_slot ==
    /\ timer = "release"
    /\ cur > Len(dev_list)
    /\ timer' = IF nfsh = Len(dev_list) THEN "end" ELSE "loop"
    /\ UNCHANGED <<main, dev_list, timer_stop, done, fsh, thread, cur, nfsh,
                   time>>

-----------------------------------------------------------------------------
(* Devices                                                                 *)

\* pthread_cond_signal on the event condition of d.
SignalEvent(d) ==
    timer' = IF timer = "sleep" /\ dev_list[cur] = d THEN "scan" ELSE timer

\* next_slot() up to its first unlock ...
next_slot(d) ==
    /\ thread[d] = "work"
    /\ done' = [done EXCEPT ![d] = TRUE]
    /\ SignalEvent(d)
    /\ thread' = [thread EXCEPT ![d] = "test"]
    /\ UNCHANGED <<main, dev_list, timer_stop, fsh, cur, nfsh, time>>

\* ... and its wait for the next slot.
wait_slot(d) ==
    /\ thread[d] = "test"
    /\ thread' = [thread EXCEPT ![d] = IF done[d] THEN "sleep" ELSE "work"]
    /\ UNCHANGED <<main, dev_list, timer_stop, done, fsh, timer, cur, nfsh,
                   time>>

\* detach_event() does not signal the timer thread.
detach_event_silent(d) ==
    /\ thread[d] = "work"
    /\ fsh' = [fsh EXCEPT ![d] = TRUE]
    /\ thread' = [thread EXCEPT ![d] = "exit"]
    /\ UNCHANGED <<main, dev_list, timer_stop, done, timer, cur, nfsh, time>>

detach_event(d) ==
    /\ thread[d] = "work"
    /\ fsh' = [fsh EXCEPT ![d] = TRUE]
    /\ SignalEvent(d)
    /\ thread' = [thread EXCEPT ![d] = "exit"]
    /\ UNCHANGED <<main, dev_list, timer_stop, done, cur, nfsh, time>>

\* pthread_cond_wait may return without a signal.
spurious_wakeup ==
    /\ \/ /\ timer = "sleep"
          /\ timer' = "scan"
          /\ UNCHANGED thread
       \/ /\ \E d \in Dev : /\ thread[d] = "sleep"
                            /\ thread' = [thread EXCEPT ![d] = "test"]
          /\ UNCHANGED timer
    /\ UNCHANGED <<main, dev_list, timer_stop, done, fsh, cur, nfsh, time>>

-----------------------------------------------------------------------------

MainNext ==
    attach_event \/ start_timer \/ stop_timer \/ free_list
      \/ \E d \in Dev : create(d)

TimerNext == begin_slot \/ scan_device \/ tick \/ release_device \/ end_slot

Next ==
    \/ MainNext
    \/ TimerNext
    \/ \E d \in Dev : next_slot(d) \/ wait_slot(d) \/ detach_event(d)
    \/ spurious_wakeup

Spec == Init /\ [][Next]_vars

\* The operating system runs every thread that can run.  A device's work in a
\* slot is finite, so it calls next_slot or detach_event again.  Spurious
\* wakeups may happen and are not relied on.
Fairness ==
    /\ WF_vars(MainNext)
    /\ WF_vars(TimerNext)
    /\ \A d \in Dev : /\ WF_vars(next_slot(d) \/ detach_event(d))
                      /\ WF_vars(wait_slot(d))

FairSpec == Spec /\ Fairness

-----------------------------------------------------------------------------
(* Properties.                                                             *)

\* Every variable stays in its range.
TypeOK ==
    /\ main \in {"attach", "start", "join", "stop", "end"}
    /\ dev_list \in Seq(Dev)
    /\ timer_stop \in BOOLEAN
    /\ done \in [Dev -> BOOLEAN]
    /\ fsh \in [Dev -> BOOLEAN]
    /\ thread \in [Dev -> ThreadState]
    /\ timer \in TimerState
    /\ cur \in 1 .. NDev + 1
    /\ nfsh \in 0 .. NDev
    /\ time \in 0 .. TimeCap

\* The device's done is set but it has been released by the tick of the
\* current second pass, which has not come to clear it yet.
Released(d) ==
    timer = "release" /\ \E k \in cur .. Len(dev_list) : dev_list[k] = d

\* The devices as Clock sees them: the second pass releases all devices with
\* the tick, although it clears the flags one after the other.
DevOfClock ==
    [d \in Dev |->
       IF fsh[d] THEN "finished"
       ELSE IF done[d] /\ ~ Released(d) THEN "waiting"
       ELSE "working"]

TickingOfClock ==
    timer # "end" /\ ~ (timer = "release" /\ nfsh = Len(dev_list))

ClockImpl ==
    INSTANCE Clock WITH dev <- DevOfClock, ticking <- TickingOfClock

\* The three passes with their locks and signals implement the lockstep clock:
\* no device enters a slot before every device has ended the previous one, and
\* a device is let go by exactly one tick.
Lockstep == ClockImpl!ClockSpec

\* No thread can use a timer_id_t that stop_timer has freed: by then the timer
\* thread and all the device threads have ended.
FreedUnused ==
    main = "end" => timer = "end" /\ \A d \in Dev : thread[d] = "exit"

\* No wakeup is lost: a device in next_slot is let go into its next slot.
SlotAdvances ==
    \A d \in Dev : thread[d] \in {"test", "sleep"} ~> thread[d] = "work"

\* Once every device has detached, the timer thread ends and main frees its
\* list: main does not wait for ever in stop_timer.
TimerStops == (\A d \in Dev : thread[d] = "exit") ~> main = "end"
=============================================================================
