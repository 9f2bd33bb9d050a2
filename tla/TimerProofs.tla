---------------------------- MODULE TimerProofs ----------------------------
(***************************************************************************)
(* The threads of Timer, for any number of devices: what stop_timer frees  *)
(* is no longer used, and the two passes of timer_routine with their       *)
(* flags, waits and signals implement the clock of Clock.                  *)
(***************************************************************************)
EXTENDS Timer, TLAPS

\* The list that main builds: the last device attached is at the head.
ListOK ==
    /\ \A k \in 1 .. Len(dev_list) : dev_list[k] = Len(dev_list) + 1 - k
    /\ main = "attach" => Len(dev_list) < NDev
    /\ main \in {"start", "join", "stop"} => Len(dev_list) = NDev

\* main starts the other threads, and ends after them.
MainOK ==
    /\ main \in {"attach", "start"} =>
         timer = "unborn" /\ \A d \in Dev : thread[d] = "unborn"
    /\ main \in {"join", "stop", "end"} => timer # "unborn"
    /\ timer_stop => main \in {"stop", "end"}
    /\ main \in {"stop", "end"} => \A d \in Dev : thread[d] = "exit"
    /\ main = "end" => timer = "end"

\* A device that works has no flag set; one that sleeps waits to be released.
DeviceOK(d) ==
    /\ fsh[d] <=> thread[d] = "exit"
    /\ done[d] => thread[d] \in {"test", "sleep"}
    /\ thread[d] = "sleep" => done[d]

\* The device at position k has ended its slot.
Ended(k) == done[dev_list[k]] \/ fsh[dev_list[k]]

\* First pass: the devices before cur have ended the slot and stay so; nfsh
\* has counted all of them exactly when all of them have left.
ScanOK ==
    timer \in {"scan", "sleep"} =>
      /\ cur <= Len(dev_list) + 1
      /\ timer = "sleep" => cur <= Len(dev_list)
      /\ \A k \in 1 .. cur - 1 : Ended(k)
      /\ nfsh <= cur - 1
      /\ nfsh = cur - 1 <=> \A k \in 1 .. cur - 1 : fsh[dev_list[k]]

\* Second pass: the devices from cur on have not been let go yet; when nfsh
\* has counted them all there is nobody to let go.
ReleaseOK ==
    timer = "release" =>
      /\ cur <= Len(dev_list) + 1
      /\ \A k \in cur .. Len(dev_list) : Ended(k)
      /\ nfsh <= Len(dev_list)
      /\ nfsh = Len(dev_list) => \A k \in 1 .. Len(dev_list) : fsh[dev_list[k]]

TimerInv ==
    /\ TypeOK
    /\ ListOK
    /\ MainOK
    /\ \A d \in Dev : DeviceOK(d)
    /\ ScanOK
    /\ ReleaseOK

-----------------------------------------------------------------------------

LEMMA InitInv == Init => TimerInv
<1> SUFFICES ASSUME Init PROVE TimerInv
  OBVIOUS
<1>1. NDev \in Nat \ {0} /\ TimeCap \in Nat
  BY TimerAssumption
<1>2. TypeOK
  <2>1. dev_list \in Seq(Dev)
    BY DEF Init
  <2>2. /\ done \in [Dev -> BOOLEAN] /\ fsh \in [Dev -> BOOLEAN]
        /\ thread \in [Dev -> ThreadState]
    BY DEF Init, ThreadState
  <2>3. cur \in 1 .. NDev + 1 /\ nfsh \in 0 .. NDev /\ time \in 0 .. TimeCap
    BY <1>1 DEF Init
  <2>4. /\ main \in {"attach", "start", "join", "stop", "end"}
        /\ timer_stop \in BOOLEAN
        /\ timer \in TimerState
    BY DEF Init, TimerState
  <2> QED
    BY <2>1, <2>2, <2>3, <2>4 DEF TypeOK
<1> QED
  BY <1>1, <1>2 DEF Init, TimerInv, ListOK, MainOK, DeviceOK, ScanOK, ReleaseOK

\* Every position of the list holds a device, and two positions hold two.
LEMMA ListFacts ==
    ASSUME TimerInv
    PROVE  /\ Len(dev_list) \in Nat
           /\ \A k \in 1 .. Len(dev_list) : dev_list[k] \in Dev
           /\ \A k, l \in 1 .. Len(dev_list) :
                dev_list[k] = dev_list[l] => k = l
<1>1. Len(dev_list) \in Nat
      /\ \A k \in 1 .. Len(dev_list) : dev_list[k] \in Dev
  BY DEF TimerInv, TypeOK
<1> QED
  BY <1>1 DEF TimerInv, ListOK

\* While the timer runs the list holds every device.
LEMMA ListFull ==
    ASSUME TimerInv, timer \in {"loop", "scan", "sleep", "release"}
    PROVE  /\ Len(dev_list) = NDev
           /\ \A d \in Dev : \E k \in 1 .. Len(dev_list) : dev_list[k] = d
<1>1. Len(dev_list) = NDev
  BY DEF TimerInv, MainOK, ListOK, TypeOK
<1>2. ASSUME NEW d \in Dev
      PROVE  \E k \in 1 .. Len(dev_list) : dev_list[k] = d
  <2>1. NDev \in Nat /\ d \in 1 .. NDev
    BY TimerAssumption DEF Dev
  <2>2. NDev + 1 - d \in 1 .. Len(dev_list)
    BY <1>1, <2>1
  <2>3. dev_list[NDev + 1 - d] = Len(dev_list) + 1 - (NDev + 1 - d)
    BY <2>2 DEF TimerInv, ListOK
  <2> QED
    BY <1>1, <2>1, <2>2, <2>3
<1> QED
  BY <1>1, <1>2

-----------------------------------------------------------------------------
(* Every step keeps the invariant: main.                                   *)

LEMMA AttachInv == TimerInv /\ attach_event => TimerInv'
<1> SUFFICES ASSUME TimerInv, attach_event PROVE TimerInv'
  OBVIOUS
<1> DEFINE n == Len(dev_list)
<1>1. NDev \in Nat \ {0} /\ TimeCap \in Nat
  BY TimerAssumption
<1>2. n \in Nat /\ n < NDev /\ dev_list \in Seq(Dev)
  BY DEF TimerInv, TypeOK, ListOK, attach_event
<1>3. n + 1 \in Dev
  BY <1>1, <1>2 DEF Dev
<1>4. /\ dev_list' \in Seq(Dev)
      /\ Len(dev_list') = n + 1
      /\ \A k \in 1 .. n + 1 :
           dev_list'[k] = IF k = 1 THEN n + 1 ELSE dev_list[k - 1]
  BY <1>2, <1>3 DEF attach_event
<1>5. \A k \in 1 .. n + 1 : dev_list'[k] = n + 2 - k
  <2>1. \A k \in 1 .. n : dev_list[k] = n + 1 - k
    BY DEF TimerInv, ListOK
  <2> TAKE k \in 1 .. n + 1
  <2>2. CASE k = 1
    BY <1>2, <1>4, <2>2
  <2>3. CASE k # 1
    <3>1. k - 1 \in 1 .. n
      BY <1>2, <2>3
    <3> QED
      BY <1>2, <1>4, <2>1, <2>3, <3>1
  <2> QED
    BY <2>2, <2>3
<1>6. ListOK'
  BY <1>1, <1>2, <1>4, <1>5 DEF ListOK, attach_event
<1>7. TypeOK'
  BY <1>4 DEF TimerInv, TypeOK, attach_event
<1> QED
  BY <1>6, <1>7
  DEF TimerInv, MainOK, DeviceOK, ScanOK, ReleaseOK, attach_event

\* start_timer, the creation of the threads and stop_timer.
LEMMA MainInv ==
    TimerInv /\ (start_timer \/ stop_timer \/ \E d \in Dev : create(d))
      => TimerInv'
<1>1. TimerInv /\ start_timer => TimerInv'
  BY DEF TimerInv, TypeOK, ListOK, MainOK, DeviceOK, ScanOK, ReleaseOK, Ended,
         TimerState, start_timer
<1>2. TimerInv /\ stop_timer => TimerInv'
  BY DEF TimerInv, TypeOK, ListOK, MainOK, DeviceOK, ScanOK, ReleaseOK, Ended,
         stop_timer
<1>3. ASSUME NEW d \in Dev, TimerInv, create(d)
      PROVE  TimerInv'
  <2>1. TypeOK'
    BY <1>3 DEF TimerInv, TypeOK, ThreadState, create
  <2>2. \A e \in Dev : DeviceOK(e)'
    BY <1>3 DEF TimerInv, TypeOK, DeviceOK, create
  <2> QED
    BY <1>3, <2>1, <2>2
    DEF TimerInv, ListOK, MainOK, ScanOK, ReleaseOK, Ended, create
<1> QED
  BY <1>1, <1>2, <1>3

LEMMA FreeInv == TimerInv /\ free_list => TimerInv'
  BY DEF TimerInv, TypeOK, ListOK, MainOK, DeviceOK, ScanOK, ReleaseOK,
         free_list

-----------------------------------------------------------------------------
(* The timer thread.                                                       *)

LEMMA BeginInv == TimerInv /\ begin_slot => TimerInv'
<1> SUFFICES ASSUME TimerInv, begin_slot PROVE TimerInv'
  OBVIOUS
<1>1. NDev \in Nat \ {0} /\ Len(dev_list) \in Nat
  BY TimerAssumption, ListFacts
<1>2. TypeOK'
  BY <1>1 DEF TimerInv, TypeOK, TimerState, begin_slot
<1>3. ListOK' /\ MainOK' /\ \A d \in Dev : DeviceOK(d)'
  BY DEF TimerInv, ListOK, MainOK, DeviceOK, begin_slot
<1>4. ScanOK' /\ ReleaseOK'
  BY <1>1 DEF ScanOK, ReleaseOK, begin_slot
<1> QED
  BY <1>2, <1>3, <1>4 DEF TimerInv

LEMMA ScanInv == TimerInv /\ scan_device => TimerInv'
<1> SUFFICES ASSUME TimerInv, scan_device PROVE TimerInv'
  OBVIOUS
<1> DEFINE d == dev_list[cur]
<1>1. /\ NDev \in Nat \ {0} /\ Len(dev_list) = NDev
      /\ cur \in 1 .. NDev /\ nfsh \in 0 .. NDev /\ nfsh <= cur - 1
  BY TimerAssumption, ListFull
  DEF TimerInv, TypeOK, ScanOK, scan_device
<1>2. ListOK' /\ MainOK' /\ (\A e \in Dev : DeviceOK(e)') /\ ReleaseOK'
  BY DEF TimerInv, ListOK, MainOK, DeviceOK, ReleaseOK, scan_device
<1>3. CASE ~ done[d] /\ ~ fsh[d]
  <2>1. /\ timer' = "sleep"
        /\ UNCHANGED <<main, dev_list, timer_stop, done, fsh, thread, cur,
                       nfsh, time>>
    BY <1>3 DEF scan_device
  <2>2. TypeOK'
    BY <2>1 DEF TimerInv, TypeOK, TimerState
  <2>3. ScanOK'
    BY <1>1, <2>1 DEF TimerInv, ScanOK, Ended, scan_device
  <2> QED
    BY <1>2, <2>2, <2>3 DEF TimerInv
<1>4. CASE done[d] \/ fsh[d]
  <2>1. /\ nfsh' = nfsh + (IF fsh[d] THEN 1 ELSE 0)
        /\ cur' = cur + 1
        /\ UNCHANGED <<main, dev_list, timer_stop, done, fsh, thread, timer,
                       time>>
    BY <1>4 DEF scan_device
  <2>2. TypeOK'
    BY <1>1, <2>1 DEF TimerInv, TypeOK
  <2>3. \A k \in 1 .. cur : Ended(k)'
    BY <1>1, <1>4, <2>1 DEF TimerInv, ScanOK, Ended, scan_device
  <2>4. nfsh' <= cur
    BY <1>1, <2>1
  <2>5. (nfsh' = cur) <=> \A k \in 1 .. cur : fsh[dev_list[k]]
    <3>1. CASE fsh[d]
      BY <1>1, <2>1, <3>1 DEF TimerInv, ScanOK, scan_device
    <3>2. CASE ~ fsh[d]
      BY <1>1, <2>1, <3>2
    <3> QED
      BY <3>1, <3>2
  <2>6. ScanOK'
    BY <1>1, <2>1, <2>3, <2>4, <2>5 DEF ScanOK, scan_device
  <2> QED
    BY <1>2, <2>2, <2>6 DEF TimerInv
<1> QED
  BY <1>3, <1>4

LEMMA TickInv == TimerInv /\ tick => TimerInv'
<1> SUFFICES ASSUME TimerInv, tick PROVE TimerInv'
  OBVIOUS
<1>1. /\ NDev \in Nat \ {0} /\ Len(dev_list) = NDev
      /\ cur = NDev + 1 /\ nfsh \in 0 .. NDev
  BY TimerAssumption, ListFull DEF TimerInv, TypeOK, tick
<1>2. TypeOK'
  BY <1>1, TimerAssumption
  DEF TimerInv, TypeOK, TimerState, NextTime, tick
<1>3. ListOK' /\ MainOK' /\ (\A e \in Dev : DeviceOK(e)') /\ ScanOK'
  BY DEF TimerInv, ListOK, MainOK, DeviceOK, ScanOK, tick
<1>4. ReleaseOK'
  BY <1>1 DEF TimerInv, ScanOK, ReleaseOK, Ended, tick
<1> QED
  BY <1>2, <1>3, <1>4 DEF TimerInv

LEMMA ReleaseInv == TimerInv /\ release_device => TimerInv'
<1> SUFFICES ASSUME TimerInv, release_device PROVE TimerInv'
  OBVIOUS
<1> DEFINE d == dev_list[cur]
<1>1. /\ NDev \in Nat \ {0} /\ Len(dev_list) = NDev
      /\ cur \in 1 .. NDev /\ d \in Dev
  BY TimerAssumption, ListFull, ListFacts
  DEF TimerInv, TypeOK, release_device
<1>2. TypeOK'
  BY <1>1 DEF TimerInv, TypeOK, ThreadState, release_device
<1>3. \A e \in Dev : DeviceOK(e)'
  <2> TAKE e \in Dev
  <2>1. DeviceOK(e)
    BY DEF TimerInv
  <2>2. CASE e = d
    BY <1>1, <2>1, <2>2 DEF TimerInv, TypeOK, DeviceOK, release_device
  <2>3. CASE e # d
    BY <1>1, <2>1, <2>3 DEF TimerInv, TypeOK, DeviceOK, release_device
  <2> QED
    BY <2>2, <2>3
<1>4. ListOK' /\ ScanOK'
  BY DEF TimerInv, ListOK, ScanOK, release_device
<1>5. MainOK'
  BY <1>1 DEF TimerInv, TypeOK, MainOK, release_device
<1>6. ReleaseOK'
  <2>1. \A k \in cur + 1 .. Len(dev_list) :
          dev_list[k] \in Dev /\ dev_list[k] # d
    BY <1>1, ListFacts
  <2>2. \A k \in cur + 1 .. Len(dev_list) : Ended(k)'
    BY <1>1, <2>1 DEF TimerInv, TypeOK, ReleaseOK, Ended, release_device
  <2> QED
    BY <1>1, <2>2 DEF TimerInv, ReleaseOK, release_device
<1> QED
  BY <1>2, <1>3, <1>4, <1>5, <1>6 DEF TimerInv

LEMMA EndInv == TimerInv /\ end_slot => TimerInv'
  BY DEF TimerInv, TypeOK, TimerState, ListOK, MainOK, DeviceOK, ScanOK,
         ReleaseOK, end_slot

-----------------------------------------------------------------------------
(* The devices.                                                            *)

\* A device that works is neither waited for by the second pass nor among
\* those the first pass has left behind.
LEMMA WorkerNotEnded ==
    ASSUME TimerInv, NEW d \in Dev, thread[d] = "work"
    PROVE  ~ done[d] /\ ~ fsh[d]
  BY DEF TimerInv, DeviceOK

\* The two ways a working device ends its slot: the flags of the other devices
\* are untouched and no flag is cleared.
LEMMA EndOfSlotInv ==
    ASSUME TimerInv, NEW d \in Dev, next_slot(d) \/ detach_event(d)
    PROVE  TimerInv'
<1>1. /\ thread[d] = "work"
      /\ ~ done[d] /\ ~ fsh[d]
      /\ SignalEvent(d)
      /\ UNCHANGED <<main, dev_list, timer_stop, cur, nfsh, time>>
  BY WorkerNotEnded DEF next_slot, detach_event
<1>2. Len(dev_list) \in Nat /\ NDev \in Nat /\ cur \in 1 .. NDev + 1
  BY TimerAssumption, ListFacts DEF TimerInv, TypeOK
<1>3. timer' \in TimerState /\ (timer' # timer => timer = "sleep" /\ timer' = "scan")
  BY <1>1 DEF TimerInv, TypeOK, TimerState, SignalEvent
<1>4. TypeOK'
  BY <1>1, <1>3 DEF TimerInv, TypeOK, ThreadState, next_slot, detach_event
<1>5. \A e \in Dev : DeviceOK(e)'
  <2> TAKE e \in Dev
  <2>1. DeviceOK(e)
    BY DEF TimerInv
  <2>2. CASE e = d
    BY <1>1, <2>2 DEF TimerInv, TypeOK, DeviceOK, next_slot, detach_event
  <2>3. CASE e # d
    BY <2>1, <2>3 DEF TimerInv, TypeOK, DeviceOK, next_slot, detach_event
  <2> QED
    BY <2>2, <2>3
<1>6. ListOK' /\ MainOK'
  BY <1>1, <1>3 DEF TimerInv, ListOK, MainOK
<1>7. ASSUME NEW k \in 1 .. Len(dev_list), Ended(k)
      PROVE  Ended(k)' /\ dev_list[k] # d
             /\ (fsh'[dev_list[k]] <=> fsh[dev_list[k]])
  <2>1. dev_list[k] \in Dev /\ dev_list[k] # d
    BY <1>1, <1>7, ListFacts DEF Ended
  <2> QED
    BY <1>1, <1>7, <2>1
    DEF TimerInv, TypeOK, Ended, next_slot, detach_event
<1>8. ScanOK'
  <2> SUFFICES ASSUME timer' \in {"scan", "sleep"} PROVE ScanOK'
    BY DEF ScanOK
  <2>1. timer \in {"scan", "sleep"}
    BY <1>3
  <2>2. /\ cur <= Len(dev_list) + 1
        /\ \A k \in 1 .. cur - 1 : Ended(k)
        /\ nfsh <= cur - 1
        /\ nfsh = cur - 1 <=> \A k \in 1 .. cur - 1 : fsh[dev_list[k]]
        /\ timer' = "sleep" => cur <= Len(dev_list)
    BY <1>3, <2>1 DEF TimerInv, ScanOK
  <2>3. \A k \in 1 .. cur - 1 : Ended(k)'
                                 /\ (fsh'[dev_list[k]] <=> fsh[dev_list[k]])
    BY <1>2, <1>7, <2>2
  <2> QED
    BY <1>1, <2>2, <2>3 DEF ScanOK
<1>9. ReleaseOK'
  <2> SUFFICES ASSUME timer' = "release" PROVE ReleaseOK'
    BY DEF ReleaseOK
  <2>1. timer = "release"
    BY <1>3
  <2>2. /\ cur <= Len(dev_list) + 1
        /\ \A k \in cur .. Len(dev_list) : Ended(k)
        /\ nfsh <= Len(dev_list)
        /\ nfsh = Len(dev_list) =>
             \A k \in 1 .. Len(dev_list) : fsh[dev_list[k]]
    BY <2>1 DEF TimerInv, ReleaseOK
  <2>3. \A k \in cur .. Len(dev_list) : Ended(k)'
    BY <1>2, <1>7, <2>2
  <2>4. nfsh = Len(dev_list) =>
          \A k \in 1 .. Len(dev_list) : fsh'[dev_list[k]]
    BY <1>7, <2>2 DEF Ended
  <2> QED
    BY <1>1, <2>2, <2>3, <2>4 DEF ReleaseOK
<1> QED
  BY <1>4, <1>5, <1>6, <1>8, <1>9 DEF TimerInv

LEMMA WaitInv ==
    ASSUME TimerInv, NEW d \in Dev, wait_slot(d)
    PROVE  TimerInv'
<1>1. TypeOK'
  BY DEF TimerInv, TypeOK, ThreadState, wait_slot
<1>2. \A e \in Dev : DeviceOK(e)'
  BY DEF TimerInv, TypeOK, DeviceOK, wait_slot
<1>3. MainOK'
  BY DEF TimerInv, TypeOK, MainOK, wait_slot
<1>4. ListOK' /\ ScanOK' /\ ReleaseOK'
  BY DEF TimerInv, ListOK, ScanOK, ReleaseOK, Ended, wait_slot
<1> QED
  BY <1>1, <1>2, <1>3, <1>4 DEF TimerInv

LEMMA WakeupInv == TimerInv /\ spurious_wakeup => TimerInv'
<1>1. ASSUME TimerInv, timer = "sleep", timer' = "scan",
             UNCHANGED <<main, dev_list, timer_stop, done, fsh, thread, cur,
                         nfsh, time>>
      PROVE  TimerInv'
  BY <1>1 DEF TimerInv, TypeOK, TimerState, ListOK, MainOK, DeviceOK, ScanOK,
              ReleaseOK, Ended
<1>2. ASSUME TimerInv, NEW d \in Dev, thread[d] = "sleep",
             thread' = [thread EXCEPT ![d] = "test"],
             UNCHANGED <<main, dev_list, timer_stop, done, fsh, timer, cur,
                         nfsh, time>>
      PROVE  TimerInv'
  <2>1. TypeOK'
    BY <1>2 DEF TimerInv, TypeOK, ThreadState
  <2>2. \A e \in Dev : DeviceOK(e)'
    BY <1>2 DEF TimerInv, TypeOK, DeviceOK
  <2>3. MainOK'
    BY <1>2 DEF TimerInv, TypeOK, MainOK
  <2>4. ListOK' /\ ScanOK' /\ ReleaseOK'
    BY <1>2 DEF TimerInv, ListOK, ScanOK, ReleaseOK, Ended
  <2> QED
    BY <2>1, <2>2, <2>3, <2>4 DEF TimerInv
<1> QED
  BY <1>1, <1>2 DEF spurious_wakeup

LEMMA StepInv == TimerInv /\ [Next]_vars => TimerInv'
<1>1. TimerInv /\ UNCHANGED vars => TimerInv'
  BY DEF TimerInv, TypeOK, ListOK, MainOK, DeviceOK, ScanOK, ReleaseOK, Ended,
         vars
<1> QED
  BY <1>1, AttachInv, MainInv, FreeInv, BeginInv, ScanInv, TickInv, ReleaseInv,
     EndInv, EndOfSlotInv, WaitInv, WakeupInv DEF Next, MainNext, TimerNext

\* The invariant holds in every behaviour of the threads.
THEOREM TimerInvariant == Spec => []TimerInv
<1> QED
  BY InitInv, StepInv, PTL DEF Spec

\* The variables keep their types, for any number of devices.
THEOREM TypesKept == Spec => []TypeOK
<1>1. TimerInv => TypeOK
  BY DEF TimerInv
<1> QED
  BY <1>1, TimerInvariant, PTL

\* When stop_timer has freed the list, no thread is left that could use a
\* timer_id_t: the timer thread has been joined, and the device threads before.
THEOREM FreedIsUnused == Spec => []FreedUnused
<1>1. TimerInv => FreedUnused
  BY DEF TimerInv, MainOK, FreedUnused
<1> QED
  BY <1>1, TimerInvariant, PTL

-----------------------------------------------------------------------------
(* The clock that the threads implement.                                   *)

LEMMA ClockStarts == Init => ClockImpl!ClockInit
<1> SUFFICES ASSUME Init PROVE ClockImpl!ClockInit
  OBVIOUS
<1>1. DevOfClock = [d \in Dev |-> "working"]
  BY DEF Init, DevOfClock
<1>2. TickingOfClock = TRUE
  BY DEF Init, TickingOfClock
<1> QED
  BY <1>1, <1>2 DEF Init, ClockImpl!ClockInit

\* Steps that the clock does not see.
LEMMA HiddenOutside ==
    ASSUME TimerInv, timer \notin {"release", "end"},
           timer' \notin {"release", "end"},
           UNCHANGED <<done, fsh, time>>
    PROVE  UNCHANGED ClockImpl!clockvars
<1>1. DevOfClock' = DevOfClock
  BY DEF DevOfClock, Released
<1>2. TickingOfClock' = TickingOfClock
  BY DEF TickingOfClock
<1> QED
  BY <1>1, <1>2 DEF ClockImpl!clockvars

LEMMA HiddenFlags ==
    ASSUME UNCHANGED <<timer, cur, nfsh, dev_list, done, fsh, time>>
    PROVE  UNCHANGED ClockImpl!clockvars
<1>1. DevOfClock' = DevOfClock
  BY DEF DevOfClock, Released
<1>2. TickingOfClock' = TickingOfClock
  BY DEF TickingOfClock
<1> QED
  BY <1>1, <1>2 DEF ClockImpl!clockvars

\* The second pass lets the devices go one after the other; the tick has
\* already let them go.
LEMMA HiddenRelease ==
    TimerInv /\ release_device => UNCHANGED ClockImpl!clockvars
<1> SUFFICES ASSUME TimerInv, release_device
             PROVE  UNCHANGED ClockImpl!clockvars
  OBVIOUS
<1>1. /\ Len(dev_list) \in Nat /\ cur \in 1 .. Len(dev_list)
      /\ dev_list[cur] \in Dev
  BY TimerAssumption, ListFacts DEF TimerInv, TypeOK, release_device
<1>2. ASSUME NEW d \in Dev
      PROVE  /\ fsh'[d] = fsh[d]
             /\ (done'[d] /\ ~ Released(d)') <=> (done[d] /\ ~ Released(d))
  <2>1. CASE d = dev_list[cur]
    <3>1. Released(d) /\ ~ done'[d]
      BY <1>1, <2>1 DEF TimerInv, TypeOK, Released, release_device
    <3> QED
      BY <3>1 DEF release_device
  <2>2. CASE d # dev_list[cur]
    <3>1. done'[d] = done[d]
      BY <2>2 DEF TimerInv, TypeOK, release_device
    <3>2. Released(d)' <=> Released(d)
      BY <1>1, <2>2 DEF Released, release_device
    <3> QED
      BY <3>1, <3>2 DEF release_device
  <2> QED
    BY <2>1, <2>2
<1>3. DevOfClock' = DevOfClock
  BY <1>2 DEF DevOfClock
<1>4. TickingOfClock' = TickingOfClock
  BY DEF TickingOfClock, release_device
<1> QED
  BY <1>3, <1>4 DEF ClockImpl!clockvars, release_device

LEMMA HiddenEnd == TimerInv /\ end_slot => UNCHANGED ClockImpl!clockvars
<1> SUFFICES ASSUME TimerInv, end_slot PROVE UNCHANGED ClockImpl!clockvars
  OBVIOUS
<1>1. \A d \in Dev : ~ Released(d) /\ ~ Released(d)'
  BY ListFacts DEF TimerInv, TypeOK, Released, end_slot
<1>2. DevOfClock' = DevOfClock
  BY <1>1 DEF DevOfClock, end_slot
<1>3. TickingOfClock' = TickingOfClock
  BY DEF TickingOfClock, end_slot
<1> QED
  BY <1>2, <1>3 DEF ClockImpl!clockvars, end_slot

LEMMA HiddenFree == TimerInv /\ free_list => UNCHANGED ClockImpl!clockvars
<1> SUFFICES ASSUME TimerInv, free_list PROVE UNCHANGED ClockImpl!clockvars
  OBVIOUS
<1>1. DevOfClock' = DevOfClock
  BY DEF DevOfClock, Released, free_list
<1>2. TickingOfClock' = TickingOfClock
  BY DEF TickingOfClock, free_list
<1> QED
  BY <1>1, <1>2 DEF ClockImpl!clockvars, free_list

\* timer_stop is seen only after every device has left.
LEMMA BeginIsStop ==
    TimerInv /\ begin_slot => ClockImpl!Stop \/ UNCHANGED ClockImpl!clockvars
<1> SUFFICES ASSUME TimerInv, begin_slot
             PROVE  ClockImpl!Stop \/ UNCHANGED ClockImpl!clockvars
  OBVIOUS
<1>1. DevOfClock' = DevOfClock
  BY DEF DevOfClock, Released, begin_slot
<1>2. CASE timer_stop
  <2>1. \A d \in Dev : DevOfClock[d] = "finished"
    BY <1>2 DEF TimerInv, MainOK, DeviceOK, DevOfClock
  <2>2. TickingOfClock /\ TickingOfClock' = FALSE
    BY <1>2 DEF TickingOfClock, begin_slot
  <2> QED
    BY <1>1, <2>1, <2>2 DEF ClockImpl!Stop, begin_slot
<1>3. CASE ~ timer_stop
  <2>1. TickingOfClock' = TickingOfClock
    BY <1>3 DEF TickingOfClock, begin_slot
  <2> QED
    BY <1>1, <2>1 DEF ClockImpl!clockvars, begin_slot
<1> QED
  BY <1>2, <1>3

\* The first pass is over only when no device works; the clock goes on when
\* not all of them have left, which is what nfsh counts.
LEMMA TickIsTick == TimerInv /\ tick => ClockImpl!Tick
<1> SUFFICES ASSUME TimerInv, tick PROVE ClockImpl!Tick
  OBVIOUS
<1>1. /\ NDev \in Nat \ {0} /\ Len(dev_list) = NDev /\ cur = NDev + 1
      /\ \A d \in Dev : \E k \in 1 .. NDev : dev_list[k] = d
  BY TimerAssumption, ListFull DEF TimerInv, TypeOK, tick
<1>2. /\ \A k \in 1 .. NDev : Ended(k)
      /\ nfsh = NDev <=> \A k \in 1 .. NDev : fsh[dev_list[k]]
  BY <1>1 DEF TimerInv, ScanOK, tick
<1>3. \A d \in Dev : /\ done[d] \/ fsh[d]
                     /\ ~ Released(d) /\ Released(d)'
  BY <1>1, <1>2 DEF Ended, Released, tick
<1>4. \A d \in Dev : DevOfClock[d] = IF fsh[d] THEN "finished" ELSE "waiting"
  BY <1>3 DEF DevOfClock
<1>5. DevOfClock' = [d \in Dev |-> IF DevOfClock[d] = "waiting"
                                  THEN "working" ELSE DevOfClock[d]]
  <2>1. \A d \in Dev :
          DevOfClock'[d] = IF fsh[d] THEN "finished" ELSE "working"
    BY <1>3 DEF DevOfClock, tick
  <2> QED
    BY <1>4, <2>1 DEF DevOfClock
<1>6. TickingOfClock
  BY DEF TickingOfClock, tick
<1>7. TickingOfClock' = \E d \in Dev : DevOfClock[d] = "waiting"
  <2>1. TickingOfClock' <=> nfsh # NDev
    BY <1>1 DEF TickingOfClock, tick
  <2>2. nfsh = NDev <=> \A d \in Dev : fsh[d]
    BY <1>1, <1>2, ListFacts
  <2>3. (\E d \in Dev : DevOfClock[d] = "waiting") <=> nfsh # NDev
    BY <1>4, <2>2
  <2> QED
    BY <2>1, <2>3 DEF TickingOfClock
<1>8. time' = ClockImpl!NextTime(time)
  BY DEF tick, NextTime, ClockImpl!NextTime
<1> QED
  BY <1>4, <1>5, <1>6, <1>7, <1>8 DEF ClockImpl!Tick

\* A working device is one that the clock lets work: it has not been passed
\* over by the second pass.
LEMMA EndOfSlotIsSeen ==
    ASSUME TimerInv, NEW d \in Dev, next_slot(d) \/ detach_event(d)
    PROVE  ClockImpl!Arrive(d) \/ ClockImpl!Detach(d)
<1>1. /\ thread[d] = "work"
      /\ ~ done[d] /\ ~ fsh[d]
      /\ SignalEvent(d)
      /\ UNCHANGED <<main, dev_list, timer_stop, cur, nfsh, time>>
  BY WorkerNotEnded DEF next_slot, detach_event
<1>2. (timer' = "release" <=> timer = "release")
      /\ (timer' = "end" <=> timer = "end")
  BY <1>1 DEF SignalEvent
<1>3. \A e \in Dev : Released(e)' <=> Released(e)
  BY <1>1, <1>2 DEF Released
<1>4. ~ Released(d)
  BY <1>1, ListFacts DEF TimerInv, TypeOK, ReleaseOK, Ended, Released
<1>5. TickingOfClock' = TickingOfClock
  BY <1>1, <1>2 DEF TickingOfClock
<1>6. DevOfClock[d] = "working"
  BY <1>1 DEF DevOfClock
<1>7. CASE next_slot(d)
  <2>1. DevOfClock' = [DevOfClock EXCEPT ![d] = "waiting"]
    BY <1>1, <1>3, <1>4, <1>7 DEF TimerInv, TypeOK, DevOfClock, next_slot
  <2> QED
    BY <1>1, <1>5, <1>6, <2>1 DEF ClockImpl!Arrive
<1>8. CASE detach_event(d)
  <2>1. DevOfClock' = [DevOfClock EXCEPT ![d] = "finished"]
    BY <1>1, <1>3, <1>8 DEF TimerInv, TypeOK, DevOfClock, detach_event
  <2> QED
    BY <1>1, <1>5, <1>6, <2>1 DEF ClockImpl!Detach
<1> QED
  BY <1>7, <1>8

LEMMA ClockStep ==
    TimerInv /\ [Next]_vars => [ClockImpl!ClockNext]_(ClockImpl!clockvars)
<1> SUFFICES ASSUME TimerInv, [Next]_vars
             PROVE  ClockImpl!ClockNext \/ UNCHANGED ClockImpl!clockvars
  OBVIOUS
<1>1. CASE attach_event \/ start_timer
  BY <1>1, HiddenOutside DEF TimerInv, MainOK, attach_event, start_timer
<1>2. CASE stop_timer \/ (\E d \in Dev : create(d) \/ wait_slot(d))
           \/ UNCHANGED vars
  BY <1>2, HiddenFlags DEF stop_timer, create, wait_slot, vars
<1>3. CASE scan_device
  BY <1>3, HiddenOutside DEF scan_device
<1>4. CASE spurious_wakeup
  BY <1>4, HiddenOutside, HiddenFlags DEF spurious_wakeup
<1>5. CASE begin_slot \/ tick
  BY <1>5, BeginIsStop, TickIsTick DEF ClockImpl!ClockNext
<1>6. CASE \E d \in Dev : next_slot(d) \/ detach_event(d)
  BY <1>6, EndOfSlotIsSeen DEF ClockImpl!ClockNext
<1> QED
  BY <1>1, <1>2, <1>3, <1>4, <1>5, <1>6, HiddenRelease, HiddenEnd, HiddenFree
  DEF Next, MainNext, TimerNext

\* The timer thread, main and the devices implement the lockstep clock, for
\* any number of devices: no device enters a slot before every device has
\* ended the one before, and each tick lets every waiting device go once.
THEOREM LockstepImplemented == Spec => Lockstep
<1> QED
  BY ClockStarts, ClockStep, TimerInvariant, PTL
  DEF Spec, Lockstep, ClockImpl!ClockSpec
=============================================================================
