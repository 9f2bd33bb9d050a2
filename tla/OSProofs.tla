------------------------------ MODULE OSProofs ------------------------------
(***************************************************************************)
(* The threads of os.c implement Sched, so what is proved of the scheduler *)
(* holds of the whole simulator; and what the CPU threads add to it.       *)
(***************************************************************************)
EXTENDS OS, SchedProofs

-----------------------------------------------------------------------------
(* The inductive invariant of the threads.                                 *)

\* The points of cpu_routine at which the CPU has a process.
Busy == {"finish", "free", "put", "run", "call", "kill", "reap"}

\* A CPU's process is live until it is delisted; without a process, and from
\* the end of a slice to the next dispatch, no time is left.
ThreadOK(c) ==
    /\ pc[c] \in Busy => proc[c] # NULL
    /\ proc[c] # NULL /\ pc[c] # "free" => pcb[proc[c]] = "live"
    /\ proc[c] = NULL => time_left[c] = 0
    /\ pc[c] \in {"get", "put", "recheck"} => time_left[c] = 0
    /\ pc[c] = "run" => time_left[c] > 0

\* A process that began an instruction after being killed has been delisted,
\* or is on a CPU that tests the mark before its next instruction.
LateOK(p) ==
    /\ late[p] <= 1
    /\ late[p] = 1 =>
          /\ killed[p]
          /\ \/ pcb[p] \in {"delisted", "freed"}
             \/ \E c \in Cpu :
                   /\ proc[c] = p
                   /\ pc[c] \in {"call", "kill", "reap", "slot", "top", "finish"}

\* The loader's index is within path while it loads.
LdOK ==
    /\ ld_i \in 1 .. Len(path) + 1
    /\ ld \in {"load", "slot"} => ld_i <= Len(path)

OSInv ==
    /\ IInv
    /\ OSTypeOK
    /\ LdOK
    /\ \A c \in Cpu : ThreadOK(c)
    /\ \A p \in Proc : LateOK(p)

-----------------------------------------------------------------------------
(* The threads use the scheduler as Sched allows.                          *)

\* A step of a CPU thread is one operation of the scheduler, or none.
LEMMA CpuStepIsSched ==
    ASSUME NEW c \in Cpu, CpuStep(c) PROVE CpuNext(c) \/ UNCHANGED vars
<1>1. CASE Load(c)
  BY <1>1 DEF Load, CpuNext
<1>2. CASE Check(c)
  BY <1>2 DEF Check
<1>3. CASE Finish(c)
  BY <1>3 DEF Finish, CpuNext
<1>4. CASE Free(c)
  BY <1>4 DEF Free, CpuNext
<1>5. CASE Put(c)
  BY <1>5 DEF Put, CpuNext
<1>6. CASE Get(c)
  BY <1>6 DEF Get, CpuNext
<1>7. CASE Recheck(c)
  BY <1>7 DEF Recheck
<1>8. CASE Run(c)
  BY <1>8 DEF Run
<1>9. CASE Call(c)
  BY <1>9 DEF Call, CpuNext
<1>10. CASE Kill(c)
  BY <1>10 DEF Kill, CpuNext
<1>11. CASE Reap(c)
  BY <1>11 DEF Reap, CpuNext
<1>12. CASE NextSlot(c)
  BY <1>12 DEF NextSlot
<1>13. CASE CpuDetach(c)
  BY <1>13 DEF CpuDetach
<1> QED
  BY <1>1, <1>2, <1>3, <1>4, <1>5, <1>6, <1>7, <1>8, <1>9, <1>10, <1>11,
     <1>12, <1>13 DEF CpuStep

\* The loader adds a process of the configuration, or leaves the scheduler alone.
LEMMA LdStepIsSched ==
    ASSUME LdOK, LdStep PROVE (\E p \in Proc : add_proc(p)) \/ UNCHANGED vars
<1>1. CASE LdAdd
  <2>1. path[ld_i] \in Proc /\ add_proc(path[ld_i])
    BY <1>1, OSAssumption DEF LdAdd, LdAt, LdOK
  <2> QED
    BY <2>1
<1>2. CASE LdWait \/ LdNextSlot \/ LdDone \/ LdDetach
  BY <1>2 DEF LdWait, LdNextSlot, LdDone, LdDetach
<1> QED
  BY <1>1, <1>2 DEF LdStep

\* Every step of the simulator is a step of the scheduler, or none.
LEMMA OSStepIsSched == LdOK /\ [OSNext]_osvars => [Next]_vars
<1> SUFFICES ASSUME LdOK, [OSNext]_osvars PROVE [Next]_vars
  OBVIOUS
<1>1. CASE UNCHANGED osvars
  BY <1>1 DEF osvars
<1>2. CASE TimerStep
  BY <1>2 DEF TimerStep
<1>3. CASE LdStep
  BY <1>3, LdStepIsSched DEF Next
<1>4. ASSUME NEW c \in Cpu, CpuStep(c) PROVE [Next]_vars
  BY <1>4, CpuStepIsSched DEF Next
<1> QED
  BY <1>1, <1>2, <1>3, <1>4 DEF OSNext

-----------------------------------------------------------------------------
(* The steps of the CPU threads.                                           *)

\* What an operation of CPU d leaves alone: the processes of the other CPUs, the
\* marks of killall, and that a delisted process never is live again.
SchedFrame(d) ==
    /\ \A c \in Cpu : c # d => proc'[c] = proc[c]
    /\ \A c \in Cpu : c # d /\ proc[c] # NULL => pcb'[proc[c]] = pcb[proc[c]]
    /\ \A p \in Proc : killed[p] => killed'[p]
    /\ \A p \in Proc : pcb[p] \in {"delisted", "freed"}
                         => pcb'[p] \in {"delisted", "freed"}

LEMMA CpuFrame ==
    ASSUME IInv, NEW d \in Cpu, CpuNext(d) PROVE SchedFrame(d)
<1> USE DEF IInv
<1>1. ASSUME proc' = proc \/ (\E v : proc' = [proc EXCEPT ![d] = v]), UNCHANGED pcb,
             UNCHANGED killed
      PROVE  SchedFrame(d)
  BY <1>1 DEF SchedFrame, TypeOK
<1>2. CASE get_proc(d) \/ put_proc(d)
  BY <1>1, <1>2 DEF get_proc, put_proc, GetThisRound, GetNextRound, GetNothing, Dispatch
<1>3. CASE finish_proc(d) \/ free_pcb(d)
  <2>1. /\ proc[d] # NULL /\ UNCHANGED killed
        /\ proc' = proc \/ proc' = [proc EXCEPT ![d] = NULL]
        /\ \/ pcb' = [pcb EXCEPT ![proc[d]] = "delisted"] /\ pcb[proc[d]] = "live"
           \/ pcb' = [pcb EXCEPT ![proc[d]] = "freed"]
    BY <1>3 DEF finish_proc, free_pcb
  <2>2. \A c \in Cpu : c # d /\ proc[c] # NULL => proc[c] # proc[d]
    BY <2>1 DEF CpuInv
  <2> QED
    BY <2>1, <2>2 DEF SchedFrame, TypeOK
<1>4. ASSUME NEW n \in Names, kill_lock(d, n) PROVE SchedFrame(d)
  BY <1>1, <1>4 DEF kill_lock
<1>5. CASE kill_step(d)
  <2> DEFINE p == running_list[scan.i]
  <2>1. p \in Proc
    BY <1>5 DEF kill_step, TypeOK
  <2>2. CASE KillSkip(d, p)
    BY <1>1, <2>2 DEF KillSkip
  <2>3. CASE KillMark(d, p)
    BY <2>1, <2>3 DEF KillMark, SchedFrame, TypeOK
  <2>4. CASE KillTake(d, p)
    <3>1. /\ UNCHANGED proc
          /\ killed' = [killed EXCEPT ![p] = TRUE]
          /\ pcb' = [pcb EXCEPT ![p] = "delisted"]
          /\ InQueue(mlq_ready_queue[prio(p)], p)
      BY <2>4 DEF KillTake
    <3>2. \A c \in Cpu : proc[c] # p
      BY <2>1, <3>1, PrioIsLevel DEF QueueInv
    <3> QED
      BY <2>1, <3>1, <3>2 DEF SchedFrame, TypeOK
  <2> QED
    BY <1>5, <2>2, <2>3, <2>4 DEF kill_step
<1>6. CASE kill_unlock(d)
  BY <1>1, <1>6 DEF kill_unlock
<1>7. CASE free_victim(d)
  <2> DEFINE p == Head(victims[d])
  <2>1. /\ UNCHANGED <<proc, killed>>
        /\ pcb' = [pcb EXCEPT ![p] = "freed"]
        /\ victims[d] # <<>> /\ victims[d] \in Seq(Proc)
    BY <1>7 DEF free_victim, TypeOK
  <2>2. p \in Proc /\ InQueue(victims[d], p)
    BY <2>1, TailFacts DEF VictimInv
  <2>3. \A c \in Cpu : proc[c] # p
    BY <2>2 DEF VictimInv
  <2> QED
    BY <2>1, <2>2, <2>3 DEF SchedFrame, TypeOK
<1> QED
  BY <1>2, <1>3, <1>4, <1>5, <1>6, <1>7 DEF CpuNext

\* The process that get_proc returns is live.
LEMMA GetLive ==
    ASSUME IInv, NEW d \in Cpu, get_proc(d)
    PROVE  proc'[d] = NULL \/ (proc'[d] \in Proc /\ pcb'[proc'[d]] = "live")
<1> USE DEF IInv
<1>1. UNCHANGED pcb /\ proc[d] = NULL
  BY DEF get_proc
<1>2. ASSUME NEW l \in Level, NEW u, Dispatch(d, l, u), mlq_ready_queue[l] # <<>>
      PROVE  proc'[d] \in Proc /\ pcb'[proc'[d]] = "live"
  <2> DEFINE p == Head(mlq_ready_queue[l])
  <2>1. p \in Proc /\ InQueue(mlq_ready_queue[l], p)
    BY <1>2, TailFacts DEF TypeOK, QueueInv
  <2>2. pcb[p] = "live"
    BY <2>1 DEF QueueInv
  <2>3. proc'[d] = p
    BY <1>2 DEF Dispatch, dequeue_head, TypeOK
  <2> QED
    BY <1>1, <2>1, <2>2, <2>3
<1>3. CASE GetThisRound(d)
  BY <1>2, <1>3 DEF GetThisRound, First, Ready, empty
<1>4. CASE GetNextRound(d)
  BY <1>2, <1>4 DEF GetNextRound, First, Ready, empty
<1>5. CASE GetNothing(d)
  BY <1>1, <1>5 DEF GetNothing
<1> QED
  BY <1>3, <1>4, <1>5 DEF get_proc

\* The points from which a CPU comes to the test of the mark of killall before
\* its process begins another instruction.
BeforeTest == {"call", "kill", "reap", "slot", "top", "finish"}

\* What a step of CPU d does to the variables of the threads and of the timer.
CpuShape(d) ==
    /\ pc' = pc \/ \E m : pc' = [pc EXCEPT ![d] = m]
    /\ time_left' = time_left \/ \E t : time_left' = [time_left EXCEPT ![d] = t]
    /\ UNCHANGED ldvars
    /\ UNCHANGED <<ip, late>> \/ Run(d)
    /\ UNCHANGED dev \/ Arrive(d) \/ Detach(d)

LEMMA CpuStepShape ==
    ASSUME NEW d \in Cpu, CpuStep(d) PROVE CpuShape(d)
<1> USE DEF CpuShape, Goto, clockvars
<1>1. CASE Load(d)
  BY <1>1, Zenon DEF Load
<1>2. CASE Check(d)
  BY <1>2, Zenon DEF Check
<1>3. CASE Finish(d)
  BY <1>3, Zenon DEF Finish
<1>4. CASE Free(d)
  BY <1>4, Zenon DEF Free
<1>5. CASE Put(d)
  BY <1>5, Zenon DEF Put
<1>6. CASE Get(d)
  BY <1>6, Zenon DEF Get
<1>7. CASE Recheck(d)
  BY <1>7, Zenon DEF Recheck
<1>8. CASE Run(d)
  BY <1>8, Zenon DEF Run
<1>9. CASE Call(d)
  BY <1>9, Zenon DEF Call
<1>10. CASE Kill(d)
  BY <1>10 DEF Kill
<1>11. CASE Reap(d)
  BY <1>11 DEF Reap
<1>12. CASE NextSlot(d)
  BY <1>12, Zenon DEF NextSlot
<1>13. CASE CpuDetach(d)
  BY <1>13, Zenon DEF CpuDetach
<1> QED
  BY <1>1, <1>2, <1>3, <1>4, <1>5, <1>6, <1>7, <1>8, <1>9, <1>10, <1>11,
     <1>12, <1>13 DEF CpuStep

\* A step of CPU d changes nothing that belongs to another CPU.
LEMMA OthersKept ==
    ASSUME OSInv, NEW d \in Cpu, CpuStep(d)
    PROVE  /\ SchedFrame(d)
           /\ \A c \in Cpu : c # d =>
                 pc'[c] = pc[c] /\ time_left'[c] = time_left[c]
           /\ UNCHANGED ldvars
<1> USE DEF OSInv
<1>1. SchedFrame(d)
  <2>1. CASE CpuNext(d)
    BY <2>1, CpuFrame
  <2>2. CASE UNCHANGED vars
    BY <2>2 DEF vars, SchedFrame
  <2> QED
    BY <2>1, <2>2, CpuStepIsSched
<1> QED
  BY <1>1, CpuStepShape, Zenon DEF CpuShape, OSTypeOK

LEMMA OthersOK ==
    ASSUME OSInv, NEW d \in Cpu, CpuStep(d), NEW c \in Cpu, c # d
    PROVE  ThreadOK(c)'
<1>1. /\ proc'[c] = proc[c] /\ pc'[c] = pc[c] /\ time_left'[c] = time_left[c]
      /\ proc[c] # NULL => pcb'[proc[c]] = pcb[proc[c]]
  BY OthersKept DEF SchedFrame
<1>2. ThreadOK(c)
  BY DEF OSInv
<1> QED
  BY <1>1, <1>2 DEF ThreadOK

\* A step that begins no instruction keeps the bound on late ones.
LEMMA LateKept ==
    ASSUME OSInv, NEW d \in Cpu, CpuStep(d), UNCHANGED late,
           ASSUME proc[d] # NULL, killed[proc[d]], pc[d] \in BeforeTest
           PROVE  \/ pcb'[proc[d]] \in {"delisted", "freed"}
                  \/ proc'[d] = proc[d] /\ pc'[d] \in BeforeTest,
           NEW p \in Proc
    PROVE  LateOK(p)'
<1>1. LateOK(p) /\ late'[p] = late[p]
  BY DEF OSInv
<1>2. SUFFICES ASSUME late[p] = 1
               PROVE  /\ killed'[p]
                      /\ \/ pcb'[p] \in {"delisted", "freed"}
                         \/ \E c \in Cpu : proc'[c] = p /\ pc'[c] \in BeforeTest
  BY <1>1 DEF LateOK, BeforeTest
<1>3. killed[p] /\ killed'[p]
  BY <1>1, <1>2, OthersKept DEF LateOK, SchedFrame
<1>4. CASE pcb[p] \in {"delisted", "freed"}
  BY <1>3, <1>4, OthersKept DEF SchedFrame
<1>5. ASSUME NEW c \in Cpu, proc[c] = p, pc[c] \in BeforeTest
      PROVE  \/ pcb'[p] \in {"delisted", "freed"}
             \/ \E e \in Cpu : proc'[e] = p /\ pc'[e] \in BeforeTest
  <2>1. CASE c # d
    BY <1>5, <2>1, OthersKept DEF SchedFrame
  <2>2. CASE c = d
    BY <1>3, <1>5, <2>2, SchedAssumption
  <2> QED
    BY <2>1, <2>2
<1> QED
  BY <1>1, <1>2, <1>3, <1>4, <1>5 DEF LateOK, BeforeTest

\* The point reached and the time left after a step of CPU d.
LEMMA ThreadStep ==
    ASSUME OSInv, NEW d \in Cpu, CpuStep(d)
    PROVE  /\ ThreadOK(d)'
           /\ pc'[d] \in CpuState /\ time_left'[d] \in 0 .. time_slot
<1> USE DEF OSInv, At, Goto
<1>1. /\ pc \in [Cpu -> CpuState] /\ time_left \in [Cpu -> 0 .. time_slot]
      /\ proc \in [Cpu -> Proc \cup {NULL}] /\ pcb \in [Proc -> PcbState]
      /\ pc[d] \in CpuState /\ time_left[d] \in 0 .. time_slot
      /\ time_slot \in Nat \ {0} /\ NULL \notin Proc
      /\ ThreadOK(d)
  BY OSAssumption, SchedAssumption DEF OSTypeOK, IInv, TypeOK
<1>2. CASE Load(d) \/ Get(d)
  <2>1. time_left[d] = 0
    BY <1>1, <1>2 DEF Load, Get, ThreadOK
  <2>2. /\ time_left'[d] = 0 /\ get_proc(d)
        /\ pc'[d] \in {"slot", "recheck"}
    BY <1>1, <1>2, <2>1 DEF Load, Get
  <2>3. proc'[d] # NULL => pcb'[proc'[d]] = "live"
    BY <2>2, GetLive
  <2> QED
    BY <1>1, <2>2, <2>3 DEF ThreadOK, Busy, CpuState
<1>3. CASE Check(d)
  <2>1. /\ proc[d] # NULL /\ pc[d] = "top"
        /\ pc'[d] = Test(d, proc[d]) /\ UNCHANGED <<vars, time_left>>
    BY <1>1, <1>3 DEF Check
  <2>2. pc'[d] \in {"finish", "put", "run"}
        /\ (pc'[d] = "put" => time_left[d] = 0) /\ (pc'[d] = "run" => time_left[d] > 0)
    BY <1>1, <2>1 DEF Test
  <2> QED
    BY <1>1, <2>1, <2>2 DEF ThreadOK, Busy, CpuState, vars
<1>4. CASE Finish(d)
  <2>1. proc[d] # NULL /\ UNCHANGED <<proc, time_left>> /\ pc'[d] = "free"
    BY <1>1, <1>4 DEF Finish, finish_proc
  <2> QED
    BY <1>1, <2>1 DEF ThreadOK, Busy, CpuState
<1>5. CASE Free(d)
  <2>1. proc'[d] = NULL /\ pc'[d] = "get" /\ time_left'[d] = 0
    BY <1>1, <1>5 DEF Free, free_pcb
  <2> QED
    BY <1>1, <2>1 DEF ThreadOK, Busy, CpuState
<1>6. CASE Put(d)
  <2>1. proc'[d] = NULL /\ pc'[d] = "get" /\ time_left'[d] = 0
    BY <1>1, <1>6 DEF Put, put_proc, ThreadOK
  <2> QED
    BY <1>1, <2>1 DEF ThreadOK, Busy, CpuState
<1>7. CASE Recheck(d)
  <2>1. time_left[d] = 0 /\ UNCHANGED vars
        /\ pc'[d] = (IF proc[d] # NULL THEN "run" ELSE IF done THEN "detach" ELSE "slot")
        /\ time_left'[d] = (IF proc[d] # NULL THEN time_slot ELSE 0)
    BY <1>1, <1>7 DEF Recheck, ThreadOK
  <2> QED
    BY <1>1, <1>7, <2>1 DEF ThreadOK, Busy, CpuState, vars, Recheck
<1>8. CASE Run(d)
  <2>1. /\ proc[d] # NULL /\ UNCHANGED vars /\ pc[d] = "run"
        /\ pc'[d] \in {"call", "slot"}
        /\ time_left'[d] = time_left[d] - 1 /\ time_left[d] > 0
    <3>1. At(d, "run") /\ proc[d] # NULL /\ time_left[d] > 0
      BY <1>1, <1>8 DEF Run, ThreadOK, Busy
    <3> QED
      BY <1>1, <1>8, <3>1 DEF Run
  <2>2. time_left'[d] \in 0 .. time_slot
    BY <1>1, <2>1
  <2>3. proc'[d] = proc[d] /\ pcb' = pcb /\ pcb[proc[d]] = "live"
    BY <1>1, <2>1 DEF ThreadOK, vars
  <2> QED
    BY <2>1, <2>2, <2>3 DEF ThreadOK, Busy, CpuState
<1>9. CASE Call(d)
  <2>1. /\ proc[d] # NULL /\ UNCHANGED <<proc, pcb, time_left>> /\ pc[d] = "call"
        /\ pc'[d] = "kill"
    BY <1>1, <1>9, Zenon DEF Call, kill_lock
  <2> QED
    BY <1>1, <2>1 DEF ThreadOK, Busy, CpuState
<1>10. CASE Kill(d)
  <2>1. /\ proc[d] # NULL /\ UNCHANGED <<proc, time_left>> /\ pc[d] = "kill"
        /\ pc'[d] \in {"kill", "reap"}
    BY <1>1, <1>10 DEF Kill, kill_step, kill_unlock, KillSkip, KillMark, KillTake,
                       ThreadOK, Busy
  <2>2. pcb'[proc[d]] = "live"
    <3>1. CASE kill_unlock(d)
      BY <1>1, <2>1, <3>1 DEF kill_unlock, ThreadOK
    <3>2. CASE kill_step(d)
      BY <1>1, <2>1, <3>2 DEF kill_step, KillSkip, KillMark, KillTake, Matches, ThreadOK
    <3> QED
      BY <1>10, <3>1, <3>2 DEF Kill
  <2> QED
    BY <1>1, <2>1, <2>2 DEF ThreadOK, Busy, CpuState
<1>11. CASE Reap(d)
  <2>1. /\ proc[d] # NULL /\ UNCHANGED <<proc, time_left>> /\ pc[d] = "reap"
        /\ pc'[d] \in {"reap", "slot"}
    BY <1>1, <1>11 DEF Reap, free_victim, ThreadOK, Busy, vars
  <2>2. pcb'[proc[d]] = "live"
    <3>1. CASE UNCHANGED vars
      BY <1>1, <2>1, <3>1 DEF vars, ThreadOK
    <3>2. CASE free_victim(d)
      <4>1. InQueue(victims[d], Head(victims[d])) /\ Head(victims[d]) \in Proc
        BY <3>2, TailFacts DEF free_victim, IInv, TypeOK, VictimInv
      <4>2. proc[d] # Head(victims[d])
        BY <4>1 DEF IInv, VictimInv
      <4> QED
        BY <1>1, <2>1, <3>2, <4>1, <4>2 DEF free_victim, ThreadOK
    <3> QED
      BY <1>11, <3>1, <3>2 DEF Reap
  <2> QED
    BY <1>1, <2>1, <2>2 DEF ThreadOK, Busy, CpuState
<1>12. CASE NextSlot(d)
  <2>1. pc[d] = "slot" /\ UNCHANGED <<proc, pcb, time_left>> /\ pc'[d] = "top"
    BY <1>1, <1>12 DEF NextSlot, vars
  <2> QED
    BY <1>1, <2>1 DEF ThreadOK, Busy, CpuState
<1>13. CASE CpuDetach(d)
  <2>1. pc[d] = "detach" /\ UNCHANGED <<proc, pcb, time_left>> /\ pc'[d] = "stopped"
    BY <1>1, <1>13 DEF CpuDetach, vars
  <2> QED
    BY <1>1, <2>1 DEF ThreadOK, Busy, CpuState
<1> QED
  BY <1>2, <1>3, <1>4, <1>5, <1>6, <1>7, <1>8, <1>9, <1>10, <1>11, <1>12, <1>13, Zenon
  DEF CpuStep

\* A killed process begins one more instruction at most: only Run begins one,
\* and a CPU comes back to Run only through the test of the mark.
LEMMA LateStep ==
    ASSUME OSInv, NEW d \in Cpu, CpuStep(d), NEW p \in Proc
    PROVE  LateOK(p)'
<1> USE DEF At, Goto
<1>1. /\ pc \in [Cpu -> CpuState] /\ late \in [Proc -> Nat] /\ ThreadOK(d)
      /\ proc \in [Cpu -> Proc \cup {NULL}] /\ pcb \in [Proc -> PcbState]
      /\ killed \in [Proc -> BOOLEAN]
  BY DEF OSInv, OSTypeOK, IInv, TypeOK
<1>2. CASE Run(d)
  <2>1. /\ proc[d] \in Proc /\ pcb[proc[d]] = "live" /\ pc[d] = "run"
        /\ UNCHANGED vars /\ pc'[d] \in BeforeTest
        /\ late' = [late EXCEPT ![proc[d]] = IF killed[proc[d]] THEN @ + 1 ELSE @]
    BY <1>1, <1>2 DEF Run, ThreadOK, Busy, BeforeTest
  <2>2. LateOK(p) /\ LateOK(proc[d])
    BY <2>1 DEF OSInv
  <2>3. CASE p = proc[d]
    <3>1. late[p] # 1
      <4>1. \A c \in Cpu : proc[c] = p => c = d
        BY <2>1, <2>3, SchedAssumption DEF OSInv, IInv, CpuInv
      <4> QED
        BY <2>1, <2>2, <2>3, <4>1 DEF LateOK
    <3>2. late[p] = 0
      BY <1>1, <2>2, <3>1 DEF LateOK
    <3>3. late'[p] = IF killed[p] THEN 1 ELSE 0
      BY <1>1, <2>1, <2>3, <3>2
    <3> QED
      BY <1>1, <2>1, <2>3, <3>3 DEF LateOK, BeforeTest, vars
  <2>4. CASE p # proc[d]
    <3>1. late'[p] = late[p]
      BY <1>1, <2>1, <2>4
    <3>2. \A c \in Cpu : proc[c] = p => proc'[c] = p /\ pc'[c] = pc[c]
      BY <2>1, <2>4, OthersKept DEF vars
    <3>3. killed' = killed /\ pcb' = pcb
      BY <2>1, Zenon DEF vars
    <3> QED
      BY <2>2, <3>1, <3>2, <3>3, Zenon DEF LateOK
  <2> QED
    BY <2>3, <2>4
<1>3. ASSUME UNCHANGED late,
             proc[d] # NULL /\ killed[proc[d]] /\ pc[d] \in BeforeTest =>
                \/ pcb'[proc[d]] \in {"delisted", "freed"}
                \/ proc'[d] = proc[d] /\ pc'[d] \in BeforeTest
      PROVE  LateOK(p)'
  BY <1>1, <1>3, LateKept, Zenon
<1>4. CASE Load(d)
  BY <1>3, <1>4, Zenon DEF Load
<1>5. CASE Check(d)
  <2>1. UNCHANGED <<late, proc>> /\ pc'[d] = Test(d, proc[d])
    BY <1>1, <1>5 DEF Check, vars
  <2> QED
    BY <1>3, <2>1 DEF Test, BeforeTest
<1>6. CASE Finish(d)
  <2>1. UNCHANGED late /\ pcb'[proc[d]] = "delisted"
    BY <1>1, <1>6 DEF Finish, finish_proc
  <2> QED
    BY <1>3, <2>1, Zenon
<1>7. CASE Free(d) \/ Put(d) \/ Get(d) \/ Recheck(d) \/ CpuDetach(d)
  <2>1. UNCHANGED late /\ pc[d] \notin BeforeTest
    BY <1>7, Zenon DEF Free, Put, Get, Recheck, CpuDetach, BeforeTest
  <2> QED
    BY <1>3, <2>1
<1>8. CASE Call(d) \/ Kill(d) \/ Reap(d) \/ NextSlot(d)
  <2>1. UNCHANGED <<late, proc>>
    BY <1>8, Zenon DEF Call, Kill, Reap, NextSlot, kill_lock, kill_step, KillSkip,
                KillMark, KillTake, kill_unlock, free_victim, vars
  <2>2. pc'[d] \in {"kill", "reap", "slot", "top"}
    BY <1>1, <1>8, Zenon DEF Call, Kill, Reap, NextSlot
  <2> QED
    BY <1>3, <2>1, <2>2 DEF BeforeTest
<1> QED
  BY <1>2, <1>4, <1>5, <1>6, <1>7, <1>8 DEF CpuStep

\* The devices of the timer keep their three states.
LEMMA DevStep ==
    ASSUME OSTypeOK, OSNext
    PROVE  dev' \in [Dev -> {"working", "waiting", "finished"}]
<1>1. dev \in [Dev -> {"working", "waiting", "finished"}]
  BY DEF OSTypeOK
<1>2. ASSUME NEW d \in Dev, Arrive(d) \/ Detach(d) PROVE dev' \in [Dev -> {"working", "waiting", "finished"}]
  BY <1>1, <1>2 DEF Arrive, Detach
<1>3. CASE TimerStep
  BY <1>1, <1>3, Zenon DEF TimerStep, Tick, Stop
<1>4. CASE LdStep
  BY <1>1, <1>2, <1>4, OSAssumption, Zenon
  DEF LdStep, LdWait, LdAdd, LdNextSlot, LdDone, LdDetach, clockvars
<1>5. ASSUME NEW c \in Cpu, CpuStep(c) PROVE dev' \in [Dev -> {"working", "waiting", "finished"}]
  BY <1>1, <1>2, <1>5, OSAssumption, CpuStepShape DEF CpuShape
<1> QED
  BY <1>3, <1>4, <1>5 DEF OSNext

\* A CPU's process executes its instructions one by one.
LEMMA IpStep ==
    ASSUME OSInv, NEW d \in Cpu, CpuStep(d)
    PROVE  ip' \in [Proc -> Nat] /\ \A p \in Proc : ip'[p] <= Len(code[p])
<1>1. /\ ip \in [Proc -> Nat] /\ \A p \in Proc : ip[p] <= Len(code[p])
      /\ \A p \in Proc : Len(code[p]) \in Nat
  BY OSAssumption DEF OSInv, OSTypeOK
<1>2. CASE Run(d)
  <2>1. proc[d] \in Proc
    BY <1>2, Zenon DEF Run, At, OSInv, ThreadOK, Busy, IInv, TypeOK
  <2>2. \/ ip' = ip
        \/ ip[proc[d]] < Len(code[proc[d]]) /\ ip' = [ip EXCEPT ![proc[d]] = @ + 1]
    BY <1>1, <1>2, <2>1, Zenon DEF Run
  <2> QED
    BY <1>1, <2>1, <2>2
<1>3. CASE ip' = ip
  BY <1>1, <1>3
<1> QED
  BY <1>2, <1>3, CpuStepShape DEF CpuShape

LEMMA CpuStepInv ==
    ASSUME OSInv, OSNext, NEW d \in Cpu, CpuStep(d) PROVE OSInv'
<1>1. /\ UNCHANGED ldvars
      /\ \A c \in Cpu : c # d => pc'[c] = pc[c] /\ time_left'[c] = time_left[c]
  BY OthersKept
<1>2. IInv'
  BY OSStepIsSched, NextInv DEF OSInv
<1>3. LdOK'
  BY <1>1 DEF OSInv, LdOK, ldvars
<1>4. \A c \in Cpu : ThreadOK(c)'
  BY ThreadStep, OthersOK
<1>5. \A p \in Proc : LateOK(p)'
  BY LateStep
<1>6. pc' \in [Cpu -> CpuState] /\ time_left' \in [Cpu -> 0 .. time_slot]
  BY <1>1, ThreadStep, CpuStepShape, Zenon DEF CpuShape, OSInv, OSTypeOK
<1>7. late' \in [Proc -> Nat]
  <2>1. late \in [Proc -> Nat]
    BY DEF OSInv, OSTypeOK
  <2>2. CASE Run(d)
    <3>1. late' = [late EXCEPT ![proc[d]] = IF killed[proc[d]] THEN @ + 1 ELSE @]
      BY <2>2 DEF Run
    <3>2. \/ late' = late
          \/ late' = [late EXCEPT ![proc[d]] = late[proc[d]] + 1]
      BY <2>1, <3>1, Zenon
    <3>3. proc[d] \in Proc
      <4>1. pc[d] = "run" /\ ThreadOK(d) /\ proc \in [Cpu -> Proc \cup {NULL}]
        BY <2>2, Zenon DEF Run, At, OSInv, IInv, TypeOK
      <4> QED
        BY <4>1 DEF ThreadOK, Busy
    <3> QED
      BY <2>1, <3>2, <3>3
  <2> QED
    BY <2>1, <2>2, CpuStepShape DEF CpuShape
<1>8. OSTypeOK'
  BY <1>1, <1>6, <1>7, IpStep, DevStep DEF OSInv, OSTypeOK, ldvars, confvars
<1> QED
  BY <1>2, <1>3, <1>4, <1>5, <1>8 DEF OSInv

\* The loader adds a process that was not loaded, which no CPU has.
LEMMA LdStepInv ==
    ASSUME OSInv, OSNext, LdStep PROVE OSInv'
<1>1. IInv'
  BY OSStepIsSched, NextInv DEF OSInv
<1>2. UNCHANGED cpuvars
  BY Zenon DEF LdStep, LdWait, LdAdd, LdNextSlot, LdDone, LdDetach
<1>3. Len(path) \in Nat /\ ld_i \in Nat
  BY OSAssumption DEF OSInv, LdOK
<1>4. LdOK'
  <2>1. CASE LdNextSlot
    <3>1. /\ ld = "slot" /\ ld_i' = ld_i + 1
          /\ ld' = IF ld_i = Len(path) THEN "done" ELSE "load"
      BY <2>1 DEF LdNextSlot, LdAt, AfterLoad
    <3> QED
      BY <1>3, <3>1 DEF OSInv, LdOK
  <2>2. CASE LdAdd
    <3>1. ld = "load" /\ ld_i' = ld_i
      BY <2>2 DEF LdAdd, LdAt
    <3> QED
      BY <3>1 DEF OSInv, LdOK
  <2>3. CASE LdWait \/ LdDone \/ LdDetach
    <3>1. ld_i' = ld_i /\ (ld' = ld \/ ld' \in {"detach", "stopped"})
      BY <2>3 DEF LdWait, LdDone, LdDetach, ldvars
    <3> QED
      BY <3>1 DEF OSInv, LdOK
  <2> QED
    BY <2>1, <2>2, <2>3 DEF LdStep
<1>5. ld' \in LdState /\ done' \in BOOLEAN
  BY Zenon DEF LdStep, LdWait, LdAdd, LdNextSlot, LdDone, LdDetach, AfterLoad, LdState,
         OSInv, OSTypeOK, ldvars
<1>6. OSTypeOK'
  BY <1>2, <1>4, <1>5, DevStep DEF OSInv, OSTypeOK, LdOK, cpuvars, confvars
<1>7. /\ UNCHANGED <<proc, killed>>
      /\ \A p \in Proc : pcb[p] # "unloaded" => pcb'[p] = pcb[p]
  <2>1. CASE UNCHANGED vars
    BY <2>1 DEF vars
  <2>2. ASSUME NEW q \in Proc, add_proc(q)
        PROVE  UNCHANGED <<proc, killed>>
               /\ \A p \in Proc : pcb[p] # "unloaded" => pcb'[p] = pcb[p]
    BY <2>2 DEF add_proc, OSInv, IInv, TypeOK
  <2> QED
    BY <2>1, <2>2, LdStepIsSched DEF OSInv
<1>8. \A c \in Cpu : ThreadOK(c)'
  <2>1. \A c \in Cpu : proc[c] # NULL => pcb'[proc[c]] = pcb[proc[c]]
    BY <1>7, Zenon DEF OSInv, IInv, TypeOK, CpuInv
  <2> QED
    BY <1>2, <1>7, <2>1, Zenon DEF OSInv, ThreadOK, cpuvars
<1>9. \A p \in Proc : LateOK(p)'
  BY <1>2, <1>7, Zenon DEF OSInv, LateOK, cpuvars
<1> QED
  BY <1>1, <1>4, <1>6, <1>8, <1>9 DEF OSInv

LEMMA OSInvInit == OSInit => OSInv
<1> SUFFICES ASSUME OSInit PROVE OSInv
  OBVIOUS
<1>1. IInv
  BY InitInv DEF OSInit
<1>2. Len(path) \in Nat /\ (path # <<>> => Len(path) >= 1)
  BY OSAssumption
<1>3. LdOK
  BY <1>2 DEF OSInit, LdOK
<1>4. \A p \in Proc : Len(code[p]) \in Nat
  BY OSAssumption DEF OSInit
<1>5. OSTypeOK
  <2>1. /\ pc \in [Cpu -> CpuState] /\ time_left \in [Cpu -> 0 .. time_slot]
        /\ done \in BOOLEAN /\ ld \in LdState
    <3>1. 0 \in 0 .. time_slot
      BY OSAssumption
    <3>2. "top" \in CpuState /\ "done" \in LdState /\ "load" \in LdState
      BY DEF CpuState, LdState
    <3> QED
      BY <3>1, <3>2, Zenon DEF OSInit
  <2>2. /\ ip \in [Proc -> Nat] /\ \A p \in Proc : ip[p] <= Len(code[p])
        /\ late \in [Proc -> Nat]
    BY <1>4 DEF OSInit
  <2>3. dev \in [Dev -> {"working", "waiting", "finished"}]
    BY DEF OSInit, ClockInit
  <2> QED
    BY <1>3, <2>1, <2>2, <2>3 DEF OSInit, OSTypeOK, LdOK
<1>6. \A c \in Cpu : ThreadOK(c)
  BY DEF OSInit, Init, ThreadOK, Busy
<1>7. \A p \in Proc : LateOK(p)
  BY DEF OSInit, LateOK
<1> QED
  BY <1>1, <1>3, <1>5, <1>6, <1>7 DEF OSInv

LEMMA OSInvNext == OSInv /\ [OSNext]_osvars => OSInv'
<1> SUFFICES ASSUME OSInv, [OSNext]_osvars PROVE OSInv'
  OBVIOUS
<1>1. IInv'
  BY OSStepIsSched, NextInv DEF OSInv
<1>2. ASSUME UNCHANGED <<vars, cpuvars, ldvars>>,
             dev' \in [Dev -> {"working", "waiting", "finished"}]
      PROVE  OSInv'
  <2>1. LdOK' /\ OSTypeOK'
    BY <1>2 DEF OSInv, OSTypeOK, LdOK, ldvars, cpuvars, confvars
  <2>2. (\A c \in Cpu : ThreadOK(c)') /\ (\A p \in Proc : LateOK(p)')
    BY <1>2 DEF OSInv, ThreadOK, LateOK, cpuvars, vars
  <2> QED
    BY <1>1, <2>1, <2>2 DEF OSInv
<1>3. CASE UNCHANGED osvars
  BY <1>2, <1>3 DEF osvars, cpuvars, ldvars, clockvars, OSInv, OSTypeOK
<1>4. CASE OSNext
  <2>1. CASE TimerStep
    BY <1>2, <1>4, <2>1, DevStep DEF TimerStep, OSInv
  <2> QED
    BY <1>4, <2>1, LdStepInv, CpuStepInv DEF OSNext
<1> QED
  BY <1>3, <1>4

-----------------------------------------------------------------------------
(* What holds of the simulator.                                            *)

THEOREM OSInvariance == OSSpec => []OSInv
  BY OSInvInit, OSInvNext, PTL DEF OSSpec

\* Every variable of the threads stays in its range; in particular time_left
\* never goes below zero and no CPU runs past the end of a program.
THEOREM OSTypeCorrect == OSSpec => []OSTypeOK
<1>1. OSInv => OSTypeOK
  BY DEF OSInv
<1> QED
  BY <1>1, OSInvariance, PTL

\* Every behaviour of the threads is one of Sched.  This much holds by the way OS
\* is put together: that the guards of Sched never stand in a thread's way is
\* CallsAsExpected.
LEMMA SchedImplemented == OSSpec => Spec
<1>1. OSInit => Init
  BY DEF OSInit
<1>2. OSInv /\ [OSNext]_osvars => [Next]_vars
  BY OSStepIsSched DEF OSInv
<1> QED
  BY <1>1, <1>2, OSInvariance, PTL DEF OSSpec, Spec

\* So no PCB is used after it was freed in the simulator as a whole.
THEOREM OSNoUseAfterFree == OSSpec => []NoDanglingPcb
  BY SchedImplemented, NoUseAfterFree, PTL

\* A killed process begins at most one more instruction.
THEOREM KillIsPrompt == OSSpec => []KillLatency
<1>1. OSInv => KillLatency
  BY DEF OSInv, LateOK, KillLatency
<1> QED
  BY <1>1, OSInvariance, PTL

\* A process just dispatched begins a whole slice.
THEOREM SliceIsFresh == OSSpec => []FreshSlice
<1>1. OSInv => FreshSlice
  BY DEF OSInv, ThreadOK, FreshSlice
<1> QED
  BY <1>1, OSInvariance, PTL

-----------------------------------------------------------------------------
(* No process is left behind when the CPUs stop.                           *)

\* A CPU stops without a process and after done; one that waits in next_slot
\* is at the head of its loop; only a CPU in killall has victims.
StopOK(c) ==
    /\ pc[c] \in {"detach", "stopped"} => proc[c] = NULL /\ done
    /\ dev[c] = "waiting" => pc[c] = "top"
    /\ dev[c] = "finished" => pc[c] = "stopped"
    /\ victims[c] # <<>> => pc[c] \in {"kill", "reap"}

\* The loader has loaded what lies before its index, and sets done at the end.
LoadOK ==
    /\ done => ld \in {"detach", "stopped"}
    /\ ld \in {"done", "detach", "stopped"} => ld_i = Len(path) + 1
    /\ \A k \in 1 .. Len(path) :
          k < ld_i \/ (k = ld_i /\ ld = "slot") => pcb[path[k]] # "unloaded"

\* The slot after the one of the last add_proc has begun.
AllLoaded ==
    (ld = "done" /\ dev[Loader] = "working") \/ ld \in {"detach", "stopped"}

\* The CPU has found the queues empty, and will stop if done is set.
Quits(c) ==
    pc[c] \in {"detach", "stopped"} \/ (pc[c] = "recheck" /\ proc[c] = NULL)

\* Once everything is loaded, not all CPUs find nothing to do while a process
\* is left: the last of them would have found it.
OneStays ==
    AllLoaded /\ (\E p \in Proc : pcb[p] # "freed") => \E c \in Cpu : ~ Quits(c)

StayInv == (\A c \in Cpu : StopOK(c)) /\ LoadOK /\ OneStays

LEMMA StayInit == OSInit => StayInv
<1> SUFFICES ASSUME OSInit PROVE StayInv
  OBVIOUS
<1>1. \A c \in Cpu : StopOK(c)
  BY OSAssumption DEF OSInit, Init, ClockInit, StopOK
<1>2. LoadOK
  <2>1. path = <<>> => Len(path) = 0
    OBVIOUS
  <2>2. Len(path) \in Nat
    BY OSAssumption
  <2> QED
    BY <2>1, <2>2 DEF OSInit, LoadOK
<1>3. OneStays
  <2>1. ASSUME AllLoaded, NEW p \in Proc PROVE FALSE
    <3>1. path = <<>>
      BY <2>1 DEF OSInit, AllLoaded
    <3> QED
      BY <3>1, OSAssumption, NothingInEmpty
  <2> QED
    BY <2>1 DEF OneStays
<1> QED
  BY <1>1, <1>2, <1>3 DEF StayInv

\* Only the CPU's own killall changes its victims, and no process is unloaded.
LEMMA VictimFrame ==
    ASSUME IInv, NEW d \in Cpu, CpuNext(d)
    PROVE  /\ \A c \in Cpu : c # d => victims'[c] = victims[c]
           /\ \A p \in Proc : pcb[p] # "unloaded" => pcb'[p] # "unloaded"
<1>1. ASSUME UNCHANGED victims \/ \E v : victims' = [victims EXCEPT ![d] = v],
             \/ UNCHANGED pcb
             \/ \E p, s : s # "unloaded" /\ pcb' = [pcb EXCEPT ![p] = s]
      PROVE  /\ \A c \in Cpu : c # d => victims'[c] = victims[c]
             /\ \A p \in Proc : pcb[p] # "unloaded" => pcb'[p] # "unloaded"
  BY <1>1 DEF IInv, TypeOK
<1>2. CASE get_proc(d) \/ put_proc(d) \/ kill_unlock(d)
           \/ \E n \in Names : kill_lock(d, n)
  <2>1. UNCHANGED <<victims, pcb>>
    BY <1>2 DEF get_proc, put_proc, kill_unlock, kill_lock
  <2> QED
    BY <1>1, <2>1, Zenon
<1>3. CASE finish_proc(d) \/ free_pcb(d) \/ free_victim(d)
  <2>1. /\ UNCHANGED victims \/ \E v : victims' = [victims EXCEPT ![d] = v]
        /\ \E p, s : s \in {"delisted", "freed"} /\ pcb' = [pcb EXCEPT ![p] = s]
    BY <1>3, Zenon DEF finish_proc, free_pcb, free_victim
  <2> QED
    BY <1>1, <2>1
<1>4. CASE kill_step(d)
  <2>1. /\ UNCHANGED victims \/ \E v : victims' = [victims EXCEPT ![d] = v]
        /\ \/ UNCHANGED pcb
           \/ \E p : pcb' = [pcb EXCEPT ![p] = "delisted"]
    BY <1>4, Zenon DEF kill_step, KillSkip, KillMark, KillTake
  <2> QED
    BY <1>1, <2>1
<1> QED
  BY <1>2, <1>3, <1>4 DEF CpuNext

\* So a step of CPU d leaves the other CPUs' points, processes and victims.
LEMMA StayFrame ==
    ASSUME OSInv, NEW d \in Cpu, CpuStep(d)
    PROVE  /\ \A c \in Cpu : c # d =>
                 /\ pc'[c] = pc[c] /\ proc'[c] = proc[c] /\ dev'[c] = dev[c]
                 /\ victims'[c] = victims[c]
           /\ \A p \in Proc : pcb[p] # "unloaded" => pcb'[p] # "unloaded"
           /\ UNCHANGED ldvars
           /\ dev'[Loader] = dev[Loader]
<1>1. /\ \A c \in Cpu : c # d => victims'[c] = victims[c]
      /\ \A p \in Proc : pcb[p] # "unloaded" => pcb'[p] # "unloaded"
  <2>1. CASE CpuNext(d)
    BY <2>1, VictimFrame DEF OSInv
  <2>2. CASE UNCHANGED vars
    BY <2>2 DEF vars
  <2> QED
    BY <2>1, <2>2, CpuStepIsSched
<1>2. /\ \A c \in Cpu : c # d => pc'[c] = pc[c] /\ proc'[c] = proc[c]
      /\ UNCHANGED ldvars
  BY OthersKept DEF SchedFrame
<1>3. \A e \in Dev : e # d => dev'[e] = dev[e]
  BY CpuStepShape DEF CpuShape, Arrive, Detach, OSInv, OSTypeOK
<1>4. Loader \in Dev /\ Loader # d /\ \A c \in Cpu : c \in Dev
  BY OSAssumption
<1> QED
  BY <1>1, <1>2, <1>3, <1>4

\* A CPU comes to stop only through the second chain of tests.
LEMMA StopStep ==
    ASSUME OSInv, StayInv, NEW d \in Cpu, CpuStep(d)
    PROVE  StopOK(d)'
<1> USE DEF At, Goto
<1>1. /\ pc \in [Cpu -> CpuState] /\ d \in Dev
      /\ dev \in [Dev -> {"working", "waiting", "finished"}]
      /\ victims \in [Cpu -> Seq(Proc)] /\ proc \in [Cpu -> Proc \cup {NULL}]
      /\ StopOK(d)
  BY OSAssumption DEF OSInv, OSTypeOK, IInv, TypeOK, StayInv
<1>2. ASSUME pc'[d] \notin {"detach", "stopped"}, dev'[d] = "working",
             victims'[d] # <<>> => pc'[d] \in {"kill", "reap"}
      PROVE  StopOK(d)'
  BY <1>2 DEF StopOK
<1>3. CASE Load(d) \/ Check(d) \/ Finish(d) \/ Free(d) \/ Put(d) \/ Get(d)
           \/ Run(d)
  <2>1. /\ dev'[d] = "working" /\ pc[d] \notin {"kill", "reap"}
        /\ UNCHANGED victims
    BY <1>3 DEF Load, Check, Finish, Free, Put, Get, Run, clockvars, vars,
                get_proc, finish_proc, free_pcb, put_proc
  <2>2. pc'[d] \notin {"detach", "stopped"}
    BY <1>1, <1>3 DEF Load, Check, Test, Finish, Free, Put, Get, Run
  <2> QED
    BY <1>1, <1>2, <2>1, <2>2 DEF StopOK
<1>4. CASE Call(d)
  <2>1. dev'[d] = "working" /\ pc'[d] = "kill"
    BY <1>1, <1>4, Zenon DEF Call, clockvars
  <2> QED
    BY <1>2, <2>1
<1>5. CASE Kill(d)
  <2>1. dev'[d] = "working" /\ pc'[d] \in {"kill", "reap"}
    BY <1>1, <1>5, Zenon DEF Kill, clockvars
  <2> QED
    BY <1>2, <2>1
<1>6. CASE Reap(d)
  <2>1. dev'[d] = "working"
    BY <1>6 DEF Reap, clockvars
  <2>2. pc'[d] = "reap" \/ (pc'[d] = "slot" /\ victims'[d] = <<>>)
    BY <1>1, <1>6 DEF Reap, vars
  <2> QED
    BY <1>2, <2>1, <2>2
<1>7. CASE Recheck(d)
  <2>1. /\ dev'[d] = "working" /\ victims'[d] = <<>>
        /\ UNCHANGED <<proc, done>>
    BY <1>1, <1>7 DEF Recheck, clockvars, vars, ldvars, StopOK
  <2>2. pc'[d] = IF proc[d] # NULL THEN "run" ELSE IF done THEN "detach" ELSE "slot"
    BY <1>1, <1>7, Zenon DEF Recheck
  <2> QED
    BY <2>1, <2>2 DEF StopOK
<1>8. CASE NextSlot(d)
  <2>1. dev'[d] = "waiting" /\ pc'[d] = "top" /\ victims'[d] = <<>>
    BY <1>1, <1>8 DEF NextSlot, Arrive, vars, StopOK
  <2> QED
    BY <2>1 DEF StopOK
<1>9. CASE CpuDetach(d)
  <2>1. /\ dev'[d] = "finished" /\ pc[d] = "detach" /\ pc'[d] = "stopped"
        /\ victims'[d] = <<>> /\ UNCHANGED <<proc, done>>
    BY <1>1, <1>9 DEF CpuDetach, Detach, vars, ldvars, StopOK
  <2> QED
    BY <1>1, <2>1 DEF StopOK
<1> QED
  BY <1>3, <1>4, <1>5, <1>6, <1>7, <1>8, <1>9 DEF CpuStep

\* When everything is loaded, every process has been loaded.
LEMMA NoneUnloaded ==
    ASSUME OSInv, LoadOK, AllLoaded, NEW p \in Proc
    PROVE  pcb[p] # "unloaded"
<1>1. PICK k \in 1 .. Len(path) : path[k] = p
  BY OSAssumption DEF InQueue
<1>2. ld_i = Len(path) + 1 /\ Len(path) \in Nat
  BY OSAssumption DEF LoadOK, AllLoaded
<1>3. k < ld_i
  BY <1>1, <1>2
<1> QED
  BY <1>1, <1>3 DEF LoadOK

\* A process that get_proc does not find is with another CPU, which has not
\* come to its last get_proc.
LEMMA GetMissesBusy ==
    ASSUME OSInv, NothingLost, Reaped, StayInv, AllLoaded, NEW d \in Cpu,
           get_proc(d), proc'[d] = NULL, NEW p \in Proc, pcb[p] # "freed"
    PROVE  \E c \in Cpu : c # d /\ ~ Quits(c)
<1>1. proc[d] = NULL /\ pcb[p] \in {"live", "delisted"}
  BY NoneUnloaded DEF get_proc, StayInv, OSInv, IInv, TypeOK, PcbState
<1>2. \A i \in Level : mlq_ready_queue[i] = <<>>
  <2>1. GetNothing(d)
    <3>1. ASSUME NEW l \in Level, NEW u, Dispatch(d, l, u),
                 mlq_ready_queue[l] # <<>>
          PROVE  FALSE
      <4>1. Head(mlq_ready_queue[l]) \in Proc
        <5>1. mlq_ready_queue[l] \in Seq(Proc)
          BY DEF OSInv, IInv, TypeOK
        <5> QED
          BY <3>1, <5>1
      <4>2. proc'[d] = Head(mlq_ready_queue[l])
        BY <3>1 DEF Dispatch, dequeue_head, OSInv, IInv, TypeOK
      <4> QED
        BY <4>1, <4>2, SchedAssumption
    <3> QED
      BY <3>1 DEF get_proc, GetThisRound, GetNextRound, First, Ready, empty
  <2>2. \A i \in Level : ResetSlots[i] < slot(i)
    BY SchedAssumption DEF ResetSlots, slot, Level
  <2> QED
    BY <2>1, <2>2 DEF GetNothing, Ready, empty
<1>3. \E c \in Cpu : proc[c] = p \/ victims[c] # <<>>
  <2>1. CASE pcb[p] = "live"
    BY <1>2, <2>1, PrioIsLevel, NothingInEmpty DEF NothingLost
  <2>2. CASE pcb[p] = "delisted"
    BY <2>2, NothingInEmpty DEF Reaped
  <2> QED
    BY <1>1, <2>1, <2>2
<1>4. PICK c \in Cpu : proc[c] = p \/ victims[c] # <<>>
  BY <1>3
<1>5. proc[c] # NULL
  BY <1>4, SchedAssumption DEF StayInv, StopOK, OSInv, ThreadOK, Busy
<1>6. c # d /\ ~ Quits(c)
  BY <1>1, <1>5 DEF Quits, StayInv, StopOK
<1> QED
  BY <1>6

LEMMA StayCpu ==
    ASSUME OSInv, NothingLost, Reaped, StayInv, NEW d \in Cpu, CpuStep(d)
    PROVE  StayInv'
<1>1. \A c \in Cpu : StopOK(c)'
  <2> TAKE c \in Cpu
  <2>1. CASE c # d
    <3>1. StopOK(c)
      BY DEF StayInv
    <3>2. /\ pc'[c] = pc[c] /\ proc'[c] = proc[c] /\ dev'[c] = dev[c]
          /\ victims'[c] = victims[c] /\ done' = done
      BY <2>1, StayFrame DEF ldvars
    <3> QED
      BY <3>1, <3>2, Zenon DEF StopOK
  <2> QED
    BY <2>1, StopStep
<1>2. LoadOK'
  <2>1. \A k \in 1 .. Len(path) : path[k] \in Proc
    BY OSAssumption
  <2> QED
    BY <2>1, StayFrame DEF StayInv, LoadOK, ldvars
<1>3. OneStays'
  <2> SUFFICES ASSUME AllLoaded', NEW p \in Proc, pcb'[p] # "freed", Quits(d)'
               PROVE  \E c \in Cpu : ~ Quits(c)'
    BY DEF OneStays
  <2>1. AllLoaded
    BY StayFrame DEF AllLoaded, ldvars
  <2>2. \A c \in Cpu : c # d => (Quits(c)' <=> Quits(c))
    BY StayFrame DEF Quits
  <2>3. pc \in [Cpu -> CpuState]
    BY DEF OSInv, OSTypeOK
  <2>4. CASE Get(d)
    <3>1. get_proc(d) /\ pc'[d] = "recheck" /\ UNCHANGED pcb
      BY <2>3, <2>4 DEF Get, Goto, get_proc
    <3>2. proc'[d] = NULL
      BY <3>1 DEF Quits
    <3> QED
      BY <2>1, <2>2, <3>1, <3>2, GetMissesBusy
  <2>5. CASE Recheck(d) \/ CpuDetach(d)
    <3>1. UNCHANGED <<proc, pcb>>
      BY <2>5 DEF Recheck, CpuDetach, vars
    <3>2. Quits(d)
      BY <2>3, <2>5, <3>1 DEF Recheck, CpuDetach, At, Goto, Quits
    <3> QED
      BY <2>1, <2>2, <3>1, <3>2 DEF StayInv, OneStays
  <2>6. CASE ~ (Get(d) \/ Recheck(d) \/ CpuDetach(d))
    <3>1. CASE Load(d)
      BY <2>3, <3>1 DEF Load, Goto, Quits
    <3>2. CASE Check(d) \/ Finish(d) \/ Free(d) \/ Put(d) \/ Run(d)
      BY <2>3, <3>2 DEF Check, Test, Finish, Free, Put, Run, Goto, Quits
    <3>3. CASE Call(d) \/ Kill(d) \/ Reap(d) \/ NextSlot(d)
      <4>1. pc'[d] \in {"kill", "reap", "slot", "top"}
        BY <2>3, <3>3, Zenon DEF Call, Kill, Reap, NextSlot, At, Goto
      <4> QED
        BY <4>1 DEF Quits
    <3> QED
      BY <2>6, <3>1, <3>2, <3>3 DEF CpuStep
  <2> QED
    BY <2>4, <2>5, <2>6
<1> QED
  BY <1>1, <1>2, <1>3 DEF StayInv

LEMMA StayLoader ==
    ASSUME OSInv, StayInv, LdStep
    PROVE  StayInv'
<1>1. UNCHANGED <<pc, proc, victims>>
  BY Zenon DEF LdStep, LdWait, LdAdd, LdNextSlot, LdDone, LdDetach, cpuvars, vars,
               add_proc
<1>2. /\ \A c \in Cpu : dev'[c] = dev[c]
      /\ dev[Loader] = "working" /\ dev \in [Dev -> {"working", "waiting", "finished"}]
  <2>1. /\ UNCHANGED dev \/ Arrive(Loader) \/ Detach(Loader)
        /\ dev[Loader] = "working"
    BY Zenon DEF LdStep, LdWait, LdAdd, LdNextSlot, LdDone, LdDetach, clockvars,
                 LdAt
  <2> QED
    BY <2>1, OSAssumption DEF Arrive, Detach, OSInv, OSTypeOK
<1>3. done => done'
  BY Zenon DEF LdStep, LdWait, LdAdd, LdNextSlot, LdDone, LdDetach, ldvars
<1>4. \A c \in Cpu : StopOK(c)'
  BY <1>1, <1>2, <1>3 DEF StayInv, StopOK
<1>5. CASE LdAdd
  <2>1. /\ ld = "load" /\ ld' = "slot" /\ UNCHANGED <<done, ld_i>>
        /\ pcb' = [pcb EXCEPT ![path[ld_i]] = "live"]
    BY <1>5 DEF LdAdd, LdAt, add_proc
  <2>2. pcb \in [Proc -> PcbState] /\ \A k \in 1 .. Len(path) : path[k] \in Proc
    BY OSAssumption DEF OSInv, IInv, TypeOK
  <2>3. \A k \in 1 .. Len(path) :
          k < ld_i \/ k = ld_i => pcb'[path[k]] # "unloaded"
    BY <2>1, <2>2 DEF StayInv, LoadOK
  <2> QED
    BY <1>4, <2>1, <2>3 DEF StayInv, LoadOK, OneStays, AllLoaded
<1>6. CASE LdNextSlot
  <2>1. /\ ld = "slot" /\ ld_i' = ld_i + 1 /\ UNCHANGED <<done, pcb>>
        /\ ld' = IF ld_i = Len(path) THEN "done" ELSE "load"
        /\ dev'[Loader] = "waiting"
    BY <1>2, <1>6, OSAssumption
    DEF LdNextSlot, LdAt, AfterLoad, Arrive, vars
  <2>2. Len(path) \in Nat /\ ld_i \in Nat
    BY OSAssumption DEF OSInv, LdOK
  <2>3. LoadOK'
    BY <2>1, <2>2 DEF StayInv, LoadOK
  <2> QED
    BY <1>4, <2>1, <2>3 DEF StayInv, OneStays, AllLoaded
<1>7. CASE LdWait
  <2>1. ld = "load" /\ UNCHANGED <<ld, ld_i, done, pcb>>
    BY <1>7 DEF LdWait, LdAt, vars, ldvars
  <2> QED
    BY <1>4, <2>1 DEF StayInv, LoadOK, OneStays, AllLoaded
<1>8. CASE LdDone \/ LdDetach
  <2>1. /\ UNCHANGED <<ld_i, pcb>> /\ ld \in {"done", "detach"}
        /\ ld' \in {"detach", "stopped"}
        /\ AllLoaded
    BY <1>8 DEF LdDone, LdDetach, LdAt, vars, AllLoaded
  <2>2. LoadOK'
    BY <2>1 DEF StayInv, LoadOK
  <2>3. OneStays'
    BY <1>1, <2>1 DEF StayInv, OneStays, Quits
  <2> QED
    BY <1>4, <2>2, <2>3 DEF StayInv
<1> QED
  BY <1>5, <1>6, <1>7, <1>8 DEF LdStep

\* The tick that begins the loader's last slot finds every CPU in next_slot.
LEMMA StayTimer ==
    ASSUME Cpu # {}, OSInv, StayInv, TimerStep
    PROVE  StayInv'
<1>1. /\ UNCHANGED <<pc, proc, victims, pcb, done, ld, ld_i>>
      /\ \A c \in Cpu : c \in Dev
      /\ dev \in [Dev -> {"working", "waiting", "finished"}]
  BY OSAssumption DEF TimerStep, cpuvars, ldvars, vars, OSInv, OSTypeOK
<1>2. LoadOK'
  BY <1>1 DEF StayInv, LoadOK
<1>3. CASE Stop
  <2>1. UNCHANGED dev
    BY <1>3 DEF Stop
  <2> QED
    BY <1>1, <1>2, <2>1 DEF StayInv, StopOK, OneStays, AllLoaded, Quits
<1>4. CASE Tick
  <2>1. \A e \in Dev : /\ dev[e] # "working"
                       /\ dev'[e] = IF dev[e] = "waiting" THEN "working" ELSE dev[e]
    BY <1>4 DEF Tick
  <2>2. \A c \in Cpu : StopOK(c)'
    BY <1>1, <2>1 DEF StayInv, StopOK
  <2>3. OneStays'
    <3> SUFFICES ASSUME AllLoaded', NEW p \in Proc, pcb'[p] # "freed"
                 PROVE  \E c \in Cpu : ~ Quits(c)'
      BY DEF OneStays
    <3>1. CASE ld \in {"detach", "stopped"}
      BY <1>1, <3>1 DEF StayInv, OneStays, AllLoaded, Quits
    <3>2. CASE ld \notin {"detach", "stopped"}
      <4>1. ~ done
        BY <3>2 DEF StayInv, LoadOK
      <4>2. \A c \in Cpu : pc[c] = "top"
        BY <1>1, <2>1, <4>1 DEF StayInv, StopOK
      <4> QED
        BY <1>1, <4>2 DEF Quits
    <3> QED
      BY <3>1, <3>2
  <2> QED
    BY <1>2, <2>2, <2>3 DEF StayInv
<1> QED
  BY <1>3, <1>4 DEF TimerStep

LEMMA StayStep ==
    ASSUME Cpu # {}, OSInv, NothingLost, Reaped, StayInv, [OSNext]_osvars
    PROVE  StayInv'
<1>1. CASE UNCHANGED osvars
  BY <1>1 DEF osvars, vars, clockvars, StayInv, StopOK, LoadOK, OneStays,
              AllLoaded, Quits
<1> QED
  BY <1>1, StayCpu, StayLoader, StayTimer DEF OSNext

\* No process that has been loaded is lost in the simulator as a whole.
THEOREM OSNobodyLost ==
    ASSUME LevelsFit
    PROVE  OSSpec => [](NothingLost /\ Reaped)
  BY SchedImplemented, NobodyLost, PTL

\* The CPUs do not all stop while a process waits, however the loader's last
\* add_proc, its done flag and the CPUs' last get_proc interleave; provided
\* there is a CPU and enqueue() has room for every process.
THEOREM AllServed ==
    ASSUME Cpu # {}, LevelsFit
    PROVE  OSSpec => []NobodyLeftBehind
<1>1. OSInv /\ (NothingLost /\ Reaped) /\ StayInv /\ [OSNext]_osvars => StayInv'
  BY StayStep
<1>2. StayInv => NobodyLeftBehind
  <2> SUFFICES ASSUME StayInv, \A c \in Cpu : pc[c] \in {"detach", "stopped"}
               PROVE  \A p \in Proc : pcb[p] = "freed"
    BY DEF NobodyLeftBehind
  <2>1. done
    BY DEF StayInv, StopOK
  <2>2. AllLoaded
    BY <2>1 DEF StayInv, LoadOK, AllLoaded
  <2> QED
    BY <2>2 DEF StayInv, OneStays, Quits
<1> QED
  BY <1>1, <1>2, StayInit, OSInvariance, OSNobodyLost, PTL DEF OSSpec

-----------------------------------------------------------------------------
(* The scheduler refuses no call.                                          *)

\* The processes the loader has still to add are unloaded.
StillToLoad ==
    \A k \in 1 .. Len(path) :
       k > ld_i \/ (k = ld_i /\ ld = "load") => pcb[path[k]] = "unloaded"

\* OSInv with what each call of a thread expects: CallExpects also ties the walk
\* of killall to queue_lock, which OSInv leaves open.
CallInv == OSInv /\ (\A c \in Cpu : CallExpects(c)) /\ StillToLoad

LEMMA CallInit == OSInit => CallInv
<1> SUFFICES ASSUME OSInit PROVE CallInv
  OBVIOUS
<1>1. \A c \in Cpu : CallExpects(c)
  BY SchedAssumption DEF OSInit, Init, CallExpects
<1>2. \A k \in 1 .. Len(path) : path[k] \in Proc
  BY OSAssumption
<1>3. StillToLoad
  BY <1>2 DEF OSInit, Init, StillToLoad
<1> QED
  BY <1>1, <1>3, OSInvInit DEF CallInv

\* What an operation of CPU d leaves alone: whether another CPU has queue_lock, the
\* victims of the other CPUs, and the processes that are not loaded.
CallFrame(d) ==
    /\ \A c \in Cpu : c # d => (queue_lock' = c <=> queue_lock = c)
    /\ \A c \in Cpu : c # d => victims'[c] = victims[c]
    /\ \A p \in Proc : pcb[p] = "unloaded" => pcb'[p] = "unloaded"

LEMMA CallFrames ==
    ASSUME IInv, NEW d \in Cpu, CpuNext(d) PROVE CallFrame(d)
<1>1. \A c \in Cpu : c # d => (queue_lock' = c <=> queue_lock = c)
  <2>1. \/ UNCHANGED queue_lock
        \/ queue_lock = NULL /\ queue_lock' = d
        \/ queue_lock = d /\ queue_lock' = NULL
    BY Zenon DEF CpuNext, get_proc, put_proc, finish_proc, free_pcb, kill_lock,
                 kill_step, KillSkip, KillMark, KillTake, kill_unlock, free_victim
  <2> QED
    BY <2>1, SchedAssumption
<1>2. \A c \in Cpu : c # d => victims'[c] = victims[c]
  BY VictimFrame
<1>3. ASSUME NEW p \in Proc, pcb[p] = "unloaded" PROVE pcb'[p] = "unloaded"
  <2>1. ASSUME NEW q, pcb[q] # "unloaded", NEW s, pcb' = [pcb EXCEPT ![q] = s]
        PROVE  pcb'[p] = "unloaded"
    BY <1>3, <2>1 DEF IInv, TypeOK
  <2>2. CASE get_proc(d) \/ put_proc(d) \/ kill_unlock(d)
             \/ \E n \in Names : kill_lock(d, n)
    BY <1>3, <2>2, Zenon DEF get_proc, put_proc, kill_unlock, kill_lock
  <2>3. CASE finish_proc(d) \/ free_pcb(d)
    <3>1. /\ pcb[proc[d]] # "unloaded"
          /\ \E s : pcb' = [pcb EXCEPT ![proc[d]] = s]
      BY <2>3 DEF finish_proc, free_pcb
    <3> QED
      BY <2>1, <3>1, Zenon
  <2>4. CASE free_victim(d)
    <3>1. /\ victims[d] # <<>> /\ victims[d] \in Seq(Proc)
          /\ pcb' = [pcb EXCEPT ![Head(victims[d])] = "freed"]
      BY <2>4 DEF free_victim, IInv, TypeOK
    <3>2. InQueue(victims[d], Head(victims[d])) /\ Head(victims[d]) \in Proc
      BY <3>1, TailFacts DEF IInv, VictimInv
    <3>3. pcb[Head(victims[d])] # "unloaded"
      BY <3>2 DEF IInv, VictimInv
    <3> QED
      BY <2>1, <3>1, <3>3, Zenon
  <2>5. CASE kill_step(d)
    <3> DEFINE q == running_list[scan.i]
    <3>1. q \in Proc /\ (KillSkip(d, q) \/ KillMark(d, q) \/ KillTake(d, q))
      BY <2>5 DEF kill_step, IInv, TypeOK
    <3>2. CASE KillSkip(d, q) \/ KillMark(d, q)
      BY <1>3, <3>2, Zenon DEF KillSkip, KillMark
    <3>3. CASE KillTake(d, q)
      <4>1. /\ InQueue(mlq_ready_queue[prio(q)], q)
            /\ pcb' = [pcb EXCEPT ![q] = "delisted"]
        BY <3>3 DEF KillTake
      <4>2. pcb[q] # "unloaded"
        BY <3>1, <4>1, PrioIsLevel DEF IInv, QueueInv
      <4> QED
        BY <2>1, <4>1, <4>2, Zenon
    <3> QED
      BY <3>1, <3>2, <3>3
  <2> QED
    BY <2>2, <2>3, <2>4, <2>5 DEF CpuNext
<1> QED
  BY <1>1, <1>2, <1>3 DEF CallFrame

\* CPU d comes to each call as the call expects it.
LEMMA CallStep ==
    ASSUME CallInv, NEW d \in Cpu, CpuStep(d) PROVE CallExpects(d)'
<1> USE DEF At, Goto
<1>1. /\ pc \in [Cpu -> CpuState] /\ CallExpects(d) /\ ThreadOK(d)'
      /\ proc \in [Cpu -> Proc \cup {NULL}] /\ pcb \in [Proc -> PcbState]
      /\ victims \in [Cpu -> Seq(Proc)] /\ d # NULL /\ NULL \notin Proc
  BY ThreadStep, SchedAssumption DEF CallInv, OSInv, OSTypeOK, IInv, TypeOK
<1>0. pc'[d] \notin {"top", "stopped"} => dev'[d] = "working"
  <2>1. CASE NextSlot(d) \/ CpuDetach(d)
    BY <1>1, <2>1 DEF NextSlot, CpuDetach
  <2>2. CASE ~ (NextSlot(d) \/ CpuDetach(d))
    BY <2>2, Zenon DEF CpuStep, Load, Check, Finish, Free, Put, Get, Recheck, Run,
                       Call, Kill, Reap, clockvars
  <2> QED
    BY <2>1, <2>2
<1>2. ASSUME pc'[d] = "free" => pcb'[proc'[d]] = "delisted",
             pc'[d] = "get" => proc'[d] = NULL,
             pc'[d] = "kill" <=> queue_lock' = d,
             victims'[d] # <<>> => pc'[d] \in {"kill", "reap"}
      PROVE  CallExpects(d)'
  <2>1. /\ pc'[d] \in Busy => proc'[d] # NULL
        /\ proc'[d] # NULL /\ pc'[d] # "free" => pcb'[proc'[d]] = "live"
    BY <1>1 DEF ThreadOK
  <2> QED
    BY <1>0, <1>2, <2>1 DEF CallExpects, Busy
\* A step outside killall: queue_lock is not the CPU's, and it has no victims.
<1>3. ASSUME pc[d] \notin {"kill", "reap"}, UNCHANGED <<queue_lock, victims>>,
             pc'[d] # "kill",
             pc'[d] = "free" => pcb'[proc'[d]] = "delisted",
             pc'[d] = "get" => proc'[d] = NULL
      PROVE  CallExpects(d)'
  <2>1. queue_lock' # d /\ victims'[d] = <<>>
    BY <1>1, <1>3 DEF CallExpects
  <2> QED
    BY <1>2, <1>3, <2>1
<1>4. CASE Load(d) \/ Get(d)
  <2>1. /\ pc[d] \in {"top", "get"} /\ pc'[d] \in {"slot", "recheck"}
        /\ UNCHANGED <<queue_lock, victims>>
    BY <1>1, <1>4 DEF Load, Get, get_proc
  <2> QED
    BY <1>3, <2>1
<1>5. CASE Check(d)
  <2>1. /\ pc[d] = "top" /\ pc'[d] \in {"finish", "put", "run"}
        /\ UNCHANGED <<queue_lock, victims>>
    BY <1>1, <1>5 DEF Check, Test, vars
  <2> QED
    BY <1>3, <2>1
<1>6. CASE Finish(d)
  <2>1. /\ pc[d] = "finish" /\ pc'[d] = "free" /\ UNCHANGED <<queue_lock, victims, proc>>
        /\ proc[d] # NULL /\ pcb' = [pcb EXCEPT ![proc[d]] = "delisted"]
    BY <1>1, <1>6 DEF Finish, finish_proc
  <2>2. pcb'[proc'[d]] = "delisted"
    BY <1>1, <2>1
  <2> QED
    BY <1>3, <2>1, <2>2
<1>7. CASE Free(d) \/ Put(d)
  <2>1. /\ pc[d] \in {"free", "put"} /\ pc'[d] = "get" /\ proc'[d] = NULL
        /\ UNCHANGED <<queue_lock, victims>>
    BY <1>1, <1>7 DEF Free, free_pcb, Put, put_proc
  <2> QED
    BY <1>3, <2>1
<1>8. CASE Recheck(d) \/ Run(d) \/ NextSlot(d) \/ CpuDetach(d)
  <2>1. /\ pc[d] \in {"recheck", "run", "slot", "detach"}
        /\ pc'[d] \in {"run", "detach", "slot", "call", "top", "stopped"}
        /\ UNCHANGED <<queue_lock, victims>>
    BY <1>1, <1>8 DEF Recheck, Run, NextSlot, CpuDetach, vars
  <2> QED
    BY <1>3, <2>1
<1>9. CASE Call(d)
  <2>1. /\ pc'[d] = "kill" /\ queue_lock' = d
    BY <1>1, <1>9, Zenon DEF Call, kill_lock
  <2> QED
    BY <1>2, <2>1
<1>10. CASE Kill(d)
  <2>1. \/ pc'[d] = "kill" /\ queue_lock' = d
        \/ pc'[d] = "reap" /\ queue_lock' = NULL
    BY <1>1, <1>10 DEF Kill, kill_step, KillSkip, KillMark, KillTake, kill_unlock
  <2> QED
    BY <1>1, <1>2, <2>1
<1>11. CASE Reap(d)
  <2>1. /\ pc[d] = "reap" /\ UNCHANGED queue_lock
        /\ pc'[d] = "reap" \/ (pc'[d] = "slot" /\ victims'[d] = <<>>)
    BY <1>1, <1>11 DEF Reap, free_victim, vars
  <2>2. queue_lock' # d
    BY <1>1, <2>1 DEF CallExpects
  <2> QED
    BY <1>2, <2>1, <2>2
<1> QED
  BY <1>4, <1>5, <1>6, <1>7, <1>8, <1>9, <1>10, <1>11 DEF CpuStep

\* A step of one CPU spoils no call of another thread.
LEMMA CallCpu ==
    ASSUME CallInv, NEW d \in Cpu, CpuStep(d)
    PROVE  (\A c \in Cpu : CallExpects(c)') /\ StillToLoad'
<1>1. CallFrame(d)
  <2>1. CASE UNCHANGED vars
    BY <2>1 DEF vars, CallFrame
  <2> QED
    BY <2>1, CallFrames, CpuStepIsSched DEF CallInv, OSInv
<1>2. /\ SchedFrame(d) /\ UNCHANGED ldvars
      /\ \A c \in Cpu : c # d => pc'[c] = pc[c]
  BY OthersKept DEF CallInv
<1>3. ASSUME NEW c \in Cpu, c # d PROVE CallExpects(c)'
  <2>0. dev'[c] = dev[c]
    BY <1>3, StayFrame DEF CallInv
  <2>1. /\ proc'[c] = proc[c] /\ pc'[c] = pc[c] /\ victims'[c] = victims[c]
        /\ queue_lock' = c <=> queue_lock = c
        /\ proc[c] # NULL => pcb'[proc[c]] = pcb[proc[c]]
    BY <1>1, <1>2, <1>3 DEF SchedFrame, CallFrame
  <2>2. CallExpects(c)
    BY DEF CallInv
  <2> QED
    BY <2>0, <2>1, <2>2 DEF CallExpects
<1>4. StillToLoad'
  <2>1. \A k \in 1 .. Len(path) : path[k] \in Proc
    BY OSAssumption
  <2> QED
    BY <1>1, <1>2, <2>1 DEF CallInv, StillToLoad, CallFrame, ldvars
<1> QED
  BY <1>3, <1>4, CallStep

\* The loader adds each process of path once; it touches no process of a CPU.
LEMMA CallLoader ==
    ASSUME CallInv, LdStep
    PROVE  (\A c \in Cpu : CallExpects(c)') /\ StillToLoad'
<1>1. /\ UNCHANGED <<pc, proc, queue_lock, victims>>
  BY Zenon DEF LdStep, LdWait, LdAdd, LdNextSlot, LdDone, LdDetach, cpuvars, vars,
               add_proc
<1>0. \A c \in Cpu : dev'[c] = dev[c]
  <2>1. UNCHANGED dev \/ Arrive(Loader) \/ Detach(Loader)
    BY Zenon DEF LdStep, LdWait, LdAdd, LdNextSlot, LdDone, LdDetach, clockvars
  <2> QED
    BY <2>1, OSAssumption DEF Arrive, Detach, CallInv, OSInv, OSTypeOK
<1>2. /\ Len(path) \in Nat /\ ld_i \in Nat /\ pcb \in [Proc -> PcbState]
      /\ proc \in [Cpu -> Proc \cup {NULL}]
      /\ \A k \in 1 .. Len(path) : path[k] \in Proc
      /\ \A j, k \in 1 .. Len(path) : path[j] = path[k] => j = k
      /\ ld = "load" => ld_i \in 1 .. Len(path)
  BY OSAssumption DEF CallInv, OSInv, LdOK, IInv, TypeOK, NoDuplicates
<1>3. CASE LdAdd
  <2> DEFINE q == path[ld_i]
  <2>1. /\ ld = "load" /\ ld' = "slot" /\ UNCHANGED ld_i /\ q \in Proc
        /\ pcb[q] = "unloaded" /\ pcb' = [pcb EXCEPT ![q] = "live"]
    BY <1>2, <1>3 DEF LdAdd, LdAt, add_proc
  <2>2. \A c \in Cpu : proc[c] # NULL => pcb'[proc[c]] = pcb[proc[c]]
    <3>1. \A c \in Cpu : proc[c] # NULL => proc[c] # q
      BY <2>1 DEF CallInv, OSInv, IInv, CpuInv
    <3> QED
      BY <1>2, <2>1, <3>1
  <2>3. \A c \in Cpu : CallExpects(c)'
    BY <1>0, <1>1, <2>2 DEF CallInv, CallExpects
  <2>4. StillToLoad'
    <3>1. ASSUME NEW k \in 1 .. Len(path), k > ld_i PROVE pcb'[path[k]] = "unloaded"
      <4>1. path[k] \in Proc /\ path[k] # q /\ pcb[path[k]] = "unloaded"
        BY <1>2, <2>1, <3>1 DEF CallInv, StillToLoad
      <4> QED
        BY <1>2, <2>1, <4>1
    <3> QED
      BY <2>1, <3>1 DEF StillToLoad
  <2> QED
    BY <2>3, <2>4
<1>4. CASE ~ LdAdd
  <2>1. UNCHANGED pcb
    BY <1>4, Zenon DEF LdStep, LdWait, LdNextSlot, LdDone, LdDetach, vars
  <2>2. \A c \in Cpu : CallExpects(c)'
    BY <1>0, <1>1, <2>1 DEF CallInv, CallExpects
  <2>3. \/ UNCHANGED <<ld, ld_i>>
        \/ ld_i' = ld_i /\ ld' \in {"detach", "stopped"}
        \/ ld_i' = ld_i + 1
    BY <1>4 DEF LdStep, LdWait, LdNextSlot, LdDone, LdDetach, ldvars
  <2>4. StillToLoad'
    BY <1>2, <2>1, <2>3 DEF CallInv, StillToLoad
  <2> QED
    BY <2>2, <2>4
<1> QED
  BY <1>3, <1>4

LEMMA CallNext == CallInv /\ [OSNext]_osvars => CallInv'
<1> SUFFICES ASSUME CallInv, [OSNext]_osvars PROVE CallInv'
  OBVIOUS
<1>1. OSInv'
  BY OSInvNext DEF CallInv
<1>2. ASSUME UNCHANGED <<pc, ld, ld_i, proc, pcb, queue_lock, victims>>,
             \A c \in Cpu : dev[c] = "working" => dev'[c] = "working"
      PROVE  CallInv'
  BY <1>1, <1>2 DEF CallInv, CallExpects, StillToLoad
<1>3. CASE UNCHANGED osvars \/ TimerStep
  <2>1. UNCHANGED <<pc, ld, ld_i, proc, pcb, queue_lock, victims>>
    BY <1>3 DEF osvars, vars, TimerStep, cpuvars, ldvars
  <2>2. \A c \in Cpu : dev[c] = "working" => dev'[c] = "working"
    BY <1>3, OSAssumption DEF osvars, clockvars, TimerStep, Tick, Stop
  <2> QED
    BY <1>2, <2>1, <2>2
<1> QED
  BY <1>1, <1>3, CallCpu, CallLoader DEF CallInv, OSNext

\* In every interleaving of the CPUs, their killalls and the loader, each thread
\* calls sched.c and uses its PCB only in the states these calls are written for:
\* the operations of Sched, which the code does not guard, never need their guards.
THEOREM CallsAsExpected == OSSpec => []NoCallRefused
<1>1. CallInv => NoCallRefused
  <2>1. ASSUME CallInv, ld = "load" PROVE ld_i \in 1 .. Len(path)
    BY <2>1, OSAssumption DEF CallInv, OSInv, LdOK
  <2> QED
    BY <2>1 DEF CallInv, StillToLoad, NoCallRefused
<1> QED
  BY <1>1, CallInit, CallNext, PTL DEF OSSpec
=============================================================================
