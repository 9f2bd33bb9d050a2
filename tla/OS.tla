--------------------------------- MODULE OS ---------------------------------
(***************************************************************************)
(* os.c: the CPU threads and the loader thread, composed with the          *)
(* scheduler (Sched) and the timer (Clock).  Each action of a thread makes *)
(* at most one access to shared state: a scheduler call, the test of       *)
(* proc->killed, the test of done, or a call of the timer.                 *)
(*                                                                         *)
(* An instruction is a killall or one of Other, which touch neither the    *)
(* scheduler nor the timer.  The name a killall carries is one of a set:   *)
(* it comes from memory, which is the subject of System.                   *)
(***************************************************************************)
EXTENDS Sched, Clock

CONSTANTS
    Loader,      \* the loader thread, a device of the timer like the CPUs
    path,        \* ld_processes.path: the processes in loading order
    Other,       \* the instructions other than killall
    StartTimes,  \* the start times a process may have
    Programs,    \* the instruction sequences a process may have
    time_slot    \* the length of a slice, in instructions

Killall(names) == [op |-> "killall", names |-> names]
Instruction == Other \cup {Killall(S) : S \in SUBSET Names}

ASSUME OSAssumption ==
    /\ Loader \notin Cpu
    /\ Dev = Cpu \cup {Loader}
    /\ path \in Seq(Proc) /\ NoDuplicates(path)
    /\ \A p \in Proc : InQueue(path, p)
    /\ \A S \in SUBSET Names : Killall(S) \notin Other
    /\ StartTimes \subseteq 0 .. TimeCap
    /\ Programs \subseteq Seq(Instruction)
    /\ time_slot \in Nat \ {0}

VARIABLES
    start_time, \* ld_processes.start_time, per process
    code,       \* the instructions of each process
    pc,         \* per CPU: the point reached in cpu_routine, see CpuState
    time_left,  \* per CPU
    ip,         \* proc->pc: the number of instructions executed
    done,       \* set by the loader when nothing is left to load
    ld,         \* the point reached in ld_routine
    ld_i,       \* the loader's index, from 1
    late        \* history: instructions a process began after being killed

\* What load() and read_config() have read: never changed.
confvars == <<start_time, code>>

osvars == <<vars, clockvars, confvars, pc, time_left, ip, done, ld, ld_i, late>>

\* "top": the head of the loop; "finish", "free", "put", "get", "run", "slot"
\* and "detach": before the call of that name; "recheck": at the second chain
\* of tests; "call", "kill" and "reap": in the killall system call.
CpuState == {"top", "finish", "free", "put", "get", "recheck", "run", "call",
             "kill", "reap", "slot", "detach", "stopped"}

LdState == {"load", "slot", "done", "detach", "stopped"}

OSInit ==
    /\ Init
    /\ ClockInit
    /\ start_time \in [Proc -> StartTimes]
    /\ code \in [Proc -> Programs]
    /\ pc = [c \in Cpu |-> "top"]
    /\ time_left = [c \in Cpu |-> 0]
    /\ ip = [p \in Proc |-> 0]
    /\ done = FALSE
    /\ ld = IF path = <<>> THEN "done" ELSE "load"
    /\ ld_i = 1
    /\ late = [p \in Proc |-> 0]

\* CPU c is in the current slot, at l; it goes on at m.
At(c, l) == dev[c] = "working" /\ pc[c] = l
Goto(c, m) == pc' = [pc EXCEPT ![c] = m]

ldvars == <<confvars, done, ld, ld_i>>

-----------------------------------------------------------------------------
(* cpu_routine: the first chain of tests.                                  *)

\* No process: try to get one; without one the slot is over at once.
Load(c) ==
    /\ At(c, "top")
    /\ proc[c] = NULL
    /\ get_proc(c)
    /\ Goto(c, IF proc'[c] = NULL THEN "slot" ELSE "recheck")
    /\ UNCHANGED <<clockvars, time_left, ip, ldvars, late>>

\* The test of the flag set by killall is left out.
Test_not_killed(c, p) ==
    IF ip[p] = Len(code[p]) THEN "finish"
    ELSE IF time_left[c] = 0 THEN "put"
    ELSE "run"

\* A process that has executed all its instructions is put back.
Test_never_ended(c, p) ==
    IF killed[p] THEN "finish" ELSE IF time_left[c] = 0 THEN "put" ELSE "run"

\* What the tests say of the process the CPU has.
Test(c, p) ==
    IF killed[p] \/ ip[p] = Len(code[p]) THEN "finish"
    ELSE IF time_left[c] = 0 THEN "put"
    ELSE "run"

Check(c) ==
    /\ At(c, "top")
    /\ proc[c] # NULL
    /\ Goto(c, Test(c, proc[c]))
    /\ UNCHANGED <<vars, clockvars, time_left, ip, ldvars, late>>

Finish(c) ==
    /\ At(c, "finish")
    /\ finish_proc(c)
    /\ Goto(c, "free")
    /\ UNCHANGED <<clockvars, time_left, ip, ldvars, late>>

\* The new process of the CPU inherits what is left of the slice.
Free_keeps_slice(c) ==
    /\ At(c, "free")
    /\ free_pcb(c)
    /\ Goto(c, "get")
    /\ UNCHANGED <<clockvars, time_left, ip, ldvars, late>>

Free(c) ==
    /\ At(c, "free")
    /\ free_pcb(c)
    /\ Goto(c, "get")
    /\ time_left' = [time_left EXCEPT ![c] = 0]
    /\ UNCHANGED <<clockvars, ip, ldvars, late>>

\* The CPU keeps its pointer to the process it has put back.
Put_keeps_proc(c) ==
    /\ At(c, "put")
    /\ queue_lock = NULL
    /\ mlq_ready_queue' =
          [mlq_ready_queue EXCEPT ![prio(proc[c])] = enqueue(@, proc[c])]
    /\ Goto(c, "run")
    /\ UNCHANGED <<slot_used, running_list, killed, queue_lock, scan, victims,
                   proc, pcb, clockvars, time_left, ip, ldvars, late>>

Put(c) ==
    /\ At(c, "put")
    /\ put_proc(c)
    /\ Goto(c, "get")
    /\ UNCHANGED <<clockvars, time_left, ip, ldvars, late>>

Get(c) ==
    /\ At(c, "get")
    /\ get_proc(c)
    /\ Goto(c, "recheck")
    /\ UNCHANGED <<clockvars, time_left, ip, ldvars, late>>

-----------------------------------------------------------------------------
(* cpu_routine: the second chain of tests, and the instruction.            *)

\* A dispatched process is not given its slice.
Recheck_no_slice(c) ==
    /\ At(c, "recheck")
    /\ Goto(c, IF proc[c] # NULL THEN "run" ELSE IF done THEN "detach" ELSE "slot")
    /\ UNCHANGED <<vars, clockvars, time_left, ip, ldvars, late>>

\* Without a process the CPU stops if done is set, else it skips the slot; a
\* process that was just dispatched gets a whole slice.
Recheck(c) ==
    /\ At(c, "recheck")
    /\ Goto(c, IF proc[c] # NULL THEN "run" ELSE IF done THEN "detach" ELSE "slot")
    /\ time_left' = IF proc[c] # NULL /\ time_left[c] = 0
                    THEN [time_left EXCEPT ![c] = time_slot] ELSE time_left
    /\ UNCHANGED <<vars, clockvars, ip, ldvars, late>>

\* run() executes the next instruction, if there is one.
Run(c) ==
    /\ At(c, "run")
    /\ LET p == proc[c]
           more == ip[p] < Len(code[p])
       IN  /\ Goto(c, IF more /\ code[p][ip[p] + 1] \notin Other THEN "call" ELSE "slot")
           /\ ip' = [ip EXCEPT ![p] = IF more THEN @ + 1 ELSE @]
           /\ late' = [late EXCEPT ![p] = IF killed[p] THEN @ + 1 ELSE @]
    /\ time_left' = [time_left EXCEPT ![c] = @ - 1]
    /\ UNCHANGED <<vars, clockvars, ldvars>>

\* The killall system call: kill_proc_by_name(), then free the victims.
Call(c) ==
    /\ At(c, "call")
    /\ \E n \in Names : /\ n \in code[proc[c]][ip[proc[c]]].names
                        /\ kill_lock(c, n)
    /\ Goto(c, "kill")
    /\ UNCHANGED <<clockvars, time_left, ip, ldvars, late>>

Kill(c) ==
    /\ At(c, "kill")
    /\ \/ kill_step(c) /\ UNCHANGED pc
       \/ kill_unlock(c) /\ Goto(c, "reap")
    /\ UNCHANGED <<clockvars, time_left, ip, ldvars, late>>

Reap(c) ==
    /\ At(c, "reap")
    /\ \/ free_victim(c) /\ UNCHANGED pc
       \/ victims[c] = <<>> /\ Goto(c, "slot") /\ UNCHANGED vars
    /\ UNCHANGED <<clockvars, time_left, ip, ldvars, late>>

NextSlot(c) ==
    /\ At(c, "slot")
    /\ Arrive(c)
    /\ Goto(c, "top")
    /\ UNCHANGED <<vars, time_left, ip, ldvars, late>>

CpuDetach(c) ==
    /\ At(c, "detach")
    /\ Detach(c)
    /\ Goto(c, "stopped")
    /\ UNCHANGED <<vars, time_left, ip, ldvars, late>>

-----------------------------------------------------------------------------
(* ld_routine                                                              *)

LdAt(l) == dev[Loader] = "working" /\ ld = l

cpuvars == <<confvars, pc, time_left, ip, late>>

LdWait ==
    /\ LdAt("load")
    /\ time < start_time[path[ld_i]]
    /\ Arrive(Loader)
    /\ UNCHANGED <<vars, cpuvars, ldvars>>

LdAdd ==
    /\ LdAt("load")
    /\ time >= start_time[path[ld_i]]
    /\ add_proc(path[ld_i])
    /\ ld' = "slot"
    /\ UNCHANGED <<clockvars, cpuvars, done, ld_i>>

AfterLoad == IF ld_i = Len(path) THEN "done" ELSE "load"

\* The loader goes on without waiting for the next slot.
LdNextSlot_no_wait ==
    /\ LdAt("slot")
    /\ ld' = AfterLoad
    /\ ld_i' = ld_i + 1
    /\ UNCHANGED <<vars, clockvars, cpuvars, done>>

LdNextSlot ==
    /\ LdAt("slot")
    /\ Arrive(Loader)
    /\ ld' = AfterLoad
    /\ ld_i' = ld_i + 1
    /\ UNCHANGED <<vars, cpuvars, done>>

LdDone ==
    /\ LdAt("done")
    /\ done' = TRUE
    /\ ld' = "detach"
    /\ UNCHANGED <<vars, clockvars, cpuvars, ld_i>>

LdDetach ==
    /\ LdAt("detach")
    /\ Detach(Loader)
    /\ ld' = "stopped"
    /\ UNCHANGED <<vars, cpuvars, done, ld_i>>

-----------------------------------------------------------------------------

CpuStep(c) ==
    \/ Load(c) \/ Check(c) \/ Finish(c) \/ Free(c) \/ Put(c) \/ Get(c)
    \/ Recheck(c) \/ Run(c) \/ Call(c) \/ Kill(c) \/ Reap(c)
    \/ NextSlot(c) \/ CpuDetach(c)

LdStep == LdWait \/ LdAdd \/ LdNextSlot \/ LdDone \/ LdDetach

TimerStep == (Tick \/ Stop) /\ UNCHANGED <<vars, cpuvars, ldvars>>

OSNext == TimerStep \/ LdStep \/ \E c \in Cpu : CpuStep(c)

OSSpec == OSInit /\ [][OSNext]_osvars

\* Every thread that can run does: nobody keeps queue_lock for ever, so weak
\* fairness of each thread is what the operating system gives.
FairOS ==
    /\ OSSpec
    /\ WF_osvars(TimerStep)
    /\ WF_osvars(LdStep)
    /\ \A c \in Cpu : WF_osvars(CpuStep(c))

-----------------------------------------------------------------------------
(* Properties.                                                             *)

\* Every variable of the threads stays in its range.
OSTypeOK ==
    /\ start_time \in [Proc -> StartTimes]
    /\ code \in [Proc -> Programs]
    /\ pc \in [Cpu -> CpuState]
    /\ time_left \in [Cpu -> 0 .. time_slot]
    /\ ip \in [Proc -> Nat]
    /\ \A p \in Proc : ip[p] <= Len(code[p])
    /\ done \in BOOLEAN
    /\ ld \in LdState
    /\ ld_i \in 1 .. Len(path) + 1
    /\ late \in [Proc -> Nat]
    /\ dev \in [Dev -> {"working", "waiting", "finished"}]

\* What the code at the point CPU c has reached takes for granted and does not
\* test: from its dispatch to finish_proc the PCB the CPU uses is live, whatever
\* the killalls of other CPUs do; the one that is freed has left the lists; a CPU
\* asks for a process only when it has none; it calls the scheduler, or waits for
\* the timer, neither with queue_lock in hand nor with victims left to free.
CallExpects(c) ==
    /\ pc[c] \in {"finish", "put", "run", "call", "kill", "reap"} => proc[c] # NULL
    /\ proc[c] # NULL /\ pc[c] # "free" => pcb[proc[c]] = "live"
    /\ pc[c] = "free" => proc[c] # NULL /\ pcb[proc[c]] = "delisted"
    /\ pc[c] = "get" => proc[c] = NULL
    /\ pc[c] = "kill" <=> queue_lock = c
    /\ victims[c] # <<>> => pc[c] \in {"kill", "reap"}
    /\ dev[c] # "working" => pc[c] \in {"top", "stopped"}

\* No thread calls the scheduler, or uses a PCB, in a state the operation does not
\* expect, and the loader adds no process twice: of the guards of Sched only the
\* wait for queue_lock ever holds up a thread.
NoCallRefused ==
    /\ \A c \in Cpu : CallExpects(c)
    /\ ld = "load" => pcb[path[ld_i]] = "unloaded"

\* A killed process begins at most one more instruction, wherever the mark of
\* killall finds it: on a CPU, or between a CPU and its queue.
KillLatency == \A p \in Proc : late[p] <= 1

\* A process that a CPU has just taken from the queues begins a whole slice,
\* also when the previous process ended before its own slice did.
FreshSlice ==
    \A c \in Cpu : pc[c] = "recheck" /\ proc[c] # NULL => time_left[c] = 0

\* No process is left behind: the CPUs, which stop when they find no process
\* and done set, do not all stop while a process waits.
NobodyLeftBehind ==
    (\A c \in Cpu : pc[c] \in {"detach", "stopped"}) =>
       \A p \in Proc : pcb[p] = "freed"

\* tests/run_tests.sh: every loaded process either finishes or is killed.
EveryProcessEnds == <>(\A p \in Proc : pcb[p] = "freed")

\* tests/run_tests.sh: every CPU stops.
EveryCpuStops == \A c \in Cpu : <>(pc[c] = "stopped")
=============================================================================
