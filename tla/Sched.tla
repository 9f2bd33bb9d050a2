------------------------------- MODULE Sched -------------------------------
(***************************************************************************)
(* sched.c: the multilevel queue, the list of live processes and killall,  *)
(* together with the part of cpu_routine, sys_killall and free_pcb that    *)
(* decides which thread owns a PCB.                                        *)
(*                                                                         *)
(* Every scheduler operation runs under queue_lock.  get, put, add and     *)
(* finish touch nothing outside the lock, so each is one atomic action.    *)
(* The loop of kill_proc_by_name writes proc->killed, which the CPUs read  *)
(* without the lock, so it is a sequence of steps that hold the lock.      *)
(***************************************************************************)
EXTENDS Queue, FiniteSets

CONSTANTS
    Proc,        \* the processes of the configuration file
    Cpu,         \* the CPU threads
    MAX_PRIO,    \* sched.h: 140
    ConfPrio,    \* the priority the configuration gives to each process
    proc_name,   \* the program name of each process
    Names,       \* the names a killall may carry
    NULL         \* no process, or no owner of the lock

ASSUME SchedAssumption ==
    /\ IsFiniteSet(Proc)
    /\ NULL \notin Proc \cup Cpu
    /\ MAX_PRIO \in Nat \ {0}
    /\ ConfPrio \in [Proc -> Nat]
    /\ proc_name \in [Proc -> Names]

VARIABLES
    mlq_ready_queue,  \* one queue per priority
    slot_used,        \* dispatches of each level in the current round
    running_list,     \* the queue of processes killall can see
    killed,           \* proc->killed
    queue_lock,       \* the CPU inside kill_proc_by_name, or NULL
    scan,             \* that loop's argument name and its index i
    victims,          \* per CPU: killed processes it still has to free
    proc,             \* per CPU: the process of cpu_routine's local proc
    pcb               \* the life of each PCB, see PcbState

vars == <<mlq_ready_queue, slot_used, running_list, killed, queue_lock,
          scan, victims, proc, pcb>>

\* "unloaded": not added yet; "live": known to the scheduler; "delisted": out
\* of running_list and about to be freed; "freed": free_pcb has released it.
PcbState == {"unloaded", "live", "delisted", "freed"}

Level == 0 .. MAX_PRIO - 1

\* init_scheduler(): the number of dispatches a level has in each round.
slot(i) == MAX_PRIO - i

\* add_proc() clamps the configured priority.
prio(p) == IF ConfPrio[p] >= MAX_PRIO THEN MAX_PRIO - 1 ELSE ConfPrio[p]

Init ==
    /\ mlq_ready_queue = [i \in Level |-> <<>>]
    /\ slot_used = [i \in Level |-> 0]
    /\ running_list = <<>>
    /\ killed = [p \in Proc |-> FALSE]
    /\ queue_lock = NULL
    /\ scan = [name |-> NULL, i |-> 1]
    /\ victims = [c \in Cpu |-> <<>>]
    /\ proc = [c \in Cpu |-> NULL]
    /\ pcb = [p \in Proc |-> "unloaded"]

\* The CPU is not inside the killall system call.
OutsideKillall(c) == queue_lock # c /\ victims[c] = <<>>

-----------------------------------------------------------------------------
(* The loader gives a process to the scheduler.                            *)

add_proc(p) ==
    /\ queue_lock = NULL
    /\ pcb[p] = "unloaded"
    /\ pcb' = [pcb EXCEPT ![p] = "live"]
    /\ running_list' = enqueue(running_list, p)
    /\ mlq_ready_queue' =
          [mlq_ready_queue EXCEPT ![prio(p)] = enqueue(@, p)]
    /\ UNCHANGED <<slot_used, killed, queue_lock, scan, victims, proc>>

-----------------------------------------------------------------------------
(* get_mlq_proc(): the levels that may dispatch with the counters u.       *)

\* The comparison written u[i] <= slot[i].
Ready_off_by_one(q, u) == {i \in Level : ~ empty(q[i]) /\ u[i] <= slot(i)}

Ready(q, u) == {i \in Level : ~ empty(q[i]) /\ u[i] < slot(i)}

\* Level i is the highest priority that may dispatch.
First(i, S) == i \in S /\ \A j \in S : i <= j

ResetSlots == [i \in Level |-> 0]

\* The dispatch is not counted: strict priorities.
Dispatch_uncounted(c, i, u) ==
    /\ proc' = [proc EXCEPT ![c] = dequeue_head(mlq_ready_queue[i])]
    /\ mlq_ready_queue' = [mlq_ready_queue EXCEPT ![i] = dequeue_rest(@)]
    /\ slot_used' = u

\* CPU c takes the head of level i, with the counters u.
Dispatch(c, i, u) ==
    /\ proc' = [proc EXCEPT ![c] = dequeue_head(mlq_ready_queue[i])]
    /\ mlq_ready_queue' = [mlq_ready_queue EXCEPT ![i] = dequeue_rest(@)]
    /\ slot_used' = [u EXCEPT ![i] = @ + 1]

\* The first of the two rounds finds a level with slots left.
GetThisRound(c) ==
    \E i \in Level :
       /\ First(i, Ready(mlq_ready_queue, slot_used))
       /\ Dispatch(c, i, slot_used)

\* No level may dispatch: the counters are reset and the second round finds
\* the highest non-empty level.
GetNextRound(c) ==
    /\ Ready(mlq_ready_queue, slot_used) = {}
    /\ \E i \in Level :
          /\ First(i, Ready(mlq_ready_queue, ResetSlots))
          /\ Dispatch(c, i, ResetSlots)

\* Every queue is empty: both rounds fail, the counters are reset all the same.
GetNothing(c) ==
    /\ Ready(mlq_ready_queue, slot_used) = {}
    /\ Ready(mlq_ready_queue, ResetSlots) = {}
    /\ slot_used' = ResetSlots
    /\ UNCHANGED <<proc, mlq_ready_queue>>

get_proc(c) ==
    /\ queue_lock = NULL
    /\ proc[c] = NULL
    /\ GetThisRound(c) \/ GetNextRound(c) \/ GetNothing(c)
    /\ UNCHANGED <<running_list, killed, queue_lock, scan, victims, pcb>>

\* The slice of the process is over: it goes to the tail of its level.
put_proc(c) ==
    /\ queue_lock = NULL
    /\ OutsideKillall(c)
    /\ proc[c] # NULL
    /\ pcb[proc[c]] = "live"
    /\ mlq_ready_queue' =
          [mlq_ready_queue EXCEPT ![prio(proc[c])] = enqueue(@, proc[c])]
    /\ proc' = [proc EXCEPT ![c] = NULL]
    /\ UNCHANGED <<slot_used, running_list, killed, queue_lock, scan,
                   victims, pcb>>

\* The process that ends stays in the running list.
finish_proc_listed(c) ==
    /\ queue_lock = NULL
    /\ OutsideKillall(c)
    /\ proc[c] # NULL
    /\ pcb[proc[c]] = "live"
    /\ pcb' = [pcb EXCEPT ![proc[c]] = "delisted"]
    /\ UNCHANGED <<mlq_ready_queue, slot_used, running_list, killed, queue_lock,
                   scan, victims, proc>>

\* The process has ended or was killed: it leaves the running list ...
finish_proc(c) ==
    /\ queue_lock = NULL
    /\ OutsideKillall(c)
    /\ proc[c] # NULL
    /\ pcb[proc[c]] = "live"
    /\ running_list' = remove_from_queue(running_list, proc[c])
    /\ pcb' = [pcb EXCEPT ![proc[c]] = "delisted"]
    /\ UNCHANGED <<mlq_ready_queue, slot_used, killed, queue_lock, scan,
                   victims, proc>>

\* ... and its CPU releases it.
free_pcb(c) ==
    /\ proc[c] # NULL
    /\ pcb[proc[c]] = "delisted"
    /\ pcb' = [pcb EXCEPT ![proc[c]] = "freed"]
    /\ proc' = [proc EXCEPT ![c] = NULL]
    /\ UNCHANGED <<mlq_ready_queue, slot_used, running_list, killed,
                   queue_lock, scan, victims>>

-----------------------------------------------------------------------------
(* killall, executed by the process of CPU c: kill_proc_by_name() locks,   *)
(* walks running_list, unlocks; sys_killall() then frees the victims.      *)

kill_lock(c, name) ==
    /\ queue_lock = NULL
    /\ OutsideKillall(c)
    /\ proc[c] # NULL
    /\ pcb[proc[c]] = "live"
    /\ queue_lock' = c
    /\ scan' = [name |-> name, i |-> 1]
    /\ UNCHANGED <<mlq_ready_queue, slot_used, running_list, killed,
                   victims, proc, pcb>>

\* The caller and processes of other names are skipped.
KillSkip(c, p) ==
    /\ p = proc[c] \/ proc_name[p] # scan.name
    /\ scan' = [scan EXCEPT !.i = @ + 1]
    /\ UNCHANGED <<mlq_ready_queue, slot_used, running_list, killed,
                   queue_lock, victims, proc, pcb>>

Matches(c, p) == p # proc[c] /\ proc_name[p] = scan.name

\* A process in no ready queue belongs to a CPU: it is only marked.
KillMark(c, p) ==
    /\ Matches(c, p)
    /\ ~ InQueue(mlq_ready_queue[prio(p)], p)
    /\ killed' = [killed EXCEPT ![p] = TRUE]
    /\ scan' = [scan EXCEPT !.i = @ + 1]
    /\ UNCHANGED <<mlq_ready_queue, slot_used, running_list, queue_lock,
                   victims, proc, pcb>>

\* The index advances although the next entry has moved into its place.
KillTake_skips_next(c, p) ==
    /\ Matches(c, p)
    /\ InQueue(mlq_ready_queue[prio(p)], p)
    /\ killed' = [killed EXCEPT ![p] = TRUE]
    /\ mlq_ready_queue' =
          [mlq_ready_queue EXCEPT ![prio(p)] = remove_from_queue(@, p)]
    /\ running_list' = remove_from_queue(running_list, p)
    /\ victims' = [victims EXCEPT ![c] = Append(@, p)]
    /\ pcb' = [pcb EXCEPT ![p] = "delisted"]
    /\ scan' = [scan EXCEPT !.i = @ + 1]
    /\ UNCHANGED <<slot_used, queue_lock, proc>>

\* The victim is looked up in its ready queue and not taken out.
KillTake_left_ready(c, p) ==
    /\ Matches(c, p)
    /\ InQueue(mlq_ready_queue[prio(p)], p)
    /\ killed' = [killed EXCEPT ![p] = TRUE]
    /\ running_list' = remove_from_queue(running_list, p)
    /\ victims' = [victims EXCEPT ![c] = Append(@, p)]
    /\ pcb' = [pcb EXCEPT ![p] = "delisted"]
    /\ UNCHANGED <<mlq_ready_queue, slot_used, queue_lock, scan, proc>>

\* A process in its ready queue is taken out of both lists and becomes a
\* victim; the index stays, the next entry has moved into its place.
KillTake(c, p) ==
    /\ Matches(c, p)
    /\ InQueue(mlq_ready_queue[prio(p)], p)
    /\ killed' = [killed EXCEPT ![p] = TRUE]
    /\ mlq_ready_queue' =
          [mlq_ready_queue EXCEPT ![prio(p)] = remove_from_queue(@, p)]
    /\ running_list' = remove_from_queue(running_list, p)
    /\ victims' = [victims EXCEPT ![c] = Append(@, p)]
    /\ pcb' = [pcb EXCEPT ![p] = "delisted"]
    /\ UNCHANGED <<slot_used, queue_lock, scan, proc>>

kill_step(c) ==
    /\ queue_lock = c
    /\ scan.i <= Len(running_list)
    /\ LET p == running_list[scan.i]
       IN  KillSkip(c, p) \/ KillMark(c, p) \/ KillTake(c, p)

\* A path through kill_proc_by_name that does not unlock.
kill_unlock_forgotten(c) ==
    /\ queue_lock = c
    /\ scan.i > Len(running_list)
    /\ scan' = [name |-> NULL, i |-> 1]
    /\ UNCHANGED <<mlq_ready_queue, slot_used, running_list, killed, queue_lock,
                   victims, proc, pcb>>

kill_unlock(c) ==
    /\ queue_lock = c
    /\ scan.i > Len(running_list)
    /\ queue_lock' = NULL
    /\ scan' = [name |-> NULL, i |-> 1]
    /\ UNCHANGED <<mlq_ready_queue, slot_used, running_list, killed,
                   victims, proc, pcb>>

\* sys_killall() frees its victims one by one, outside queue_lock.
free_victim(c) ==
    /\ queue_lock # c
    /\ victims[c] # <<>>
    /\ pcb' = [pcb EXCEPT ![Head(victims[c])] = "freed"]
    /\ victims' = [victims EXCEPT ![c] = Tail(@)]
    /\ UNCHANGED <<mlq_ready_queue, slot_used, running_list, killed,
                   queue_lock, scan, proc>>

-----------------------------------------------------------------------------

CpuNext(c) ==
    \/ get_proc(c)
    \/ put_proc(c)
    \/ finish_proc(c)
    \/ free_pcb(c)
    \/ \E n \in Names : kill_lock(c, n)
    \/ kill_step(c)
    \/ kill_unlock(c)
    \/ free_victim(c)

Next == (\E p \in Proc : add_proc(p)) \/ (\E c \in Cpu : CpuNext(c))

Spec == Init /\ [][Next]_vars

(***************************************************************************)
(* A CPU that holds the lock leaves it, frees its victims and its process. *)
(* Its scheduler calls are strongly fair: between two of them a CPU runs   *)
(* at most one instruction, and the timer lets no other CPU begin a new    *)
(* slot, hence take queue_lock for ever, before this one has ended its own.*)
(***************************************************************************)
CpuFairness(c) ==
    /\ WF_vars(kill_step(c) \/ kill_unlock(c))
    /\ WF_vars(free_victim(c))
    /\ WF_vars(free_pcb(c))
    /\ SF_vars(get_proc(c))
    /\ SF_vars(put_proc(c) \/ finish_proc(c))

-----------------------------------------------------------------------------
(* Properties.                                                             *)

\* Every variable stays in its range; queues never exceed their array.
TypeOK ==
    /\ mlq_ready_queue \in [Level -> Seq(Proc)]
    /\ \A i \in Level : Len(mlq_ready_queue[i]) <= MAX_QUEUE_SIZE
    /\ slot_used \in [Level -> Nat]
    /\ running_list \in Seq(Proc)
    /\ Len(running_list) <= MAX_QUEUE_SIZE
    /\ killed \in [Proc -> BOOLEAN]
    /\ queue_lock \in Cpu \cup {NULL}
    /\ scan \in [name : Names \cup {NULL}, i : Nat \ {0}]
    /\ victims \in [Cpu -> Seq(Proc)]
    /\ proc \in [Cpu -> Proc \cup {NULL}]
    /\ pcb \in [Proc -> PcbState]

\* A process has at most one owner: it runs on at most one CPU, waits at most
\* once in the ready queues and only at its own level, and neither runs nor
\* waits once a killall has it among its victims.
ExclusiveOwner ==
    /\ \A c, d \in Cpu : proc[c] = proc[d] /\ proc[c] # NULL => c = d
    /\ \A i \in Level :
          /\ NoDuplicates(mlq_ready_queue[i])
          /\ \A p \in Proc : InQueue(mlq_ready_queue[i], p) =>
                prio(p) = i /\ \A c \in Cpu : proc[c] # p
    /\ \A c \in Cpu :
          /\ NoDuplicates(victims[c])
          /\ \A p \in Proc : InQueue(victims[c], p) =>
                /\ ~ InQueue(mlq_ready_queue[prio(p)], p)
                /\ \A d \in Cpu : /\ proc[d] # p
                                  /\ InQueue(victims[d], p) => d = c

\* No pointer to a PCB outlives it: a process that free_pcb has released (by
\* its CPU or by a killall) is in no queue, not in the running list that
\* kill_proc_by_name dereferences, on no CPU and in no list of victims.
NoDanglingPcb ==
    \A p \in Proc : pcb[p] = "freed" =>
       /\ \A i \in Level : ~ InQueue(mlq_ready_queue[i], p)
       /\ ~ InQueue(running_list, p)
       /\ \A c \in Cpu : proc[c] # p /\ ~ InQueue(victims[c], p)

\* sys_killall's array of MAX_QUEUE_SIZE victims never overflows, although the
\* loop that fills it has no bound of its own.
VictimsFit == \A c \in Cpu : Len(victims[c]) <= MAX_QUEUE_SIZE

\* No level dispatches more than its slots in a round.
SlotBound == \A i \in Level : slot_used[i] <= slot(i)

\* The walk of kill_proc_by_name misses nobody, although it removes entries
\* from the list it walks: when the lock is about to be released every process
\* of that name still in the list, the caller aside, has been marked.
KillallMissesNone ==
    \A c \in Cpu : queue_lock = c /\ scan.i > Len(running_list) =>
       \A k \in 1 .. Len(running_list) :
          Matches(c, running_list[k]) => killed[running_list[k]]

\* A process the scheduler knows is waiting in its ready queue or is on a CPU.
\* Holds when a queue can hold all the processes of its level.
NothingLost ==
    \A p \in Proc : pcb[p] = "live" =>
       InQueue(mlq_ready_queue[prio(p)], p) \/ \E c \in Cpu : proc[c] = p

\* The comment of get_mlq_proc, "so lower priorities never starve": a process
\* that waits in a ready queue is eventually given to a CPU, or killed.
NoStarvation ==
    \A p \in Proc :
       InQueue(mlq_ready_queue[prio(p)], p)
         ~> ~ InQueue(mlq_ready_queue[prio(p)], p)
=============================================================================
