------------------------------- MODULE System -------------------------------
(***************************************************************************)
(* The simulator as a whole: the threads of OS, whose instructions call    *)
(* the memory of Paging.  A CPU that executes a memory instruction, reads  *)
(* the name for a killall or frees a PCB waits for mmvm_lock, makes the    *)
(* steps of the operation while it has the lock, and only then goes on in  *)
(* cpu_routine; the other CPUs and the loader run meanwhile.               *)
(*                                                                         *)
(* An allocation is one that the free regions cannot serve (see Regions),  *)
(* and the name for a killall lies in page 0.                              *)
(***************************************************************************)
EXTENDS OS

CONSTANTS
    NPage,     \* PAGING_MAX_PGN, the pages of an address space
    NRam,      \* frames of RAM
    NSwp,      \* frames of swap
    NoName     \* the name that is read from zeroed memory: ""

VARIABLES
    pgd, fifo_pgn, vm_end, ram_free, swp_free, ram, swp, live, data,
    at, who, page, need, held, val,     \* of Paging
    call,      \* per CPU: the memory operation it has to do, see CallState
    name,      \* per CPU: proc_name of sys_killall, NULL if it could not be read
    written    \* history: what each process has last written to page 0, or NULL

\* What a page holds is a name.
M == INSTANCE Paging WITH Val <- Names, Zero <- NoName

pagvars == <<pgd, fifo_pgn, vm_end, ram_free, swp_free, ram, swp, live, data,
             at, who, page, need, held, val>>

sysvars == <<osvars, pagvars, call, name, written>>

\* "alloc", "read", "write", "name" and "free" wait for mmvm_lock.
CallState == {"none", "alloc", "read", "write", "name", "free", "hold"}

Calc == [op |-> "calc"]
Alloc(n) == [op |-> "alloc", n |-> n]
Read(g) == [op |-> "read", page |-> g]
Write(g, v) == [op |-> "write", page |-> g, value |-> v]

\* free is left out: it only moves bytes between the lists of Regions.
MemInstr ==
    {Calc} \cup {Alloc(n) : n \in 1 .. NPage}
      \cup {Read(g) : g \in 0 .. NPage - 1}
      \cup {Write(g, v) : g \in 0 .. NPage - 1, v \in Names}

ASSUME SystemAssumption ==
    /\ NPage \in Nat \ {0} /\ NRam \in Nat \ {0} /\ NSwp \in Nat \ {0}
    /\ NoName \in Names /\ NULL \notin Names
    /\ Other \subseteq MemInstr

SysInit ==
    /\ OSInit
    /\ M!PagingInit
    /\ call = [c \in Cpu |-> "none"]
    /\ name = [c \in Cpu |-> NULL]
    /\ written = [p \in Proc |-> NULL]

-----------------------------------------------------------------------------
(* The way of a CPU through cpu_routine.                                   *)

\* What the next instruction of p, if there is one, asks of the memory.
Wants(p) ==
    IF ip[p] = Len(code[p]) \/ code[p][ip[p] + 1] = Calc THEN "none"
    ELSE IF code[p][ip[p] + 1] \in Other THEN code[p][ip[p] + 1].op
    ELSE "name"

\* free_pcb() does not give back the memory of the victims of a killall.
NextCall_leaks_victims(c) ==
    IF pc[c] = "run" THEN Wants(proc[c])
    ELSE IF pc'[c] = "free" THEN "free"
    ELSE "none"

\* The memory operation the step of c leads to: that of its instruction, or
\* free_pcb() of its own process or of the next victim of its killall.
NextCall(c) ==
    IF pc[c] = "run" THEN Wants(proc[c])
    ELSE IF pc'[c] = "free" \/ (pc'[c] = "reap" /\ victims'[c] # <<>>) THEN "free"
    ELSE "none"

CpuGoes(c) ==
    /\ call[c] = "none"
    /\ CpuStep(c)
    /\ pc[c] = "call" => scan'.name = IF name[c] = NULL THEN NoName ELSE name[c]
    /\ call' = [call EXCEPT ![c] = NextCall(c)]
    /\ name' = IF pc[c] = "run" THEN [name EXCEPT ![c] = NULL] ELSE name
    /\ UNCHANGED <<pagvars, written>>

-----------------------------------------------------------------------------
(* The memory operations.                                                  *)

\* The instruction c executes, the page it accesses, and the process whose memory
\* the operation is about.
Instr(c) == code[proc[c]][ip[proc[c]]]
Target(c) == IF call[c] = "name" THEN 0 ELSE Instr(c).page
Subject(c) == IF pc[c] = "reap" THEN Head(victims[c]) ELSE proc[c]

Enter(c) ==
    /\ \/ call[c] = "alloc" /\ M!inc_vma_limit(proc[c], Instr(c).n)
       \/ call[c] \in {"read", "name"} /\ M!access(proc[c], Target(c), NULL)
       \/ call[c] = "write" /\ M!access(proc[c], Target(c), Instr(c).value)
       \/ call[c] = "free" /\ M!free_pcb(Subject(c))
    /\ call' = [call EXCEPT ![c] = "hold"]
    /\ UNCHANGED <<osvars, name, written>>

\* The page was never mapped, or is in no region.
Refused(c) ==
    /\ at = "idle"
    /\ call[c] \in {"read", "write", "name"}
    /\ pgd[proc[c]][Target(c)] = M!None
    /\ call' = [call EXCEPT ![c] = "none"]
    /\ UNCHANGED <<osvars, pagvars, name, written>>

\* The operation returns without unlocking.
Inside_stays(c) ==
    /\ call[c] = "hold"
    /\ M!Step
    /\ UNCHANGED <<osvars, call, name, written>>

\* A step under mmvm_lock.
Inside(c) ==
    /\ call[c] = "hold"
    /\ M!Step
    /\ call' = [call EXCEPT ![c] = IF at' = "idle" THEN "none" ELSE @]
    /\ name' = IF at = "io" /\ pc[c] = "call" THEN [name EXCEPT ![c] = data'] ELSE name
    /\ written' = IF at = "io" /\ val # NULL /\ page = 0
                  THEN [written EXCEPT ![who] = val] ELSE written
    /\ UNCHANGED osvars

-----------------------------------------------------------------------------

CpuThread(c) == CpuGoes(c) \/ Enter(c) \/ Refused(c) \/ Inside(c)

Others == (TimerStep \/ LdStep) /\ UNCHANGED <<pagvars, call, name, written>>

SysNext == Others \/ \E c \in Cpu : CpuThread(c)

SysSpec == SysInit /\ [][SysNext]_sysvars

\* Every thread that can run does.  Weak fairness is enough for the waits on
\* mmvm_lock: in a slot each CPU calls for it a bounded number of times.
FairSys ==
    /\ SysSpec
    /\ WF_sysvars(Others)
    /\ \A c \in Cpu : WF_sysvars(CpuThread(c))

-----------------------------------------------------------------------------
(* Properties *)

\* Every variable of the composition has its type, and mmvm_lock is held by the one
\* CPU that is inside an operation.
SysTypeOK ==
    /\ call \in [Cpu -> CallState]
    /\ name \in [Cpu -> Names \cup {NULL}]
    /\ written \in [Proc -> Names \cup {NULL}]
    /\ at = "idle" <=> \A c \in Cpu : call[c] # "hold"
    /\ \A c, d \in Cpu : call[c] = "hold" /\ call[d] = "hold" => c = d

\* Memory is used by its owner only, and never after it has been freed: whatever
\* order killall, the ends of processes and instructions on other CPUs come in, an
\* operation is made for a process whose memory is there, and no two CPUs are at
\* operations of the same process.
MemoryHasOneUser ==
    \A c \in Cpu : call[c] # "none" =>
        /\ Subject(c) \in Proc /\ pcb[Subject(c)] # "freed"
        /\ IF call[c] = "hold" THEN who = Subject(c) /\ (who \in live \/ at = "reap")
           ELSE Subject(c) \in live
        /\ \A d \in Cpu \ {c} : call[d] # "none" => Subject(d) # Subject(c)

\* A process that is gone has given back its memory: it has no page and no entry in
\* a list, and when all are gone every frame of both devices is free again.
AllGivenBack ==
    /\ \A p \in Proc : pcb[p] = "freed" =>
          /\ p \notin live /\ fifo_pgn[p] = <<>>
          /\ \A g \in M!Page : pgd[p][g] = M!None
    /\ (\A p \in Proc : pcb[p] = "freed") =>
          /\ \A f \in M!RamFrame : InQueue(ram_free, f)
          /\ \A f \in M!SwpFrame : InQueue(swp_free, f)

\* A killall is of the name its process wrote last, although the page may have been
\* to swap in between and other processes use the same frames, unless the page could
\* not be read.  A process that has not written gets what its frame held before:
\* alloc_pages_range clears nothing.
KillsWhatWasWritten ==
    \A c \in Cpu : queue_lock = c /\ name[c] # NULL /\ written[proc[c]] # NULL =>
        scan.name = written[proc[c]]

\* The simulator gets stuck in no other state than its end: mmvm_lock, queue_lock
\* and the timer never wait for each other.
SysNoDeadlock ==
    ~ ENABLED SysNext => \A c \in Cpu : pc[c] = "stopped"
=============================================================================
