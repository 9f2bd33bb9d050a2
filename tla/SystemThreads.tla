--------------------------- MODULE SystemThreads ---------------------------
(***************************************************************************)
(* The half of the argument about System that needs no fact of the memory: *)
(* that its threads are those of OS, and how the memory operations of a    *)
(* CPU go with its way through cpu_routine.                                *)
(***************************************************************************)
EXTENDS System, OSProofs

-----------------------------------------------------------------------------
(* The threads of System are those of OS.                                  *)

LEMMA SysStepIsOS == [SysNext]_sysvars => [OSNext]_osvars
  BY DEF SysNext, sysvars, Others, CpuThread, CpuGoes, Enter, Refused, Inside, OSNext

\* Memory operations delay a CPU and change nothing else of what it does: every
\* behaviour of the simulator is one of OS, by the way System is put together.
LEMMA ThreadsImplemented == SysSpec => OSSpec
<1>1. SysInit => OSInit
  BY DEF SysInit
<1> QED
  BY <1>1, SysStepIsOS, PTL DEF SysSpec, OSSpec

LEMMA SysThreads == SysSpec => []OSInv
  BY ThreadsImplemented, OSInvariance, PTL

\* In the simulator with memory, too, a killed process begins at most one more
\* instruction.
THEOREM SysKillIsPrompt == SysSpec => []KillLatency
  BY ThreadsImplemented, KillIsPrompt, PTL

\* Nor does waiting for memory make the CPUs stop while a process is left.
THEOREM SysAllServed ==
    ASSUME Cpu # {}, LevelsFit
    PROVE  SysSpec => []NobodyLeftBehind
  BY ThreadsImplemented, AllServed, PTL

-----------------------------------------------------------------------------
(* The inductive invariant.                                                *)

\* CPU c frees a PCB: that of its own process, or that of a victim.
Freeing(c) == pc[c] = "free" \/ (pc[c] = "reap" /\ victims[c] # <<>>)

\* Where a CPU with a memory operation is, and whose memory the operation is about.
\* Once free_pcb has given back the memory, the PCB itself is still there for a step.
CallOK(c) ==
    /\ call[c] \in {"alloc", "read", "write"} =>
          /\ pc[c] = "slot" /\ proc[c] # NULL
          /\ Instr(c) \in Other /\ Instr(c).op = call[c]
    /\ call[c] = "name" => pc[c] = "call"
    /\ call[c] = "free" => Freeing(c)
    /\ call[c] = "hold" =>
          /\ Freeing(c) \/ (pc[c] \in {"slot", "call"} /\ proc[c] # NULL)
          /\ who = Subject(c)
          /\ at = "reap" <=> Freeing(c)
          /\ pc[c] = "call" => at \in {"fault", "io"} /\ page = 0 /\ val = NULL
    /\ Freeing(c) /\ call[c] = "none" => Subject(c) \notin live

\* Memory goes before its PCB, and only for a CPU that is about to free the PCB.
LiveOK ==
    \A p \in Proc :
       /\ pcb[p] = "freed" => p \notin live
       /\ p \notin live =>
             \/ pcb[p] = "freed"
             \/ \E c \in Cpu : Freeing(c) /\ Subject(c) = p /\ call[c] # "free"

\* From its read to the end of the walk, the name of a killall is what its process
\* has written.
NameOK(c) ==
    /\ pc[c] = "kill" <=> queue_lock = c
    /\ pc[c] = "kill" /\ name[c] # NULL => scan.name = name[c]
    /\ pc[c] \in {"call", "kill"} /\ name[c] # NULL /\ written[proc[c]] # NULL =>
          name[c] = written[proc[c]]

\* What holds of the threads and of their operations.
ThreadInv ==
    /\ OSInv
    /\ SysTypeOK
    /\ LiveOK
    /\ \A c \in Cpu : CallOK(c) /\ NameOK(c)

-----------------------------------------------------------------------------
(* Whose memory an operation is about.                                     *)

\* CPU c has a process, or one to free.
Has(c) == Freeing(c) \/ (proc[c] # NULL /\ pc[c] # "reap")

\* CPUs never work for the same process.
LEMMA Subjects ==
    ASSUME OSInv, NEW c \in Cpu, Has(c)
    PROVE  /\ Subject(c) \in Proc /\ pcb[Subject(c)] # "freed"
           /\ \A d \in Cpu : d # c /\ Has(d) => Subject(d) # Subject(c)
<1> USE DEF OSInv
<1>1. ASSUME NEW d \in Cpu, Has(d)
      PROVE  \/ /\ pc[d] # "reap" /\ Subject(d) = proc[d] /\ proc[d] \in Proc
                /\ pcb[proc[d]] \in {"live", "delisted"}
             \/ /\ pc[d] = "reap" /\ Subject(d) \in Proc /\ InQueue(victims[d], Subject(d))
  <2>1. CASE pc[d] = "reap"
    <3>1. victims[d] # <<>> /\ Subject(d) = Head(victims[d])
      BY <1>1, <2>1 DEF Has, Freeing, Subject
    <3>2. victims[d] \in Seq(Proc) /\ NoDuplicates(victims[d])
      BY DEF IInv, TypeOK, VictimInv
    <3> QED
      BY <2>1, <3>1, <3>2, TailFacts
  <2>2. CASE pc[d] # "reap"
    <3>1. proc[d] # NULL /\ Subject(d) = proc[d]
      BY <1>1, <2>2 DEF Has, Freeing, Subject, ThreadOK, Busy
    <3> QED
      BY <2>2, <3>1 DEF IInv, TypeOK, CpuInv
  <2> QED
    BY <2>1, <2>2
<1>2. Subject(c) \in Proc /\ pcb[Subject(c)] # "freed"
  BY <1>1 DEF IInv, VictimInv
<1>3. ASSUME NEW d \in Cpu, d # c, Has(d) PROVE Subject(d) # Subject(c)
  <2>1. CASE pc[c] # "reap" /\ pc[d] # "reap"
    BY <1>1, <1>3, <2>1, SchedAssumption DEF IInv, CpuInv
  <2>2. CASE pc[c] = "reap" \/ pc[d] = "reap"
    BY <1>1, <1>3, <2>2 DEF IInv, VictimInv
  <2> QED
    BY <2>1, <2>2
<1> QED
  BY <1>2, <1>3

-----------------------------------------------------------------------------
(* What a step of a CPU leaves alone.                                      *)

LEMMA OtherCpus ==
    ASSUME OSInv, NEW d \in Cpu, CpuStep(d), NEW c \in Cpu, c # d
    PROVE  /\ pc'[c] = pc[c] /\ proc'[c] = proc[c] /\ victims'[c] = victims[c]
           /\ code' = code /\ (proc[c] # NULL => ip'[proc[c]] = ip[proc[c]])
           /\ queue_lock' = c <=> queue_lock = c
           /\ queue_lock = c => scan' = scan
<1>1. pc'[c] = pc[c] /\ proc'[c] = proc[c] /\ code' = code
  BY OthersKept DEF SchedFrame, ldvars, confvars
<1>2. proc[c] # NULL => ip'[proc[c]] = ip[proc[c]]
  <2>1. CASE Run(d)
    <3>1. proc[d] # NULL
      BY <2>1 DEF Run, At, OSInv, ThreadOK, Busy
    <3>2. proc[c] # NULL => proc[c] # proc[d]
      BY <3>1 DEF OSInv, IInv, CpuInv
    <3>3. \E n : ip' = [ip EXCEPT ![proc[d]] = n]
      BY <2>1, Zenon DEF Run
    <3> QED
      BY <3>2, <3>3 DEF OSInv, OSTypeOK, IInv, TypeOK
  <2> QED
    BY <2>1, CpuStepShape DEF CpuShape
<1>3. /\ victims'[c] = victims[c]
      /\ queue_lock' = c <=> queue_lock = c
      /\ queue_lock = c => scan' = scan
  <2>1. CASE UNCHANGED vars
    BY <2>1 DEF vars
  <2>2. CASE CpuNext(d)
    <3>1. victims \in [Cpu -> Seq(Proc)] /\ c # NULL
      BY SchedAssumption DEF OSInv, IInv, TypeOK
    <3>2. CASE get_proc(d) \/ put_proc(d) \/ finish_proc(d) \/ free_pcb(d)
      BY <3>2 DEF get_proc, put_proc, finish_proc, free_pcb
    <3>3. ASSUME NEW n \in Names, kill_lock(d, n)
          PROVE  UNCHANGED victims /\ queue_lock = NULL /\ queue_lock' = d
      BY <3>3 DEF kill_lock
    <3>4. CASE kill_step(d)
      BY <3>1, <3>4 DEF kill_step, KillSkip, KillMark, KillTake
    <3>5. CASE kill_unlock(d)
      BY <3>1, <3>5 DEF kill_unlock
    <3>6. CASE free_victim(d)
      BY <3>1, <3>6 DEF free_victim
    <3> QED
      BY <2>2, <3>1, <3>2, <3>3, <3>4, <3>5, <3>6 DEF CpuNext
  <2> QED
    BY <2>1, <2>2, CpuStepIsSched
<1> QED
  BY <1>1, <1>2, <1>3

\* Only the CPU that frees a PCB makes it "freed", and a freed one stays so.
LEMMA FreedBy ==
    ASSUME OSInv, NEW d \in Cpu, CpuStep(d), NEW p \in Proc
    PROVE  /\ pcb[p] = "freed" => pcb'[p] = "freed"
           /\ pcb'[p] = "freed" => pcb[p] = "freed" \/ (Freeing(d) /\ Subject(d) = p)
<1>1. pcb \in [Proc -> PcbState] /\ proc \in [Cpu -> Proc \cup {NULL}]
  BY DEF OSInv, IInv, TypeOK
<1>2. CASE UNCHANGED pcb
  BY <1>2
<1>3. CASE Finish(d)
  <2>1. /\ proc[d] # NULL /\ pcb[proc[d]] = "live"
        /\ pcb' = [pcb EXCEPT ![proc[d]] = "delisted"]
    BY <1>3 DEF Finish, finish_proc
  <2> QED
    BY <1>1, <2>1
<1>4. CASE Free(d)
  <2>1. pc[d] = "free" /\ pcb' = [pcb EXCEPT ![proc[d]] = "freed"]
    BY <1>4 DEF Free, free_pcb, At
  <2> QED
    BY <1>1, <2>1 DEF Freeing, Subject
<1>5. CASE Kill(d)
  <2> DEFINE q == running_list[scan.i]
  <2>1. CASE kill_step(d) /\ KillTake(d, q)
    <3>1. InQueue(running_list, q) /\ q \in Proc
      BY <2>1 DEF kill_step, InQueue, OSInv, IInv, TypeOK
    <3>2. pcb[q] = "live"
      BY <3>1 DEF OSInv, IInv, ListInv
    <3>3. pcb' = [pcb EXCEPT ![q] = "delisted"]
      BY <2>1 DEF KillTake
    <3> QED
      BY <1>1, <3>1, <3>2, <3>3
  <2> QED
    BY <1>2, <1>5, <2>1 DEF Kill, kill_step, KillSkip, KillMark, kill_unlock
<1>6. CASE Reap(d)
  <2>1. CASE free_victim(d)
    <3>1. /\ pc[d] = "reap" /\ victims[d] # <<>>
          /\ pcb' = [pcb EXCEPT ![Head(victims[d])] = "freed"]
      BY <1>6, <2>1 DEF Reap, free_victim, At
    <3> QED
      BY <1>1, <3>1 DEF Freeing, Subject
  <2> QED
    BY <1>2, <1>6, <2>1 DEF Reap, vars
<1>7. CASE Load(d) \/ Get(d) \/ Put(d) \/ Call(d)
  BY <1>2, <1>7, Zenon DEF Load, Get, Put, Call, get_proc, put_proc, kill_lock
<1>8. CASE Check(d) \/ Recheck(d) \/ Run(d) \/ NextSlot(d) \/ CpuDetach(d)
  BY <1>2, <1>8, Zenon DEF Check, Recheck, Run, NextSlot, CpuDetach, vars
<1> QED
  BY <1>3, <1>4, <1>5, <1>6, <1>7, <1>8, Zenon DEF CpuStep

-----------------------------------------------------------------------------
(* The instruction a CPU executes.                                         *)

\* What the instructions carry.
LEMMA Operands ==
    ASSUME NEW i \in Other
    PROVE  /\ i.op \in {"calc", "alloc", "read", "write"}
           /\ i.op = "calc" => i = Calc
           /\ i.op = "alloc" => i.n \in 1 .. NPage
           /\ i.op \in {"read", "write"} => i.page \in 0 .. NPage - 1
           /\ i.op = "write" => i.value \in Names
<1>1. \/ i = Calc
      \/ \E n \in 1 .. NPage : i = Alloc(n)
      \/ \E g \in 0 .. NPage - 1 : i = Read(g)
      \/ \E g \in 0 .. NPage - 1 : \E v \in Names : i = Write(g, v)
  <2>1. i \in MemInstr
    BY SystemAssumption
  <2> QED
    BY <2>1, SMTT(30) DEF MemInstr
<1>2. CASE i = Calc
  BY <1>2 DEF Calc
<1>3. ASSUME NEW n \in 1 .. NPage, i = Alloc(n)
      PROVE  i.op = "alloc" /\ i.n = n
  BY <1>3 DEF Alloc
<1>4. ASSUME NEW g \in 0 .. NPage - 1, i = Read(g)
      PROVE  i.op = "read" /\ i.page = g
  BY <1>4 DEF Read
<1>5. ASSUME NEW g \in 0 .. NPage - 1, NEW v \in Names, i = Write(g, v)
      PROVE  i.op = "write" /\ i.page = g /\ i.value = v
  BY <1>5 DEF Write
<1> QED
  BY <1>1, <1>2, <1>3, <1>4, <1>5

\* The process and the page of an operation.
LEMMA CallTypes ==
    ASSUME OSInv, SysTypeOK, NEW c \in Cpu, CallOK(c), call[c] # "none"
    PROVE  /\ Has(c)
           /\ call[c] \in {"alloc", "read", "write", "name"} =>
                 Subject(c) = proc[c] /\ ~ Freeing(c)
           /\ call[c] \in {"read", "write", "name"} => Target(c) \in 0 .. NPage - 1
           /\ call[c] = "write" => Instr(c).value \in Names
           /\ call[c] = "alloc" => Instr(c).n \in 1 .. NPage
<1>1. call[c] \in {"alloc", "read", "write", "name", "free", "hold"}
  BY DEF SysTypeOK, CallState
<1>2. pc[c] = "call" => proc[c] # NULL
  BY DEF OSInv, ThreadOK, Busy
<1>3. Has(c) /\ (call[c] \in {"alloc", "read", "write", "name"} =>
                    Subject(c) = proc[c] /\ ~ Freeing(c))
  BY <1>1, <1>2 DEF CallOK, Has, Freeing, Subject
<1>4. 0 \in 0 .. NPage - 1
  BY SystemAssumption
<1> QED
  BY <1>3, <1>4, Operands DEF CallOK, Target

-----------------------------------------------------------------------------
(* A CPU goes on in cpu_routine.                                           *)

\* Where the step of CPU c leads it.
LEMMA GoesTo ==
    ASSUME OSInv, SysTypeOK, NEW c \in Cpu, CallOK(c), NameOK(c), CpuGoes(c)
    PROVE  /\ CallOK(c)' /\ NameOK(c)' /\ call'[c] \in CallState
           /\ call'[c] # "hold"
           /\ Freeing(c) => pcb'[Subject(c)] = "freed"
<1> USE DEF At, Goto
<1>0. /\ pc \in [Cpu -> CpuState] /\ proc \in [Cpu -> Proc \cup {NULL}]
      /\ pcb \in [Proc -> PcbState] /\ victims \in [Cpu -> Seq(Proc)]
      /\ ip \in [Proc -> Nat] /\ name \in [Cpu -> Names \cup {NULL}]
      /\ ThreadOK(c) /\ CallOK(c) /\ NameOK(c) /\ c # NULL
  <2>1. c # NULL /\ ThreadOK(c)
    BY SchedAssumption DEF OSInv
  <2>2. pc \in [Cpu -> CpuState] /\ ip \in [Proc -> Nat]
    BY DEF OSInv, OSTypeOK
  <2>3. /\ proc \in [Cpu -> Proc \cup {NULL}] /\ pcb \in [Proc -> PcbState]
        /\ victims \in [Cpu -> Seq(Proc)]
    BY DEF OSInv, IInv, TypeOK
  <2> QED
    BY <2>1, <2>2, <2>3 DEF SysTypeOK
<1>1. /\ CpuStep(c) /\ call[c] = "none" /\ call'[c] = NextCall(c)
      /\ name' = IF pc[c] = "run" THEN [name EXCEPT ![c] = NULL] ELSE name
      /\ UNCHANGED <<pagvars, written>>
      /\ pc[c] = "call" => scan'.name = IF name[c] = NULL THEN NoName ELSE name[c]
  BY DEF CpuGoes, SysTypeOK
<1>2. CASE Run(c)
  <2> DEFINE p == proc[c]
             i == code[p][ip[p] + 1]
  <2>1. /\ pc[c] = "run" /\ p \in Proc /\ UNCHANGED vars /\ code' = code
        /\ pc'[c] = IF ip[p] < Len(code[p]) /\ i \notin Other THEN "call" ELSE "slot"
        /\ ip'[p] = IF ip[p] < Len(code[p]) THEN ip[p] + 1 ELSE ip[p]
    <3>1. pc[c] = "run" /\ p \in Proc
      BY <1>0, <1>2 DEF Run, ThreadOK, Busy
    <3> QED
      BY <1>0, <1>2, <3>1 DEF Run, ldvars, confvars
  <2>2. call'[c] = Wants(p) /\ name'[c] = NULL
    BY <1>0, <1>1, <2>1 DEF NextCall
  <2>3. ~ Freeing(c)' /\ ~ Freeing(c) /\ proc'[c] = p
    BY <2>1 DEF Freeing, vars
  <2>4. queue_lock' # c /\ pc'[c] # "kill"
    BY <1>0, <2>1 DEF NameOK, vars
  <2>5. ip[p] = Len(code[p]) \/ ip[p] < Len(code[p])
    <3>1. code[p] \in Programs /\ ip[p] <= Len(code[p])
      BY <2>1 DEF OSInv, OSTypeOK
    <3>2. code[p] \in Seq(Instruction)
      BY <3>1, OSAssumption
    <3>3. Len(code[p]) \in Nat
      BY <3>2
    <3>4. ip[p] \in Nat
      BY <1>0, <2>1
    <3> HIDE DEF p
    <3> QED
      BY <3>1, <3>3, <3>4
  <2>6. CASE ip[p] = Len(code[p]) \/ i = Calc
    BY <2>2, <2>3, <2>4, <2>6 DEF Wants, CallOK, NameOK, CallState
  <2>7. CASE ip[p] # Len(code[p]) /\ i # Calc /\ i \in Other
    <3>1. i.op \in {"alloc", "read", "write"} /\ call'[c] = i.op
      BY <2>2, <2>7, Operands DEF Wants
    <3>2. ip[p] < Len(code[p])
      BY <2>5, <2>7, Zenon
    <3>3. pc'[c] = "slot" /\ ip'[p] = ip[p] + 1
      BY <2>1, <2>7, <3>2
    <3>4. proc'[c] # NULL /\ Instr(c)' = i
      BY <2>1, <2>3, <3>3, SchedAssumption DEF Instr
    <3> QED
      BY <2>2, <2>3, <2>4, <2>7, <3>1, <3>3, <3>4 DEF CallOK, NameOK, CallState
  <2>8. CASE ip[p] # Len(code[p]) /\ i # Calc /\ i \notin Other
    <3>1. ip[p] < Len(code[p])
      BY <2>5, <2>8, Zenon
    <3>2. pc'[c] = "call"
      BY <2>1, <2>8, <3>1
    <3>3. call'[c] = "name"
      BY <2>2, <2>8 DEF Wants
    <3> QED
      BY <2>2, <2>3, <2>4, <3>2, <3>3 DEF CallOK, NameOK, CallState
  <2> QED
    BY <2>3, <2>6, <2>7, <2>8
<1>3. ASSUME ~ Run(c)
      PROVE  CallOK(c)' /\ call'[c] \in CallState /\ call'[c] # "hold" /\ name' = name
  <2>1. pc[c] # "run"
    BY <1>1, <1>3 DEF CpuStep, Load, Check, Finish, Free, Put, Get, Recheck, Call, Kill,
                      Reap, NextSlot, CpuDetach
  <2>2. call'[c] = IF Freeing(c)' THEN "free" ELSE "none"
    BY <1>1, <2>1 DEF NextCall, Freeing
  <2> QED
    BY <1>1, <2>1, <2>2 DEF CallOK, CallState
<1>4. ASSUME ~ Run(c), pc'[c] \notin {"call", "kill"}, queue_lock' # c
      PROVE  NameOK(c)'
  BY <1>4 DEF NameOK
<1>5. ~ Freeing(c) \/ Free(c) \/ Reap(c)
  BY <1>1 DEF CpuStep, Load, Check, Finish, Put, Get, Recheck, Run, Call, Kill,
              NextSlot, CpuDetach, Freeing
<1>6. CASE Load(c) \/ Get(c) \/ Put(c) \/ Finish(c)
  <2>1. UNCHANGED queue_lock /\ queue_lock = NULL
    BY <1>6 DEF Load, Get, Put, Finish, get_proc, put_proc, finish_proc
  <2>2. pc'[c] \in {"slot", "recheck", "get", "free"} /\ pc[c] \notin {"run", "free", "reap"}
    BY <1>0, <1>6 DEF Load, Get, Put, Finish
  <2>3. ~ Run(c) /\ ~ Freeing(c)
    BY <2>2 DEF Run, Freeing
  <2> QED
    BY <1>0, <1>3, <1>4, <2>1, <2>2, <2>3
<1>7. CASE Check(c) \/ Recheck(c) \/ NextSlot(c) \/ CpuDetach(c)
  <2>1. UNCHANGED queue_lock /\ pc[c] \notin {"run", "free", "reap", "kill"}
    BY <1>7 DEF Check, Recheck, NextSlot, CpuDetach, vars
  <2>2. pc'[c] \notin {"call", "kill"}
    BY <1>0, <1>7 DEF Check, Recheck, NextSlot, CpuDetach, Test
  <2>3. ~ Run(c) /\ ~ Freeing(c) /\ queue_lock # c
    BY <1>0, <2>1 DEF Run, Freeing, NameOK
  <2> QED
    BY <1>3, <1>4, <2>1, <2>2, <2>3
<1>8. CASE Free(c)
  <2>1. /\ pc[c] = "free" /\ pc'[c] = "get" /\ UNCHANGED queue_lock /\ proc[c] \in Proc
        /\ pcb'[proc[c]] = "freed"
    BY <1>0, <1>8 DEF Free, free_pcb
  <2>2. ~ Run(c) /\ queue_lock # c /\ Subject(c) = proc[c]
    BY <1>0, <2>1 DEF Run, NameOK, Subject
  <2> QED
    BY <1>3, <1>4, <2>1, <2>2
<1>9. CASE Reap(c)
  <2>1. pc[c] = "reap" /\ pc'[c] \in {"reap", "slot"} /\ UNCHANGED queue_lock
    BY <1>0, <1>9 DEF Reap, free_victim, vars
  <2>2. ~ Run(c) /\ queue_lock # c
    BY <1>0, <2>1 DEF Run, NameOK
  <2>3. ASSUME Freeing(c) PROVE pcb'[Subject(c)] = "freed"
    <3>1. free_victim(c) /\ Subject(c) = Head(victims[c]) /\ Subject(c) \in Proc
      BY <1>9, <2>1, <2>3, Subjects DEF Reap, Freeing, Subject, Has
    <3> QED
      BY <1>0, <3>1 DEF free_victim
  <2> QED
    BY <1>3, <1>4, <2>1, <2>2, <2>3
<1>10. CASE Call(c)
  <2>1. /\ pc[c] = "call" /\ pc'[c] = "kill" /\ queue_lock' = c /\ UNCHANGED proc
    BY <1>0, <1>10 DEF Call, kill_lock
  <2>2. ~ Run(c) /\ ~ Freeing(c)
    BY <2>1 DEF Run, Freeing
  <2>3. NameOK(c)'
    BY <1>0, <1>1, <1>3, <2>1, <2>2 DEF NameOK
  <2> QED
    BY <1>3, <2>2, <2>3
<1>11. CASE Kill(c)
  <2>1. pc[c] = "kill" /\ ~ Run(c) /\ ~ Freeing(c)
    BY <1>11 DEF Kill, Run, Freeing
  <2>2. CASE kill_step(c) /\ UNCHANGED pc
    <3>1. UNCHANGED <<queue_lock, proc>> /\ scan'.name = scan.name
      <4>1. scan \in [name : Names \cup {NULL}, i : Nat \ {0}]
        BY DEF OSInv, IInv, TypeOK
      <4>2. scan' = scan \/ scan' = [scan EXCEPT !.i = @ + 1]
        BY <2>2 DEF kill_step, KillSkip, KillMark, KillTake
      <4>3. UNCHANGED <<queue_lock, proc>>
        BY <2>2 DEF kill_step, KillSkip, KillMark, KillTake
      <4> QED
        BY <4>1, <4>2, <4>3, ScanAdvance
    <3> QED
      BY <1>0, <1>1, <1>3, <2>1, <2>2, <3>1 DEF NameOK
  <2>3. CASE kill_unlock(c) /\ Goto(c, "reap")
    <3>1. pc'[c] = "reap" /\ queue_lock' = NULL
      BY <1>0, <2>3 DEF kill_unlock
    <3> QED
      BY <1>0, <1>3, <1>4, <2>1, <3>1
  <2> QED
    BY <1>11, <2>2, <2>3 DEF Kill
<1> QED
  BY <1>1, <1>2, <1>6, <1>7, <1>8, <1>9, <1>10, <1>11 DEF CpuStep

\* A step that leaves the memory and CPU c alone keeps what holds of c.
LEMMA CpuKept ==
    ASSUME NEW c \in Cpu, CallOK(c), NameOK(c),
           UNCHANGED <<pagvars, written>>, call'[c] = call[c], name'[c] = name[c],
           pc'[c] = pc[c], proc'[c] = proc[c], victims'[c] = victims[c], code' = code,
           proc[c] # NULL => ip'[proc[c]] = ip[proc[c]],
           queue_lock' = c <=> queue_lock = c, queue_lock = c => scan' = scan
    PROVE  /\ CallOK(c)' /\ NameOK(c)'
           /\ Freeing(c)' <=> Freeing(c)
           /\ Subject(c)' = Subject(c)
<1>1. Freeing(c)' <=> Freeing(c)
  BY DEF Freeing
<1>2. Subject(c)' = Subject(c)
  BY DEF Subject
<1>3. proc[c] # NULL => Instr(c)' = Instr(c)
  BY DEF Instr
<1>4. CallOK(c)'
  BY <1>1, <1>2, <1>3, Zenon DEF CallOK, pagvars
<1>5. NameOK(c)'
  BY DEF NameOK
<1> QED
  BY <1>1, <1>2, <1>4, <1>5

LEMMA GoesKeeps ==
    ASSUME ThreadInv, NEW c \in Cpu, CpuGoes(c), OSInv'
    PROVE  ThreadInv'
<1> USE DEF ThreadInv
<1>1. /\ CpuStep(c) /\ call[c] = "none" /\ UNCHANGED <<pagvars, written>>
      /\ call \in [Cpu -> CallState] /\ name \in [Cpu -> Names \cup {NULL}]
      /\ call' = [call EXCEPT ![c] = NextCall(c)]
      /\ name' = name \/ name' = [name EXCEPT ![c] = NULL]
  BY DEF CpuGoes, SysTypeOK
<1>2. /\ CallOK(c)' /\ NameOK(c)' /\ call'[c] \in CallState /\ call'[c] # "hold"
      /\ Freeing(c) => pcb'[Subject(c)] = "freed"
  BY GoesTo DEF ThreadInv
<1>3. \A d \in Cpu : d # c => call'[d] = call[d] /\ name'[d] = name[d]
  BY <1>1
<1>4. ASSUME NEW d \in Cpu, d # c
      PROVE  /\ CallOK(d)' /\ NameOK(d)'
             /\ Freeing(d)' <=> Freeing(d)
             /\ Subject(d)' = Subject(d)
  <2>1. /\ pc'[d] = pc[d] /\ proc'[d] = proc[d] /\ victims'[d] = victims[d]
        /\ code' = code /\ (proc[d] # NULL => ip'[proc[d]] = ip[proc[d]])
        /\ queue_lock' = d <=> queue_lock = d
        /\ queue_lock = d => scan' = scan
    BY <1>1, <1>4, OtherCpus
  <2> QED
    BY <1>1, <1>3, <1>4, <2>1, CpuKept
<1>5. SysTypeOK'
  <2>1. call' \in [Cpu -> CallState] /\ name' \in [Cpu -> Names \cup {NULL}]
    BY <1>1, <1>2
  <2>2. \A d \in Cpu : call'[d] = "hold" <=> call[d] = "hold"
    BY <1>1, <1>2, <1>3
  <2>3. at' = at /\ written' = written
    BY <1>1 DEF pagvars
  <2> QED
    BY <2>1, <2>2, <2>3 DEF SysTypeOK
<1>6. LiveOK'
  <2> SUFFICES ASSUME NEW p \in Proc
               PROVE  /\ pcb'[p] = "freed" => p \notin live
                      /\ p \notin live =>
                            \/ pcb'[p] = "freed"
                            \/ \E e \in Cpu : Freeing(e)' /\ Subject(e)' = p /\ call'[e] # "free"
    BY <1>1 DEF LiveOK, pagvars
  <2>1. pcb'[p] = "freed" => p \notin live
    BY <1>1, FreedBy DEF LiveOK, CallOK
  <2>2. ASSUME p \notin live, pcb[p] # "freed"
        PROVE  \/ pcb'[p] = "freed"
               \/ \E e \in Cpu : Freeing(e)' /\ Subject(e)' = p /\ call'[e] # "free"
    <3>1. PICK e \in Cpu : Freeing(e) /\ Subject(e) = p /\ call[e] # "free"
      BY <2>2 DEF LiveOK
    <3>2. CASE e = c
      BY <1>2, <3>1, <3>2
    <3>3. CASE e # c
      BY <1>3, <1>4, <3>1, <3>3
    <3> QED
      BY <3>2, <3>3
  <2> QED
    BY <1>1, <2>1, <2>2, FreedBy
<1> QED
  BY <1>2, <1>4, <1>5, <1>6

-----------------------------------------------------------------------------
(* The steps of the loader and of the timer.                               *)

LEMMA OthersKeep ==
    ASSUME ThreadInv, Others, OSInv'
    PROVE  ThreadInv'
<1> USE DEF ThreadInv
<1>1. UNCHANGED <<pagvars, call, name, written>>
  BY DEF Others
<1>2. /\ UNCHANGED <<pc, proc, victims, code, ip, queue_lock, scan>>
      /\ \A p \in Proc : pcb'[p] = "freed" <=> pcb[p] = "freed"
  <2>1. CASE TimerStep
    BY <2>1 DEF TimerStep, vars, cpuvars, confvars
  <2>2. CASE LdStep
    <3>1. UNCHANGED <<pc, code, ip>>
      BY <2>2, Zenon DEF LdStep, LdWait, LdAdd, LdNextSlot, LdDone, LdDetach, cpuvars, confvars
    <3>2. ASSUME NEW q \in Proc, add_proc(q)
          PROVE  /\ UNCHANGED <<proc, victims, queue_lock, scan>>
                 /\ \A p \in Proc : pcb'[p] = "freed" <=> pcb[p] = "freed"
      BY <3>2 DEF add_proc, OSInv, IInv, TypeOK
    <3>3. CASE UNCHANGED vars
      BY <3>1, <3>3 DEF vars
    <3> QED
      BY <2>2, <3>1, <3>2, <3>3, LdStepIsSched DEF OSInv
  <2> QED
    BY <2>1, <2>2 DEF Others
<1>3. ASSUME NEW d \in Cpu
      PROVE  /\ CallOK(d)' /\ NameOK(d)'
             /\ Freeing(d)' <=> Freeing(d)
             /\ Subject(d)' = Subject(d)
  BY <1>1, <1>2, CpuKept
<1>4. SysTypeOK'
  BY <1>1 DEF SysTypeOK, pagvars
<1>5. LiveOK'
  BY <1>1, <1>2, <1>3 DEF LiveOK, pagvars
<1> QED
  BY <1>3, <1>4, <1>5

-----------------------------------------------------------------------------
(* The steps of a memory operation.                                        *)

\* They leave the threads alone.
LEMMA ThreadsKept ==
    ASSUME UNCHANGED osvars
    PROVE  /\ UNCHANGED <<pc, proc, victims, code, ip, queue_lock, scan, pcb>>
           /\ \A d \in Cpu : (Freeing(d)' <=> Freeing(d)) /\ Subject(d)' = Subject(d)
                             /\ Instr(d)' = Instr(d)
<1>1. UNCHANGED <<pc, proc, victims, code, ip, queue_lock, scan, pcb>>
  BY DEF osvars, vars, confvars
<1> QED
  BY <1>1 DEF Freeing, Subject, Instr

\* What a call for mmvm_lock does to the memory.
EnterDoes(c) ==
    /\ at = "idle" /\ at' # "idle" /\ who' = Subject(c)
    /\ at' = "reap" <=> Freeing(c)
    /\ call[c] = "free" <=> Freeing(c)
    /\ call[c] = "name" => at' \in {"fault", "io"} /\ page' = 0 /\ val' = NULL
    /\ UNCHANGED <<pgd, ram, swp>>
    /\ live' = IF Freeing(c) THEN live \ {Subject(c)} ELSE live

LEMMA EnterKeeps ==
    ASSUME ThreadInv, NEW c \in Cpu, Enter(c), OSInv', EnterDoes(c)
    PROVE  ThreadInv'
<1> USE DEF ThreadInv
<1>1. /\ at = "idle" /\ at' # "idle" /\ who' = Subject(c)
      /\ at' = "reap" <=> Freeing(c)
      /\ call[c] = "free" <=> Freeing(c)
      /\ call[c] = "name" => at' \in {"fault", "io"} /\ page' = 0 /\ val' = NULL
      /\ UNCHANGED <<pgd, ram, swp>>
      /\ live' = IF Freeing(c) THEN live \ {Subject(c)} ELSE live
  BY DEF EnterDoes
<1>2. /\ UNCHANGED <<name, written>> /\ call \in [Cpu -> CallState]
      /\ call' = [call EXCEPT ![c] = "hold"] /\ call[c] \notin {"none", "hold"}
      /\ UNCHANGED osvars
  BY DEF Enter, SysTypeOK
<1>3. call'[c] = "hold" /\ \A d \in Cpu : d # c => call'[d] = call[d] /\ call[d] # "hold"
  BY <1>1, <1>2 DEF SysTypeOK
<1>4. /\ UNCHANGED <<pc, proc, queue_lock, scan, pcb>>
      /\ \A d \in Cpu : (Freeing(d)' <=> Freeing(d)) /\ Subject(d)' = Subject(d)
                        /\ Instr(d)' = Instr(d)
  BY <1>2, ThreadsKept
<1>5. CallOK(c)'
  <2>1. Freeing(c) \/ (pc[c] \in {"slot", "call"} /\ proc[c] # NULL)
    BY <1>2, CallTypes DEF CallOK, Has, SysTypeOK, CallState
  <2>2. pc[c] = "call" => call[c] = "name"
    BY <1>1, <1>2 DEF CallOK, Freeing, SysTypeOK, CallState
  <2> QED
    BY <1>1, <1>3, <1>4, <2>1, <2>2 DEF CallOK
<1>6. ASSUME NEW d \in Cpu, d # c PROVE CallOK(d)'
  BY <1>1, <1>3, <1>4, <1>6 DEF CallOK
<1>7. \A d \in Cpu : NameOK(d)'
  BY <1>2, <1>4 DEF NameOK
<1>8. SysTypeOK'
  <2>1. call' \in [Cpu -> CallState]
    BY <1>2 DEF CallState
  <2> QED
    BY <1>1, <1>2, <1>3, <2>1 DEF SysTypeOK
<1>9. LiveOK'
  <2>1. \A p \in Proc : pcb'[p] = "freed" => p \notin live'
    BY <1>1, <1>4 DEF LiveOK
  <2>2. ASSUME NEW p \in Proc, p \notin live', pcb'[p] # "freed"
        PROVE  \E e \in Cpu : Freeing(e)' /\ Subject(e)' = p /\ call'[e] # "free"
    <3>1. CASE Freeing(c) /\ p = Subject(c)
      BY <1>3, <1>4, <3>1
    <3>2. CASE p \notin live
      <4>1. PICK e \in Cpu : Freeing(e) /\ Subject(e) = p /\ call[e] # "free"
        BY <1>4, <2>2, <3>2 DEF LiveOK
      <4> QED
        BY <1>3, <1>4, <4>1
    <3> QED
      BY <1>1, <2>2, <3>1, <3>2
  <2> QED
    BY <2>1, <2>2 DEF LiveOK
<1> QED
  BY <1>5, <1>6, <1>7, <1>8, <1>9

LEMMA RefusedKeeps ==
    ASSUME ThreadInv, NEW c \in Cpu, Refused(c), OSInv'
    PROVE  ThreadInv'
<1> USE DEF ThreadInv
<1>1. /\ UNCHANGED <<pagvars, name, written>> /\ call \in [Cpu -> CallState]
      /\ call' = [call EXCEPT ![c] = "none"] /\ call[c] \in {"read", "write", "name"}
      /\ UNCHANGED osvars
  BY DEF Refused, SysTypeOK
<1>2. call'[c] = "none" /\ \A d \in Cpu : d # c => call'[d] = call[d]
  BY <1>1
<1>3. /\ UNCHANGED <<pc, proc, victims, code, ip, queue_lock, scan, pcb>>
      /\ \A d \in Cpu : (Freeing(d)' <=> Freeing(d)) /\ Subject(d)' = Subject(d)
  BY <1>1, ThreadsKept
<1>4. ~ Freeing(c)
  BY <1>1, CallTypes
<1>5. CallOK(c)'
  BY <1>2, <1>3, <1>4 DEF CallOK
<1>6. ASSUME NEW d \in Cpu, d # c PROVE CallOK(d)'
  BY <1>1, <1>2, <1>3, <1>6, CpuKept
<1>7. \A d \in Cpu : NameOK(d)'
  BY <1>1, <1>3 DEF NameOK
<1>8. SysTypeOK'
  <2>1. call' \in [Cpu -> CallState]
    BY <1>1 DEF CallState
  <2>2. \A d \in Cpu : call'[d] = "hold" <=> call[d] = "hold"
    BY <1>1, <1>2
  <2> QED
    BY <1>1, <2>1, <2>2 DEF SysTypeOK, pagvars
<1>9. LiveOK'
  <2>1. \A e \in Cpu : Freeing(e) /\ call[e] # "free" => call'[e] # "free"
    BY <1>2
  <2> QED
    BY <1>1, <1>3, <2>1 DEF LiveOK, pagvars
<1> QED
  BY <1>5, <1>6, <1>7, <1>8, <1>9

LEMMA StutterKeeps ==
    ASSUME ThreadInv, UNCHANGED sysvars, OSInv'
    PROVE  ThreadInv'
<1>1. UNCHANGED <<pagvars, call, name, written, osvars>>
  BY DEF sysvars
<1>2. UNCHANGED <<pc, proc, victims, code, ip, queue_lock, scan, pcb>>
  BY <1>1, ThreadsKept
<1>3. \A c \in Cpu : /\ CallOK(c)' /\ NameOK(c)' /\ Subject(c)' = Subject(c)
                     /\ Freeing(c)' <=> Freeing(c)
  BY <1>1, <1>2, CpuKept DEF ThreadInv
<1>4. SysTypeOK' /\ LiveOK'
  BY <1>1, <1>2, <1>3 DEF ThreadInv, SysTypeOK, LiveOK, pagvars
<1> QED
  BY <1>3, <1>4 DEF ThreadInv

LEMMA ThreadInvInit ==
    ASSUME SysInit
    PROVE  ThreadInv
<1>1. OSInv
  BY OSInvInit DEF SysInit
<1>2. /\ pc = [c \in Cpu |-> "top"] /\ pcb = [p \in Proc |-> "unloaded"]
      /\ queue_lock = NULL /\ live = Proc /\ at = "idle"
      /\ call = [c \in Cpu |-> "none"] /\ name = [c \in Cpu |-> NULL]
      /\ written = [p \in Proc |-> NULL]
  BY DEF SysInit, OSInit, Init, M!PagingInit
<1>3. SysTypeOK /\ LiveOK
  BY <1>2 DEF SysTypeOK, LiveOK, CallState
<1>4. \A c \in Cpu : CallOK(c) /\ NameOK(c)
  BY <1>2, SchedAssumption DEF CallOK, NameOK, Freeing
<1> QED
  BY <1>1, <1>3, <1>4 DEF ThreadInv
=============================================================================
