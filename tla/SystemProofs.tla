--------------------------- MODULE SystemProofs ---------------------------
(***************************************************************************)
(* Theorems about the composition of threads and memory, for any number of *)
(* processes, CPUs, pages and frames and any programs.  What OSProofs and  *)
(* PagingProofs show of the two halves carries over to it.                 *)
(***************************************************************************)
EXTENDS SystemThreads

MP == INSTANCE PagingProofs WITH Val <- Names, Zero <- NoName

LEMMA MemoryAssumed == MP!PagingAssumption
  BY SystemAssumption DEF MP!PagingAssumption

-----------------------------------------------------------------------------
(* The memory of System is that of PagingProofs.                           *)

LEMMA SameInit == M!PagingInit => MP!PagingInit
  BY DEF M!PagingInit, MP!PagingInit, M!Page, MP!Page, M!RamFrame, MP!RamFrame,
         M!SwpFrame, MP!SwpFrame, M!None, MP!None

LEMMA SameStep == M!Step => MP!Step
<1> USE DEF M!WantsFrame, MP!WantsFrame, M!Unlock, MP!Unlock, M!memory, MP!memory,
            M!freefp, MP!freefp, M!after_get, MP!after_get, M!put_freefp, MP!put_freefp,
            M!swap_cp_page, MP!swap_cp_page, M!enlist_pgn_node, MP!enlist_pgn_node,
            M!victim, MP!victim, M!younger, MP!younger, M!reenlist, MP!reenlist,
            M!InRam, MP!InRam, M!InSwp, MP!InSwp, M!None, MP!None
<1>1. M!get_freefp => MP!get_freefp
  BY DEF M!get_freefp, MP!get_freefp
<1>2. M!swap_out_page => MP!swap_out_page
  BY DEF M!swap_out_page, MP!swap_out_page
<1>3. M!no_frame => MP!no_frame
  BY DEF M!no_frame, MP!no_frame
<1>4. M!undo_frame => MP!undo_frame
  BY DEF M!undo_frame, MP!undo_frame
<1>5. M!undo_done => MP!undo_done
  BY DEF M!undo_done, MP!undo_done
<1>6. M!begin_map => MP!begin_map
  BY DEF M!begin_map, MP!begin_map
<1>7. M!map_page => MP!map_page
  BY DEF M!map_page, MP!map_page
<1>8. M!map_done => MP!map_done
  BY DEF M!map_done, MP!map_done
<1>9. M!load_page => MP!load_page
  BY DEF M!load_page, MP!load_page
<1>10. M!io => MP!io
  BY DEF M!io, MP!io
<1>11. M!free_page => MP!free_page
  BY DEF M!free_page, MP!free_page
<1>12. M!free_done => MP!free_done
  BY DEF M!free_done, MP!free_done
<1> QED
  BY ONLY <1>1, <1>2, <1>3, <1>4, <1>5, <1>6, <1>7, <1>8, <1>9, <1>10, <1>11, <1>12
  DEF M!Step, MP!Step

\* The calls that begin an operation.
LEMMA SameCalls ==
    ASSUME NEW p, NEW n, NEW g, NEW v
    PROVE  /\ M!inc_vma_limit(p, n) => MP!inc_vma_limit(p, n)
           /\ M!access(p, g, v) => MP!access(p, g, v)
           /\ M!free_pcb(p) => MP!free_pcb(p)
  BY DEF M!inc_vma_limit, MP!inc_vma_limit, M!access, MP!access, M!free_pcb, MP!free_pcb,
         M!Lock, MP!Lock, M!None, MP!None, M!memory, MP!memory

\* Page 0 of a process holds what it has written there.
WrittenOK ==
    \A p \in Proc : p \in live /\ written[p] # NULL => MP!Content[p][0] = written[p]

SysInv ==
    /\ ThreadInv
    /\ MP!MemInv
    /\ WrittenOK

-----------------------------------------------------------------------------
(* The memory operations are steps of Paging.                              *)

\* A call for mmvm_lock is one of Paging, for the process the CPU works for.
LEMMA EnterIsPaging ==
    ASSUME OSInv, SysTypeOK, NEW c \in Cpu, CallOK(c), Enter(c)
    PROVE  MP!PagingNext /\ EnterDoes(c)
<1> USE DEF EnterDoes
<1>1. Has(c) /\ Subject(c) \in Proc /\ call[c] \notin {"none", "hold"}
  BY CallTypes, Subjects DEF Enter
<1>2. CASE call[c] = "alloc"
  <2>1. /\ MP!inc_vma_limit(proc[c], Instr(c).n) /\ Instr(c).n \in 1 .. NPage
        /\ Subject(c) = proc[c] /\ ~ Freeing(c)
    BY <1>2, CallTypes, SameCalls DEF Enter
  <2> QED
    BY <1>1, <1>2, <2>1 DEF MP!PagingNext, MP!inc_vma_limit, MP!Lock, MP!memory
<1>3. CASE call[c] \in {"read", "name", "write"}
  <2>1. PICK v \in Names \cup {NULL} :
           MP!access(proc[c], Target(c), v) /\ (call[c] = "name" => v = NULL)
    BY <1>3, CallTypes, SameCalls DEF Enter
  <2>2. Target(c) \in MP!Page /\ Subject(c) = proc[c] /\ ~ Freeing(c)
        /\ (call[c] = "name" => Target(c) = 0)
    BY <1>3, CallTypes DEF Target, MP!Page
  <2>3. MP!PagingNext
    BY <1>1, <2>1, <2>2 DEF MP!PagingNext
  <2> QED
    BY <1>3, <2>1, <2>2, <2>3 DEF MP!access, MP!Lock, MP!memory
<1>4. CASE call[c] = "free"
  <2>1. MP!free_pcb(Subject(c)) /\ Freeing(c)
    BY <1>4, SameCalls DEF Enter, CallOK
  <2>2. MP!PagingNext
    BY <1>1, <2>1 DEF MP!PagingNext
  <2> QED
    BY <1>4, <2>1, <2>2 DEF MP!free_pcb, MP!Lock
<1> QED
  BY <1>1, <1>2, <1>3, <1>4 DEF SysTypeOK, CallState

\* Every step of the simulator is a step of the memory, or leaves it alone.
LEMMA SysStepIsPaging == SysInv /\ [SysNext]_sysvars => [MP!PagingNext]_(MP!pvars)
<1> SUFFICES ASSUME SysInv, [SysNext]_sysvars
             PROVE  MP!PagingNext \/ UNCHANGED MP!pvars
  OBVIOUS
<1>1. ASSUME NEW c \in Cpu, Enter(c) PROVE MP!PagingNext
  BY <1>1, EnterIsPaging DEF SysInv, ThreadInv
<1>2. ASSUME NEW c \in Cpu, Inside(c) PROVE MP!PagingNext
  BY <1>2, SameStep DEF Inside, MP!PagingNext
<1>3. UNCHANGED pagvars => UNCHANGED MP!pvars
  BY DEF pagvars, MP!pvars, MP!memory, MP!opvars
<1> QED
  BY <1>1, <1>2, <1>3 DEF SysNext, sysvars, Others, CpuThread, CpuGoes, Refused

\* So the memory keeps its invariant in the simulator.
LEMMA MemoryKept ==
    ASSUME SysInv, [SysNext]_sysvars
    PROVE  MP!MemInv'
  BY SysStepIsPaging, MemoryAssumed, MP!MemInvStep DEF SysInv

\* The pages hold what they held.
LEMMA WrittenKept ==
    ASSUME WrittenOK, UNCHANGED <<pgd, ram, swp, written>>, live' \subseteq live
    PROVE  WrittenOK'
<1>1. MP!Content' = MP!Content
  BY MemoryAssumed, MP!SameContent
<1> QED
  BY <1>1 DEF WrittenOK

\* A read or a write stays one until it returns.
LEMMA AccessStep ==
    ASSUME MP!Step, at \in {"fault", "io"}
    PROVE  at' = "idle" \/ (at' \in {"fault", "io"} /\ UNCHANGED <<page, val>>)
  BY DEF MP!Step, MP!get_freefp, MP!swap_out_page, MP!no_frame, MP!undo_frame,
         MP!undo_done, MP!begin_map, MP!map_page, MP!map_done, MP!load_page, MP!io,
         MP!free_page, MP!free_done, MP!Unlock

\* At "io" the step is the read or the write itself.
LEMMA IoStep == MP!Step /\ at = "io" => MP!io
  BY DEF MP!Step, MP!get_freefp, MP!swap_out_page, MP!no_frame, MP!undo_frame,
         MP!undo_done, MP!begin_map, MP!map_page, MP!map_done, MP!load_page,
         MP!free_page, MP!free_done, MP!WantsFrame

\* What a step does to page 0 of a process that has it.
LEMMA PageZero ==
    ASSUME MP!MemInv, MP!Step, NEW p \in Proc, p \in live, MP!Content[p][0] # NULL
    PROVE  MP!Content'[p][0] =
              IF at = "io" /\ val # NULL /\ page = 0 /\ who = p THEN val
              ELSE MP!Content[p][0]
<1>1. MP!PagingInv /\ 0 \in MP!Page
  BY SystemAssumption DEF MP!MemInv, MP!Page
<1>2. CASE at # "io"
  BY <1>1, <1>2, MemoryAssumed, MP!ContentStep
<1>3. CASE at = "io"
  <2>1. MP!io
    BY <1>3, IoStep
  <2>2. CASE val = NULL
    BY <1>1, <2>1, <2>2, MemoryAssumed, MP!ReadContent
  <2>3. CASE val # NULL
    <3>1. MP!Content' = [MP!Content EXCEPT ![who][page] = val]
      BY <1>1, <2>1, <2>3, MemoryAssumed, MP!WriteContent
    <3>2. MP!Content \in [Proc -> [MP!Page -> Names \cup {NULL}]]
      BY <1>1, MemoryAssumed, MP!ContentType
    <3>3. MP!Content'[p][0] = IF who = p /\ page = 0 THEN val ELSE MP!Content[p][0]
      BY <1>1, <3>1, <3>2, MemoryAssumed, MP!OneCell
    <3> QED
      BY <1>3, <2>3, <3>3
  <2> QED
    BY <2>2, <2>3
<1> QED
  BY <1>2, <1>3

\* A read returns what its page holds.
LEMMA ReadZero ==
    ASSUME MP!MemInv, MP!Step, at = "io", val = NULL, page = 0
    PROVE  data' = MP!Content[who][0]
  BY IoStep, MemoryAssumed, MP!ReadContent DEF MP!MemInv

LEMMA InsideInv ==
    ASSUME SysInv, NEW c \in Cpu, Inside(c), OSInv', MP!MemInv'
    PROVE  SysInv'
<1> USE DEF SysInv, ThreadInv
<1> DEFINE writes == at = "io" /\ val # NULL /\ page = 0
           reads == at = "io" /\ pc[c] = "call"
<1>1. /\ MP!Step /\ call[c] = "hold" /\ UNCHANGED osvars
      /\ call' = [call EXCEPT ![c] = IF at' = "idle" THEN "none" ELSE @]
      /\ name' = IF reads THEN [name EXCEPT ![c] = data'] ELSE name
      /\ written' = IF writes THEN [written EXCEPT ![who] = val] ELSE written
      /\ call \in [Cpu -> CallState] /\ name \in [Cpu -> Names \cup {NULL}]
      /\ written \in [Proc -> Names \cup {NULL}]
  BY SameStep DEF Inside, SysTypeOK
<1>2. /\ at # "idle" /\ UNCHANGED live
      /\ at' = "idle" \/ (who' = who /\ (at' = "reap" <=> at = "reap"))
  BY <1>1, MemoryAssumed, MP!OwnPages, MP!SameCaller
<1>3. /\ call'[c] = IF at' = "idle" THEN "none" ELSE "hold"
      /\ \A d \in Cpu : d # c => call'[d] = call[d] /\ call[d] # "hold"
  BY <1>1 DEF SysTypeOK
<1>4. /\ UNCHANGED <<pc, proc, victims, queue_lock, scan, pcb>>
      /\ \A d \in Cpu : (Freeing(d)' <=> Freeing(d)) /\ Subject(d)' = Subject(d)
                        /\ Instr(d)' = Instr(d)
  BY <1>1, ThreadsKept
<1>5. /\ Freeing(c) \/ (pc[c] \in {"slot", "call"} /\ proc[c] # NULL)
      /\ who = Subject(c)
      /\ at = "reap" <=> Freeing(c)
      /\ pc[c] = "call" => at \in {"fault", "io"} /\ page = 0 /\ val = NULL
  BY <1>1 DEF CallOK
<1>6. /\ at # "reap" => who \in live
      /\ at = "reap" => who \notin live
      /\ who \in Proc /\ val \in Names \cup {NULL} /\ data' \in Names \cup {NULL}
  BY <1>2 DEF MP!MemInv, MP!PagingInv, MP!OpOK, MP!PagingTypeOK
<1>7. CallOK(c)'
  <2>1. CASE at' = "idle"
    BY <1>2, <1>3, <1>4, <1>5, <1>6, <2>1 DEF CallOK
  <2>2. CASE at' # "idle"
    <3>1. call'[c] = "hold" /\ who' = who /\ (at' = "reap" <=> at = "reap")
      BY <1>2, <1>3, <2>2
    <3>2. pc[c] = "call" => at' \in {"fault", "io"} /\ page' = 0 /\ val' = NULL
      BY <1>1, <1>5, <2>2, AccessStep
    <3> QED
      BY <1>4, <1>5, <3>1, <3>2 DEF CallOK
  <2> QED
    BY <2>1, <2>2
<1>8. ASSUME NEW d \in Cpu, d # c PROVE CallOK(d)'
  BY <1>2, <1>3, <1>4, <1>8 DEF CallOK
<1>9. NameOK(c)'
  <2>1. CASE reads
    <3>1. /\ ~ writes /\ written' = written /\ name'[c] = data' /\ pc[c] = "call"
          /\ proc[c] = who /\ who \in live
      BY <1>1, <1>5, <1>6, <2>1 DEF Subject
    <3>2. data' = MP!Content[who][0]
      BY <1>1, <1>5, <2>1, ReadZero
    <3>3. written[who] # NULL => name'[c] = written[who]
      BY <1>6, <3>1, <3>2 DEF WrittenOK
    <3> QED
      BY <1>4, <3>1, <3>3 DEF NameOK
  <2>2. CASE ~ reads
    <3>1. pc[c] \in {"call", "kill"} => ~ writes
      BY <1>5, <2>2 DEF Freeing
    <3> QED
      BY <1>1, <1>4, <2>2, <3>1 DEF NameOK
  <2> QED
    BY <2>1, <2>2
<1>10. ASSUME NEW d \in Cpu, d # c PROVE NameOK(d)'
  <2>1. name'[d] = name[d]
    BY <1>1, <1>10
  <2>2. pc[d] \in {"call", "kill"} => written'[proc[d]] = written[proc[d]]
    <3>1. ASSUME pc[d] \in {"call", "kill"} PROVE proc[d] # who /\ proc[d] \in Proc
      <4>1. Has(d) /\ Subject(d) = proc[d]
        BY <3>1 DEF OSInv, ThreadOK, Busy, Has, Subject
      <4>2. Has(c)
        BY <1>1, CallTypes
      <4> QED
        BY <1>5, <1>10, <4>1, <4>2, Subjects
    <3> QED
      BY <1>1, <3>1
  <2> QED
    BY <1>4, <2>1, <2>2 DEF NameOK
<1>11. SysTypeOK'
  <2>1. call' \in [Cpu -> CallState]
    BY <1>1, <1>3 DEF CallState
  <2>2. name' \in [Cpu -> Names \cup {NULL}] /\ written' \in [Proc -> Names \cup {NULL}]
    BY <1>1, <1>6
  <2> QED
    BY <1>3, <2>1, <2>2 DEF SysTypeOK
<1>12. LiveOK'
  <2>1. \A e \in Cpu : call[e] # "free" => call'[e] # "free"
    BY <1>3
  <2> QED
    BY <1>2, <1>4, <2>1 DEF LiveOK
<1>13. WrittenOK'
  <2> SUFFICES ASSUME NEW p \in Proc, p \in live, written'[p] # NULL
               PROVE  MP!Content'[p][0] = written'[p]
    BY <1>2 DEF WrittenOK
  <2>1. CASE writes /\ who = p
    <3>1. written'[p] = val /\ MP!io
      BY <1>1, <2>1, IoStep
    <3>2. MP!Content' = [MP!Content EXCEPT ![who][page] = val]
      BY <2>1, <3>1, MemoryAssumed, MP!WriteContent DEF MP!MemInv
    <3>3. MP!Content \in [Proc -> [MP!Page -> Names \cup {NULL}]] /\ 0 \in MP!Page
      BY SystemAssumption, MemoryAssumed, MP!ContentType DEF MP!MemInv, MP!Page
    <3>4. MP!Content'[p][0] = IF who = p /\ page = 0 THEN val ELSE MP!Content[p][0]
      BY <3>2, <3>3, MemoryAssumed, MP!OneCell
    <3> QED
      BY <2>1, <3>1, <3>4
  <2>2. CASE ~ (writes /\ who = p)
    <3>1. written'[p] = written[p]
      BY <1>1, <2>2
    <3>2. MP!Content[p][0] = written[p]
      BY <2>2, <3>1 DEF WrittenOK
    <3> QED
      BY <1>1, <2>2, <3>1, <3>2, PageZero
  <2> QED
    BY <2>1, <2>2
<1> QED
  BY <1>7, <1>8, <1>9, <1>10, <1>11, <1>12, <1>13

-----------------------------------------------------------------------------
(* What holds of the simulator.                                            *)

LEMMA SysInvInit == SysInit => SysInv
<1> SUFFICES ASSUME SysInit PROVE SysInv
  OBVIOUS
<1>1. ThreadInv
  BY ThreadInvInit
<1>2. MP!MemInv
  BY SameInit, MemoryAssumed, MP!MemInvInit DEF SysInit
<1>3. WrittenOK
  BY DEF SysInit, WrittenOK
<1> QED
  BY <1>1, <1>2, <1>3 DEF SysInv

LEMMA SysInvStep == SysInv /\ [SysNext]_sysvars => SysInv'
<1> SUFFICES ASSUME SysInv, [SysNext]_sysvars PROVE SysInv'
  OBVIOUS
<1>1. OSInv' /\ MP!MemInv' /\ ThreadInv /\ WrittenOK
  BY SysStepIsOS, OSInvNext, MemoryKept DEF SysInv, ThreadInv
<1>2. ASSUME UNCHANGED pagvars, UNCHANGED written PROVE WrittenOK'
  BY <1>1, <1>2, WrittenKept DEF pagvars
<1>3. CASE UNCHANGED sysvars
  BY <1>1, <1>2, <1>3, StutterKeeps DEF SysInv, sysvars
<1>4. CASE Others
  BY <1>1, <1>2, <1>4, OthersKeep DEF SysInv, Others
<1>5. ASSUME NEW c \in Cpu, CpuGoes(c) PROVE SysInv'
  BY <1>1, <1>2, <1>5, GoesKeeps DEF SysInv, CpuGoes
<1>6. ASSUME NEW c \in Cpu, Refused(c) PROVE SysInv'
  BY <1>1, <1>2, <1>6, RefusedKeeps DEF SysInv, Refused
<1>7. ASSUME NEW c \in Cpu, Enter(c) PROVE SysInv'
  <2>1. EnterDoes(c)
    BY <1>1, <1>7, EnterIsPaging DEF ThreadInv
  <2>2. WrittenOK'
    BY <1>1, <1>7, <2>1, WrittenKept DEF EnterDoes, Enter
  <2> QED
    BY <1>1, <1>7, <2>1, <2>2, EnterKeeps DEF SysInv
<1>8. ASSUME NEW c \in Cpu, Inside(c) PROVE SysInv'
  BY <1>1, <1>8, InsideInv
<1> QED
  BY <1>3, <1>4, <1>5, <1>6, <1>7, <1>8 DEF SysNext, CpuThread

THEOREM SysInvariance == SysSpec => []SysInv
  BY SysInvInit, SysInvStep, PTL DEF SysSpec

\* The threads use the memory as Paging allows: every behaviour of the simulator is
\* one of Paging too, so that the theorems of PagingProofs hold of it.
THEOREM MemoryImplemented == SysSpec => MP!PagingSpec
<1>1. SysInit => MP!PagingInit
  BY SameInit DEF SysInit
<1> QED
  BY <1>1, SysInvariance, SysStepIsPaging, PTL DEF SysSpec, MP!PagingSpec

\* mmvm_lock is held by the one CPU that is inside an operation.
THEOREM SysTypeCorrect == SysSpec => []SysTypeOK
  BY SysInvariance, PTL DEF SysInv, ThreadInv

\* No operation is made on memory that has been freed, and no two CPUs work on the
\* memory of the same process, whatever the killalls.
THEOREM NoSharedMemory == SysSpec => []MemoryHasOneUser
<1>1. SysInv => MemoryHasOneUser
  <2> SUFFICES ASSUME SysInv, NEW c \in Cpu, call[c] # "none"
               PROVE  /\ Subject(c) \in Proc /\ pcb[Subject(c)] # "freed"
                      /\ IF call[c] = "hold" THEN who = Subject(c) /\ (who \in live \/ at = "reap")
                         ELSE Subject(c) \in live
                      /\ \A d \in Cpu \ {c} : call[d] # "none" => Subject(d) # Subject(c)
    BY DEF MemoryHasOneUser
  <2> USE DEF SysInv, ThreadInv
  <2>1. \A d \in Cpu : call[d] # "none" => Has(d)
    BY CallTypes
  <2>2. /\ Subject(c) \in Proc /\ pcb[Subject(c)] # "freed"
        /\ \A d \in Cpu : d # c /\ Has(d) => Subject(d) # Subject(c)
    BY <2>1, Subjects
  <2>3. CASE call[c] = "hold"
    BY <2>1, <2>2, <2>3 DEF CallOK, SysTypeOK, MP!MemInv, MP!PagingInv, MP!OpOK
  <2>4. CASE call[c] # "hold"
    <3>1. call[c] = "free" \/ ~ Freeing(c)
      BY <2>4, CallTypes DEF SysTypeOK, CallState
    <3>2. \A e \in Cpu : Freeing(e) /\ Subject(e) = Subject(c) => e = c
      BY <2>2 DEF Has
    <3> QED
      BY <2>1, <2>2, <2>4, <3>1, <3>2 DEF LiveOK
  <2> QED
    BY <2>3, <2>4
<1> QED
  BY <1>1, SysInvariance, PTL

\* Memory goes with its process, and at the end all of it is back.
THEOREM MemoryComesBack == SysSpec => []AllGivenBack
<1>1. SysInv => AllGivenBack
  <2> SUFFICES ASSUME SysInv PROVE AllGivenBack
    OBVIOUS
  <2> USE DEF SysInv, ThreadInv
  <2>1. ASSUME at # "idle" PROVE who \in Proc /\ pcb[who] # "freed"
    <3>1. PICK c \in Cpu : call[c] = "hold"
      BY <2>1 DEF SysTypeOK
    <3>2. Has(c) /\ who = Subject(c)
      BY <3>1, CallTypes DEF CallOK
    <3> QED
      BY <3>2, Subjects
  <2>2. ASSUME NEW p \in Proc, pcb[p] = "freed"
        PROVE  /\ p \notin live /\ fifo_pgn[p] = <<>>
               /\ \A g \in MP!Page : pgd[p][g] = MP!None
    <3>1. p \notin live /\ ~ (at = "reap" /\ who = p)
      BY <2>1, <2>2 DEF LiveOK
    <3> QED
      BY <3>1 DEF MP!MemInv, MP!Gone
  <2>3. ASSUME \A p \in Proc : pcb[p] = "freed"
        PROVE  /\ \A f \in MP!RamFrame : InQueue(ram_free, f)
               /\ \A f \in MP!SwpFrame : InQueue(swp_free, f)
    <3>1. \A p \in Proc, g \in MP!Page : pgd[p][g] = MP!None
      BY <2>2, <2>3
    <3>2. held = <<>>
      BY <2>1, <2>3 DEF MP!MemInv, MP!PagingInv, MP!OpOK
    <3>3. \A f : MP!InRam(f) # MP!None /\ MP!InSwp(f) # MP!None
      BY DEF MP!InRam, MP!InSwp, MP!None
    <3>4. MP!FramesConserved
      BY DEF MP!MemInv
    <3>5. \A f \in MP!RamFrame : MP!InQueue(ram_free, f)
      BY <3>1, <3>2, <3>3, <3>4 DEF MP!FramesConserved, MP!InQueue
    <3>6. \A f \in MP!SwpFrame : MP!InQueue(swp_free, f)
      BY <3>1, <3>2, <3>3, <3>4 DEF MP!FramesConserved, MP!InQueue
    <3> QED
      BY <3>5, <3>6 DEF MP!InQueue, InQueue
  <2> QED
    BY <2>2, <2>3 DEF AllGivenBack, M!Page, MP!Page, M!None, MP!None, M!RamFrame,
                      MP!RamFrame, M!SwpFrame, MP!SwpFrame
<1> QED
  BY <1>1, SysInvariance, PTL

\* A killall is of the name that its process wrote, however its page has moved
\* between RAM and swap.
THEOREM NameIsTheOneWritten == SysSpec => []KillsWhatWasWritten
<1>1. SysInv => KillsWhatWasWritten
  BY DEF SysInv, ThreadInv, NameOK, KillsWhatWasWritten
<1> QED
  BY <1>1, SysInvariance, PTL

\* A CPU with queue_lock neither has mmvm_lock nor waits for it; a CPU that waits in
\* next_slot, or has stopped, has neither lock, waits for none and has no victim left
\* to free.
LocksApart ==
    \A c \in Cpu :
       /\ queue_lock = c => call[c] = "none"
       /\ dev[c] # "working" =>
             queue_lock # c /\ call[c] = "none" /\ victims[c] = <<>>

\* So the waits for queue_lock, for mmvm_lock and for the timer never close a circle:
\* who is waited for is never waiting with the thing in hand.  What is left of
\* SysNoDeadlock is that a CPU which does not wait can step.
THEOREM WaitsNeverNested == SysSpec => []LocksApart
<1>1. SysInv /\ NoCallRefused => LocksApart
  <2> SUFFICES ASSUME SysInv, NoCallRefused, NEW c \in Cpu
               PROVE  /\ queue_lock = c => call[c] = "none"
                      /\ dev[c] # "working" =>
                            queue_lock # c /\ call[c] = "none" /\ victims[c] = <<>>
    BY DEF LocksApart
  <2>1. call[c] # "none" => pc[c] \in {"slot", "call", "free", "reap"}
    BY DEF SysInv, ThreadInv, CallOK, Freeing, SysTypeOK, CallState
  <2>2. CallExpects(c)
    BY DEF NoCallRefused
  <2> QED
    BY <2>1, <2>2 DEF CallExpects
<1>2. SysSpec => []NoCallRefused
  BY ThreadsImplemented, CallsAsExpected, PTL
<1> QED
  BY <1>1, <1>2, SysInvariance, PTL
=============================================================================
