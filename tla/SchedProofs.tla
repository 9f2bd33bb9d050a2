---------------------------- MODULE SchedProofs ----------------------------
(***************************************************************************)
(* Proofs about Sched, for any number of processes, CPUs and levels and    *)
(* any queue capacity.                                                     *)
(***************************************************************************)
EXTENDS SchedBypass, ListLemmas

-----------------------------------------------------------------------------
(* Facts about the operations of queue.c.                                  *)

\* What enqueue() does to a queue: p is appended, or dropped if the queue is
\* full.
LEMMA EnqueueFacts ==
    ASSUME NEW S, NEW q \in Seq(S), NEW p \in S, Len(q) <= MAX_QUEUE_SIZE
    PROVE  /\ enqueue(q, p) \in Seq(S)
           /\ Len(enqueue(q, p)) <= MAX_QUEUE_SIZE
           /\ \A x : InQueue(enqueue(q, p), x) => x = p \/ InQueue(q, x)
           /\ NoDuplicates(q) /\ ~ InQueue(q, p) => NoDuplicates(enqueue(q, p))
<1>1. CASE Len(q) >= MAX_QUEUE_SIZE
  BY <1>1, QueueAssumption DEF enqueue
<1>2. CASE ~ (Len(q) >= MAX_QUEUE_SIZE)
  <2>1. enqueue(q, p) = Append(q, p)
    BY <1>2 DEF enqueue
  <2>2. /\ Append(q, p) \in Seq(S)
        /\ Len(Append(q, p)) = Len(q) + 1
        /\ \A k \in 1 .. Len(q) : Append(q, p)[k] = q[k]
        /\ Append(q, p)[Len(q) + 1] = p
    OBVIOUS
  <2> HIDE <2>1
  <2> QED
    BY <1>2, <2>1, <2>2, QueueAssumption DEF InQueue, NoDuplicates
<1> QED
  BY <1>1, <1>2

\* remove_from_queue() takes exactly the entry j out, if no other entry is
\* equal to it.
LEMMA RemoveIsRemoveAt ==
    ASSUME NEW S, NEW q \in Seq(S), NoDuplicates(q), NEW j \in 1 .. Len(q)
    PROVE  remove_from_queue(q, q[j]) =
              SubSeq(q, 1, j - 1) \o SubSeq(q, j + 1, Len(q))
<1>1. q[j] = q[j] /\ \A l \in 1 .. j - 1 : q[l] # q[j]
  BY DEF NoDuplicates
<1>2. \A k \in 1 .. Len(q) : q[k] = q[j] => k = j
  BY DEF NoDuplicates
<1>3. position(q, q[j]) = j
  BY <1>1, <1>2 DEF position
<1>4. InQueue(q, q[j])
  BY DEF InQueue
<1> QED
  BY <1>3, <1>4, Zenon DEF remove_from_queue

\* The entries that remain keep their order and nothing else appears.
LEMMA RemoveFacts ==
    ASSUME NEW S, NEW q \in Seq(S), NoDuplicates(q), NEW j \in 1 .. Len(q),
           NEW r, r = remove_from_queue(q, q[j])
    PROVE  /\ r \in Seq(S)
           /\ Len(r) = Len(q) - 1
           /\ \A k \in 1 .. Len(r) : r[k] = IF k < j THEN q[k] ELSE q[k + 1]
           /\ NoDuplicates(r)
           /\ \A x : InQueue(r, x) => InQueue(q, x) /\ x # q[j]
<1> DEFINE a == SubSeq(q, 1, j - 1)
           b == SubSeq(q, j + 1, Len(q))
<1>1. r = a \o b
  BY RemoveIsRemoveAt, Zenon
<1>2. a \in Seq(S) /\ Len(a) = j - 1 /\ \A k \in 1 .. j - 1 : a[k] = q[k]
  OBVIOUS
<1>3. b \in Seq(S) /\ Len(b) = Len(q) - j /\ \A k \in 1 .. Len(q) - j : b[k] = q[k + j]
  OBVIOUS
<1> HIDE DEF a, b
<1>4. r \in Seq(S) /\ Len(r) = Len(q) - 1
  <2>1. r \in Seq(S) /\ Len(r) = Len(a) + Len(b)
    BY <1>1, <1>2, <1>3, ConcatFacts, Zenon
  <2> QED
    BY <1>2, <1>3, <2>1
<1>5. ASSUME NEW k \in 1 .. Len(r)
      PROVE  r[k] = IF k < j THEN q[k] ELSE q[k + 1]
  <2>1. CASE k < j
    BY <1>1, <1>2, <1>3, <1>4, <2>1
  <2>2. CASE ~ (k < j)
    <3>1. r[k] = b[k - (j - 1)]
      BY <1>1, <1>2, <1>3, <1>4, <2>2
    <3>2. k - (j - 1) \in 1 .. Len(q) - j /\ (k - (j - 1)) + j = k + 1
      BY <1>4, <2>2
    <3> QED
      BY <3>1, <3>2, <1>3, <2>2
  <2> QED
    BY <2>1, <2>2
<1>6. NoDuplicates(r)
  BY <1>4, <1>5 DEF NoDuplicates
<1>7. ASSUME NEW k \in 1 .. Len(r)
      PROVE  r[k] # q[j]
  <2>1. CASE k < j
    BY <1>4, <1>5, <2>1 DEF NoDuplicates
  <2>2. CASE ~ (k < j)
    BY <1>4, <1>5, <2>2 DEF NoDuplicates
  <2> QED
    BY <2>1, <2>2
<1>8. ASSUME NEW x, InQueue(r, x)
      PROVE  InQueue(q, x) /\ x # q[j]
  <2>1. PICK k \in 1 .. Len(r) : r[k] = x
    BY <1>8 DEF InQueue
  <2>2. k \in 1 .. Len(q) /\ k + 1 \in 1 .. Len(q)
    BY <1>4
  <2> QED
    BY <1>5, <1>7, <2>1, <2>2 DEF InQueue
<1> QED
  BY <1>4, <1>5, <1>6, <1>8

-----------------------------------------------------------------------------
(* The inductive invariant.                                                *)

\* A CPU's process is its own and has not been freed; the process that calls
\* killall stays live during the walk.
CpuInv ==
    /\ \A c, d \in Cpu : proc[c] = proc[d] /\ proc[c] # NULL => c = d
    /\ \A c \in Cpu : proc[c] # NULL => pcb[proc[c]] \in {"live", "delisted"}
    /\ \A c \in Cpu : queue_lock = c => proc[c] # NULL /\ pcb[proc[c]] = "live"

\* What waits in a ready queue is live, at its level, once, and on no CPU.
QueueInv ==
    \A i \in Level :
       /\ NoDuplicates(mlq_ready_queue[i])
       /\ \A p \in Proc : InQueue(mlq_ready_queue[i], p) =>
             prio(p) = i /\ pcb[p] = "live" /\ \A c \in Cpu : proc[c] # p

\* The running list holds live processes, each once.
ListInv ==
    /\ NoDuplicates(running_list)
    /\ \A p \in Proc : InQueue(running_list, p) => pcb[p] = "live"

\* Victims are delisted, belong to one killall only and to no CPU.
VictimInv ==
    \A c \in Cpu :
       /\ NoDuplicates(victims[c])
       /\ \A p \in Proc : InQueue(victims[c], p) =>
             /\ pcb[p] = "delisted"
             /\ \A d \in Cpu : proc[d] # p /\ (InQueue(victims[d], p) => d = c)

\* During the walk the victims come out of the running list.
FitInv ==
    \A c \in Cpu :
       /\ Len(victims[c]) <= MAX_QUEUE_SIZE
       /\ queue_lock = c => Len(victims[c]) + Len(running_list) <= MAX_QUEUE_SIZE

\* The part of the list that the walk has passed is marked.
WalkInv ==
    \A c \in Cpu : queue_lock = c =>
       \A k \in 1 .. Len(running_list) :
          k < scan.i /\ Matches(c, running_list[k]) => killed[running_list[k]]

IInv ==
    /\ TypeOK
    /\ CpuInv
    /\ QueueInv
    /\ ListInv
    /\ VictimInv
    /\ FitInv
    /\ WalkInv
    /\ SlotBound

-----------------------------------------------------------------------------
(* The initial states and the steps.                                       *)

LEMMA PrioIsLevel ==
    ASSUME NEW p \in Proc
    PROVE  prio(p) \in Level
  BY SchedAssumption DEF prio, Level

LEMMA InitInv == Init => IInv
<1> SUFFICES ASSUME Init PROVE IInv
  OBVIOUS
<1>1. TypeOK
  BY SchedAssumption, QueueAssumption DEF Init, TypeOK, PcbState, Level
<1>2. CpuInv /\ QueueInv /\ ListInv /\ VictimInv /\ WalkInv
  BY SchedAssumption, NothingInEmpty
  DEF Init, CpuInv, QueueInv, ListInv, VictimInv, WalkInv, NoDuplicates, Level
<1>3. FitInv /\ SlotBound
  BY SchedAssumption, QueueAssumption DEF Init, FitInv, SlotBound, slot, Level
<1> QED
  BY <1>1, <1>2, <1>3 DEF IInv

\* Only level l of the ready queues changes, to q.
LEMMA LevelUpdate ==
    ASSUME TypeOK, NEW l \in Level, NEW q \in Seq(Proc), Len(q) <= MAX_QUEUE_SIZE,
           mlq_ready_queue' = [mlq_ready_queue EXCEPT ![l] = q]
    PROVE  /\ mlq_ready_queue' \in [Level -> Seq(Proc)]
           /\ \A i \in Level : Len(mlq_ready_queue'[i]) <= MAX_QUEUE_SIZE
           /\ mlq_ready_queue'[l] = q
           /\ \A i \in Level : i # l => mlq_ready_queue'[i] = mlq_ready_queue[i]
  BY DEF TypeOK

\* A process that is not loaded is in no queue and on no CPU, so adding it
\* makes no duplicate.
LEMMA AddStep ==
    ASSUME IInv, NEW p \in Proc, add_proc(p)
    PROVE  IInv'
<1> USE DEF IInv
<1> DEFINE Q == mlq_ready_queue[prio(p)]
<1>1. prio(p) \in Level /\ Q \in Seq(Proc) /\ Len(Q) <= MAX_QUEUE_SIZE
  BY PrioIsLevel DEF TypeOK
<1>2. running_list \in Seq(Proc) /\ Len(running_list) <= MAX_QUEUE_SIZE
  BY DEF TypeOK
<1>3. pcb' \in [Proc -> PcbState] /\ pcb'[p] = "live" /\ pcb[p] = "unloaded"
      /\ \A x \in Proc : x # p => pcb'[x] = pcb[x]
  BY DEF add_proc, TypeOK, PcbState
<1>4. UNCHANGED <<slot_used, killed, queue_lock, scan, victims, proc>>
      /\ queue_lock = NULL /\ running_list' = enqueue(running_list, p)
      /\ mlq_ready_queue' = [mlq_ready_queue EXCEPT ![prio(p)] = enqueue(Q, p)]
  BY DEF add_proc
<1>5. /\ \A c \in Cpu : proc[c] # p /\ ~ InQueue(victims[c], p)
      /\ ~ InQueue(Q, p) /\ ~ InQueue(running_list, p)
  BY <1>1, <1>3, SchedAssumption, ZenonT(30)
  DEF CpuInv, QueueInv, ListInv, VictimInv
<1> HIDE DEF Q
<1>6. /\ mlq_ready_queue' \in [Level -> Seq(Proc)]
      /\ \A i \in Level : Len(mlq_ready_queue'[i]) <= MAX_QUEUE_SIZE
      /\ mlq_ready_queue'[prio(p)] = enqueue(Q, p)
      /\ \A i \in Level : i # prio(p) => mlq_ready_queue'[i] = mlq_ready_queue[i]
  BY <1>1, <1>4, EnqueueFacts, LevelUpdate, Zenon
<1>7. /\ running_list' \in Seq(Proc) /\ Len(running_list') <= MAX_QUEUE_SIZE
      /\ \A x : InQueue(running_list', x) => x = p \/ InQueue(running_list, x)
      /\ NoDuplicates(running_list')
  BY <1>2, <1>4, <1>5, EnqueueFacts DEF ListInv
<1>8. TypeOK'
  BY <1>3, <1>4, <1>6, <1>7 DEF TypeOK
<1>9. CpuInv'
  BY <1>3, <1>4, <1>5, SchedAssumption DEF CpuInv, TypeOK
<1>10. QueueInv'
  <2>1. /\ \A x : InQueue(enqueue(Q, p), x) => x = p \/ InQueue(Q, x)
        /\ NoDuplicates(enqueue(Q, p))
    BY <1>1, <1>5, EnqueueFacts DEF QueueInv, Q
  <2> QED
    BY <1>1, <1>3, <1>4, <1>5, <1>6, <2>1 DEF QueueInv, Q, prio
<1>11. ListInv'
  BY <1>3, <1>7 DEF ListInv
<1>12. VictimInv'
  BY <1>3, <1>4, <1>5 DEF VictimInv
<1>13. FitInv' /\ WalkInv' /\ SlotBound'
  BY <1>4, SchedAssumption DEF FitInv, WalkInv, SlotBound, slot
<1> QED
  BY <1>8, <1>9, <1>10, <1>11, <1>12, <1>13

\* The CPU gives its process, which nobody else has, to its queue.
LEMMA PutStep ==
    ASSUME IInv, NEW c \in Cpu, put_proc(c)
    PROVE  IInv'
<1> USE DEF IInv
<1> DEFINE p == proc[c]
           Q == mlq_ready_queue[prio(p)]
<1>1. p \in Proc /\ pcb[p] = "live"
  BY DEF put_proc, TypeOK
<1>2. prio(p) \in Level /\ Q \in Seq(Proc) /\ Len(Q) <= MAX_QUEUE_SIZE
  BY <1>1, PrioIsLevel DEF TypeOK
<1>3. UNCHANGED <<slot_used, running_list, killed, queue_lock, scan, victims, pcb>>
      /\ queue_lock = NULL /\ proc' = [proc EXCEPT ![c] = NULL]
      /\ mlq_ready_queue' = [mlq_ready_queue EXCEPT ![prio(p)] = enqueue(Q, p)]
  BY DEF put_proc
<1>4. ~ InQueue(Q, p)
  BY <1>1, <1>2 DEF QueueInv
<1>5. proc' \in [Cpu -> Proc \cup {NULL}] /\ proc'[c] = NULL
      /\ \A d \in Cpu : d # c => proc'[d] = proc[d] /\ proc[d] # p
  BY <1>1, <1>3, SchedAssumption DEF TypeOK, CpuInv
<1> HIDE DEF p, Q
<1>6. /\ mlq_ready_queue' \in [Level -> Seq(Proc)]
      /\ \A i \in Level : Len(mlq_ready_queue'[i]) <= MAX_QUEUE_SIZE
      /\ mlq_ready_queue'[prio(p)] = enqueue(Q, p)
      /\ \A i \in Level : i # prio(p) => mlq_ready_queue'[i] = mlq_ready_queue[i]
  BY <1>1, <1>2, <1>3, EnqueueFacts, LevelUpdate, Zenon
<1>7. TypeOK'
  BY <1>3, <1>5, <1>6 DEF TypeOK
<1>8. CpuInv'
  BY <1>3, <1>5, SchedAssumption DEF CpuInv
<1>9. QueueInv'
  <2>1. /\ \A x : InQueue(enqueue(Q, p), x) => x = p \/ InQueue(Q, x)
        /\ NoDuplicates(enqueue(Q, p))
    BY <1>1, <1>2, <1>4, EnqueueFacts DEF QueueInv, Q
  <2>2. \A x \in Proc : \A d \in Cpu : proc[d] # x => proc'[d] # x
    BY <1>5, SchedAssumption
  <2>3. \A d \in Cpu : proc'[d] # p
    BY <1>1, <1>5, SchedAssumption
  <2> QED
    BY <1>1, <1>2, <1>3, <1>6, <2>1, <2>2, <2>3 DEF QueueInv, Q, prio
<1>10. ListInv'
  BY <1>3 DEF ListInv
<1>11. VictimInv'
  <2>1. \A x \in Proc : \A d \in Cpu : proc[d] # x => proc'[d] # x
    BY <1>5, SchedAssumption
  <2> QED
    BY <1>3, <2>1 DEF VictimInv
<1>12. FitInv' /\ WalkInv' /\ SlotBound'
  BY <1>3, SchedAssumption DEF FitInv, WalkInv, SlotBound, slot
<1> QED
  BY <1>7, <1>8, <1>9, <1>10, <1>11, <1>12

\* A CPU without a process takes the head of level l.
LEMMA DispatchStep ==
    ASSUME IInv, NEW c \in Cpu, NEW l \in Level, NEW u \in [Level -> Nat],
           \A j \in Level : u[j] <= slot(j), u[l] < slot(l),
           mlq_ready_queue[l] # <<>>, proc[c] = NULL, queue_lock = NULL,
           Dispatch(c, l, u),
           UNCHANGED <<running_list, killed, queue_lock, scan, victims, pcb>>
    PROVE  IInv'
<1> USE DEF IInv
<1> DEFINE Q == mlq_ready_queue[l]
           p == Head(Q)
<1>1. Q \in Seq(Proc) /\ Q # <<>> /\ Len(Q) <= MAX_QUEUE_SIZE /\ NoDuplicates(Q)
  BY DEF TypeOK, QueueInv
<1>2. /\ p \in Proc /\ InQueue(Q, p) /\ Tail(Q) \in Seq(Proc)
      /\ Len(Tail(Q)) = Len(Q) - 1 /\ NoDuplicates(Tail(Q))
      /\ \A x : InQueue(Tail(Q), x) => InQueue(Q, x) /\ x # p
  BY <1>1, TailFacts
<1>3. /\ proc' = [proc EXCEPT ![c] = p]
      /\ mlq_ready_queue' = [mlq_ready_queue EXCEPT ![l] = Tail(Q)]
      /\ slot_used' = [u EXCEPT ![l] = @ + 1]
  BY DEF Dispatch, dequeue_head, dequeue_rest
<1>4. prio(p) = l /\ pcb[p] = "live" /\ \A d \in Cpu : proc[d] # p
  BY <1>2 DEF QueueInv
<1>5. Len(Tail(Q)) <= MAX_QUEUE_SIZE
  BY <1>1, <1>2, QueueAssumption
<1> HIDE DEF p, Q
<1>6. /\ mlq_ready_queue' \in [Level -> Seq(Proc)]
      /\ \A i \in Level : Len(mlq_ready_queue'[i]) <= MAX_QUEUE_SIZE
      /\ mlq_ready_queue'[l] = Tail(Q)
      /\ \A i \in Level : i # l => mlq_ready_queue'[i] = mlq_ready_queue[i]
  BY <1>2, <1>3, <1>5, LevelUpdate, Zenon
<1>7. proc' \in [Cpu -> Proc \cup {NULL}] /\ proc'[c] = p
      /\ \A d \in Cpu : d # c => proc'[d] = proc[d]
  BY <1>2, <1>3 DEF TypeOK
<1>8. slot_used' \in [Level -> Nat] /\ SlotBound'
  BY <1>3, SchedAssumption DEF SlotBound, slot, Level
<1>9. TypeOK'
  BY <1>6, <1>7, <1>8 DEF TypeOK
<1>10. CpuInv'
  BY <1>4, <1>7, SchedAssumption DEF CpuInv
<1>11. QueueInv'
  <2>1. \A i \in Level : \A x \in Proc : InQueue(mlq_ready_queue'[i], x) =>
           InQueue(mlq_ready_queue[i], x) /\ x # p
    <3> SUFFICES ASSUME NEW i \in Level, NEW x \in Proc,
                        InQueue(mlq_ready_queue'[i], x)
                 PROVE  InQueue(mlq_ready_queue[i], x) /\ x # p
      OBVIOUS
    <3>1. CASE i = l
      BY <1>2, <1>6, <3>1, Zenon DEF Q
    <3>2. CASE i # l
      BY <1>4, <1>6, <3>2 DEF QueueInv
    <3> QED
      BY <3>1, <3>2
  <2>2. \A i \in Level : NoDuplicates(mlq_ready_queue'[i])
    BY <1>2, <1>6, Zenon DEF QueueInv
  <2> QED
    BY <1>7, <2>1, <2>2 DEF QueueInv, prio
<1>12. ListInv'
  BY DEF ListInv
<1>13. VictimInv'
  <2>1. \A d \in Cpu : ~ InQueue(victims[d], p)
    BY <1>2, <1>4 DEF VictimInv
  <2> QED
    BY <1>7, <2>1 DEF VictimInv
<1>14. FitInv' /\ WalkInv'
  BY SchedAssumption DEF FitInv, WalkInv
<1> QED
  BY <1>8, <1>9, <1>10, <1>11, <1>12, <1>13, <1>14

LEMMA GetStep ==
    ASSUME IInv, NEW c \in Cpu, get_proc(c)
    PROVE  IInv'
<1>1. /\ queue_lock = NULL /\ proc[c] = NULL
      /\ UNCHANGED <<running_list, killed, queue_lock, scan, victims, pcb>>
  BY DEF get_proc
<1>2. /\ slot_used \in [Level -> Nat] /\ \A j \in Level : slot_used[j] <= slot(j)
  BY DEF IInv, TypeOK, SlotBound
<1>3. /\ ResetSlots \in [Level -> Nat] /\ \A j \in Level : ResetSlots[j] <= slot(j)
  BY SchedAssumption DEF ResetSlots, Level, slot
<1>4. CASE GetThisRound(c)
  <2>1. PICK l \in Level : First(l, Ready(mlq_ready_queue, slot_used))
                           /\ Dispatch(c, l, slot_used)
    BY <1>4 DEF GetThisRound
  <2>2. mlq_ready_queue[l] # <<>> /\ slot_used[l] < slot(l)
    BY <2>1 DEF First, Ready, empty
  <2> QED
    BY <1>1, <1>2, <2>1, <2>2, DispatchStep
<1>5. CASE GetNextRound(c)
  <2>1. PICK l \in Level : First(l, Ready(mlq_ready_queue, ResetSlots))
                           /\ Dispatch(c, l, ResetSlots)
    BY <1>5 DEF GetNextRound
  <2>2. mlq_ready_queue[l] # <<>> /\ ResetSlots[l] < slot(l)
    BY <2>1 DEF First, Ready, empty
  <2> QED
    BY <1>1, <1>3, <2>1, <2>2, DispatchStep
<1>6. CASE GetNothing(c)
  <2>1. slot_used' = ResetSlots /\ UNCHANGED <<proc, mlq_ready_queue>>
    BY <1>6 DEF GetNothing
  <2> USE DEF IInv
  <2>2. TypeOK' /\ SlotBound'
    BY <1>1, <1>3, <2>1 DEF TypeOK, SlotBound, slot
  <2>3. CpuInv' /\ QueueInv' /\ ListInv' /\ VictimInv'
    BY <1>1, <2>1 DEF CpuInv, QueueInv, ListInv, VictimInv, prio
  <2>4. FitInv' /\ WalkInv'
    BY <1>1, <2>1, SchedAssumption DEF FitInv, WalkInv
  <2> QED
    BY <2>2, <2>3, <2>4
<1> QED
  BY <1>4, <1>5, <1>6 DEF get_proc

\* The process of the CPU leaves the running list, which has it at most once.
LEMMA FinishStep ==
    ASSUME IInv, NEW c \in Cpu, finish_proc(c)
    PROVE  IInv'
<1> USE DEF IInv
<1> DEFINE p == proc[c]
<1>1. p \in Proc /\ pcb[p] = "live"
  BY DEF finish_proc, TypeOK
<1>2. /\ UNCHANGED <<mlq_ready_queue, slot_used, killed, queue_lock, scan, victims, proc>>
      /\ queue_lock = NULL /\ running_list' = remove_from_queue(running_list, p)
      /\ pcb' = [pcb EXCEPT ![p] = "delisted"]
  BY DEF finish_proc
<1> HIDE DEF p
<1>3. pcb' \in [Proc -> PcbState] /\ pcb'[p] = "delisted"
      /\ \A x \in Proc : x # p => pcb'[x] = pcb[x]
  BY <1>1, <1>2 DEF TypeOK, PcbState
<1>4. /\ running_list' \in Seq(Proc) /\ Len(running_list') <= MAX_QUEUE_SIZE
      /\ NoDuplicates(running_list')
      /\ \A x : InQueue(running_list', x) => InQueue(running_list, x) /\ x # p
  <2>1. running_list \in Seq(Proc) /\ Len(running_list) <= MAX_QUEUE_SIZE
        /\ NoDuplicates(running_list)
    BY DEF TypeOK, ListInv
  <2>2. CASE InQueue(running_list, p)
    <3>1. PICK j \in 1 .. Len(running_list) : running_list[j] = p
      BY <2>2 DEF InQueue
    <3> QED
      BY <1>2, <2>1, <3>1, RemoveFacts, QueueAssumption
  <2>3. CASE ~ InQueue(running_list, p)
    <3>1. running_list' = running_list
      BY <1>2, <2>3 DEF remove_from_queue, InQueue
    <3> QED
      BY <2>1, <2>3, <3>1
  <2> QED
    BY <2>2, <2>3
<1>5. TypeOK'
  BY <1>2, <1>3, <1>4 DEF TypeOK
<1>6. CpuInv'
  BY <1>2, <1>3, SchedAssumption DEF CpuInv, TypeOK
<1>7. QueueInv'
  BY <1>1, <1>2, <1>3 DEF QueueInv, p, prio
<1>8. ListInv'
  BY <1>3, <1>4 DEF ListInv
<1>9. VictimInv'
  BY <1>1, <1>2, <1>3 DEF VictimInv
<1>10. FitInv' /\ WalkInv' /\ SlotBound'
  BY <1>2, SchedAssumption DEF FitInv, WalkInv, SlotBound, slot
<1> QED
  BY <1>5, <1>6, <1>7, <1>8, <1>9, <1>10

\* The CPU releases its delisted process, which nobody else has.
LEMMA FreeStep ==
    ASSUME IInv, NEW c \in Cpu, free_pcb(c)
    PROVE  IInv'
<1> USE DEF IInv
<1> DEFINE p == proc[c]
<1>1. p \in Proc /\ pcb[p] = "delisted"
  BY DEF free_pcb, TypeOK
<1>2. /\ UNCHANGED <<mlq_ready_queue, slot_used, running_list, killed, queue_lock,
                     scan, victims>>
      /\ proc' = [proc EXCEPT ![c] = NULL] /\ pcb' = [pcb EXCEPT ![p] = "freed"]
  BY DEF free_pcb
<1>3. proc' \in [Cpu -> Proc \cup {NULL}] /\ proc'[c] = NULL
      /\ \A d \in Cpu : d # c => proc'[d] = proc[d] /\ proc[d] # p
  BY <1>1, <1>2, SchedAssumption DEF TypeOK, CpuInv
<1>4. queue_lock # c
  BY <1>1 DEF CpuInv
<1>5. \A d \in Cpu : ~ InQueue(victims[d], p)
  BY <1>1 DEF VictimInv
<1> HIDE DEF p
<1>6. pcb' \in [Proc -> PcbState] /\ pcb'[p] = "freed"
      /\ \A x \in Proc : x # p => pcb'[x] = pcb[x]
  BY <1>1, <1>2 DEF TypeOK, PcbState
<1>7. TypeOK'
  BY <1>2, <1>3, <1>6 DEF TypeOK
<1>8. CpuInv'
  BY <1>2, <1>3, <1>4, <1>6, SchedAssumption DEF CpuInv, TypeOK
<1>9. \A x \in Proc : \A d \in Cpu : proc[d] # x => proc'[d] # x
  BY <1>3, SchedAssumption
<1>10. QueueInv'
  BY <1>1, <1>2, <1>6, <1>9 DEF QueueInv, prio
<1>11. ListInv'
  BY <1>1, <1>2, <1>6 DEF ListInv
<1>12. VictimInv'
  BY <1>2, <1>5, <1>6, <1>9 DEF VictimInv
<1>13. FitInv' /\ SlotBound'
  BY <1>2 DEF FitInv, SlotBound, slot
<1>14. WalkInv'
  BY <1>2, <1>3, <1>4 DEF WalkInv, Matches
<1> QED
  BY <1>7, <1>8, <1>10, <1>11, <1>12, <1>13, <1>14

\* The walk begins with no victims and nothing passed.
LEMMA KillLockStep ==
    ASSUME IInv, NEW c \in Cpu, NEW n \in Names, kill_lock(c, n)
    PROVE  IInv'
<1> USE DEF IInv
<1>1. /\ UNCHANGED <<mlq_ready_queue, slot_used, running_list, killed, victims, proc, pcb>>
      /\ queue_lock = NULL /\ queue_lock' = c /\ victims[c] = <<>>
      /\ scan' = [name |-> n, i |-> 1] /\ proc[c] # NULL /\ pcb[proc[c]] = "live"
  BY DEF kill_lock, OutsideKillall
<1>2. TypeOK'
  BY <1>1 DEF TypeOK
<1>3. CpuInv' /\ QueueInv' /\ ListInv' /\ VictimInv' /\ SlotBound'
  <2>1. CpuInv' /\ ListInv' /\ SlotBound'
    BY <1>1, Zenon DEF CpuInv, ListInv, SlotBound
  <2>2. QueueInv'
    BY <1>1, Zenon DEF QueueInv
  <2>3. VictimInv'
    BY <1>1, Zenon DEF VictimInv
  <2> QED
    BY <2>1, <2>2, <2>3, Zenon
<1>4. FitInv'
  <2>1. Len(victims[c]) = 0 /\ Len(running_list) <= MAX_QUEUE_SIZE
        /\ Len(running_list) \in Nat
    BY <1>1 DEF TypeOK
  <2> QED
    BY <1>1, <2>1 DEF FitInv
<1>5. WalkInv'
  BY <1>1 DEF WalkInv
<1> QED
  BY <1>2, <1>3, <1>4, <1>5

LEMMA ScanAdvance ==
    ASSUME NEW s \in [name : Names \cup {NULL}, i : Nat \ {0}]
    PROVE  /\ [s EXCEPT !.i = @ + 1] \in [name : Names \cup {NULL}, i : Nat \ {0}]
           /\ [s EXCEPT !.i = @ + 1].i = s.i + 1
           /\ [s EXCEPT !.i = @ + 1].name = s.name
  OBVIOUS

\* The entry under the walk's index is skipped or marked.
LEMMA KillPassStep ==
    ASSUME IInv, NEW c \in Cpu, queue_lock = c, scan.i <= Len(running_list),
           KillSkip(c, running_list[scan.i]) \/ KillMark(c, running_list[scan.i])
    PROVE  IInv'
<1> USE DEF IInv
<1> DEFINE p == running_list[scan.i]
<1>1. p \in Proc /\ scan.i \in 1 .. Len(running_list)
  BY DEF TypeOK
<1>2. /\ UNCHANGED <<mlq_ready_queue, slot_used, running_list, queue_lock, victims,
                     proc, pcb>>
      /\ scan' = [scan EXCEPT !.i = @ + 1]
  <2>1. CASE KillSkip(c, p)
    BY <2>1 DEF KillSkip
  <2>2. CASE KillMark(c, p)
    BY <2>2 DEF KillMark
  <2> QED
    BY <2>1, <2>2
<1>3. /\ killed' \in [Proc -> BOOLEAN]
      /\ \A x \in Proc : killed[x] => killed'[x]
      /\ Matches(c, p) => killed'[p]
  <2>1. CASE KillSkip(c, p)
    BY <1>1, <2>1 DEF KillSkip, Matches, TypeOK
  <2>2. CASE KillMark(c, p)
    BY <1>1, <2>2 DEF KillMark, TypeOK
  <2> QED
    BY <2>1, <2>2
<1>4. /\ scan' \in [name : Names \cup {NULL}, i : Nat \ {0}]
      /\ scan'.i = scan.i + 1 /\ scan'.name = scan.name
  <2>1. scan \in [name : Names \cup {NULL}, i : Nat \ {0}]
    BY DEF TypeOK
  <2> QED
    BY <1>2, <2>1, ScanAdvance
<1>5. TypeOK'
  BY <1>2, <1>3, <1>4 DEF TypeOK
<1>6. CpuInv' /\ QueueInv' /\ ListInv' /\ VictimInv' /\ FitInv' /\ SlotBound'
  BY <1>2 DEF CpuInv, QueueInv, ListInv, VictimInv, FitInv, SlotBound, slot, prio
<1>7. WalkInv'
  <2> SUFFICES ASSUME NEW k \in 1 .. Len(running_list), k < scan.i + 1,
                      Matches(c, running_list[k])
               PROVE  killed'[running_list[k]]
    BY <1>2, <1>4 DEF WalkInv, Matches
  <2>1. running_list[k] \in Proc /\ (k < scan.i \/ k = scan.i)
    BY <1>1 DEF TypeOK
  <2> QED
    BY <1>3, <2>1 DEF WalkInv
<1> QED
  BY <1>5, <1>6, <1>7

\* A matching process in its ready queue becomes a victim; the entries the walk
\* has passed keep their places.
LEMMA KillTakeStep ==
    ASSUME IInv, NEW c \in Cpu, queue_lock = c, scan.i <= Len(running_list),
           KillTake(c, running_list[scan.i])
    PROVE  IInv'
<1> USE DEF IInv
<1> DEFINE j == scan.i
           p == running_list[j]
           Q == mlq_ready_queue[prio(p)]
<1>1. /\ running_list \in Seq(Proc) /\ NoDuplicates(running_list)
      /\ j \in 1 .. Len(running_list) /\ p \in Proc
      /\ Len(running_list) <= MAX_QUEUE_SIZE
  BY DEF TypeOK, ListInv
<1>2. /\ Q \in Seq(Proc) /\ NoDuplicates(Q) /\ prio(p) \in Level
      /\ Len(Q) <= MAX_QUEUE_SIZE
  BY <1>1, PrioIsLevel DEF TypeOK, QueueInv
<1>3. /\ Matches(c, p) /\ InQueue(Q, p)
      /\ killed' = [killed EXCEPT ![p] = TRUE]
      /\ mlq_ready_queue' = [mlq_ready_queue EXCEPT ![prio(p)] = remove_from_queue(Q, p)]
      /\ running_list' = remove_from_queue(running_list, p)
      /\ victims' = [victims EXCEPT ![c] = Append(victims[c], p)]
      /\ pcb' = [pcb EXCEPT ![p] = "delisted"]
      /\ UNCHANGED <<slot_used, queue_lock, scan, proc>>
  BY DEF KillTake
<1>4. pcb[p] = "live" /\ \A d \in Cpu : proc[d] # p /\ ~ InQueue(victims[d], p)
  BY <1>1, <1>2, <1>3 DEF QueueInv, VictimInv
<1>5. /\ running_list' \in Seq(Proc)
      /\ Len(running_list') = Len(running_list) - 1
      /\ \A k \in 1 .. Len(running_list') :
            running_list'[k] = IF k < j THEN running_list[k] ELSE running_list[k + 1]
      /\ NoDuplicates(running_list')
      /\ \A x : InQueue(running_list', x) => InQueue(running_list, x) /\ x # p
  <2>1. running_list' = remove_from_queue(running_list, running_list[j])
    BY <1>3
  <2>2. /\ running_list \in Seq(Proc) /\ NoDuplicates(running_list)
        /\ j \in 1 .. Len(running_list)
    BY <1>1
  <2> HIDE DEF j
  <2>3. /\ running_list' \in Seq(Proc)
        /\ Len(running_list') = Len(running_list) - 1
        /\ \A k \in 1 .. Len(running_list') :
              running_list'[k] = IF k < j THEN running_list[k] ELSE running_list[k + 1]
        /\ NoDuplicates(running_list')
        /\ \A x : InQueue(running_list', x) =>
              InQueue(running_list, x) /\ x # running_list[j]
    BY ONLY <2>1, <2>2, RemoveFacts
  <2> QED
    BY <2>3
<1>6. /\ remove_from_queue(Q, p) \in Seq(Proc)
      /\ Len(remove_from_queue(Q, p)) <= MAX_QUEUE_SIZE
      /\ NoDuplicates(remove_from_queue(Q, p))
      /\ \A x : InQueue(remove_from_queue(Q, p), x) => InQueue(Q, x) /\ x # p
  <2>1. PICK m \in 1 .. Len(Q) : Q[m] = p
    BY <1>3 DEF InQueue
  <2>2. Q \in Seq(Proc) /\ Len(Q) \in Nat /\ Len(Q) <= MAX_QUEUE_SIZE /\ NoDuplicates(Q)
    BY <1>2
  <2> HIDE DEF Q, p
  <2>3. /\ remove_from_queue(Q, Q[m]) \in Seq(Proc)
        /\ Len(remove_from_queue(Q, Q[m])) = Len(Q) - 1
        /\ NoDuplicates(remove_from_queue(Q, Q[m]))
        /\ \A x : InQueue(remove_from_queue(Q, Q[m]), x) => InQueue(Q, x) /\ x # Q[m]
    BY ONLY m \in 1 .. Len(Q), <2>2, RemoveFacts
  <2> QED
    BY <2>1, <2>2, <2>3, QueueAssumption
<1>7. /\ victims[c] \in Seq(Proc)
      /\ Append(victims[c], p) \in Seq(Proc)
      /\ Len(Append(victims[c], p)) = Len(victims[c]) + 1
      /\ \A x : InQueue(Append(victims[c], p), x) => x = p \/ InQueue(victims[c], x)
      /\ NoDuplicates(Append(victims[c], p))
  BY <1>1, <1>4, AppendFacts DEF TypeOK, VictimInv
<1> HIDE DEF p, Q, j
<1>8. /\ mlq_ready_queue' \in [Level -> Seq(Proc)]
      /\ \A i \in Level : Len(mlq_ready_queue'[i]) <= MAX_QUEUE_SIZE
      /\ mlq_ready_queue'[prio(p)] = remove_from_queue(Q, p)
      /\ \A i \in Level : i # prio(p) => mlq_ready_queue'[i] = mlq_ready_queue[i]
  BY <1>2, <1>3, <1>6, LevelUpdate, Zenon
<1>9. pcb' \in [Proc -> PcbState] /\ pcb'[p] = "delisted"
      /\ \A x \in Proc : x # p => pcb'[x] = pcb[x]
  BY <1>1, <1>3 DEF TypeOK, PcbState
<1>10. victims' \in [Cpu -> Seq(Proc)] /\ victims'[c] = Append(victims[c], p)
       /\ \A d \in Cpu : d # c => victims'[d] = victims[d]
  BY <1>3, <1>7 DEF TypeOK
<1>11. killed' \in [Proc -> BOOLEAN] /\ \A x \in Proc : killed[x] => killed'[x]
  BY <1>1, <1>3 DEF TypeOK
<1>12. TypeOK'
  <2>1. /\ running_list' \in Seq(Proc) /\ Len(running_list') <= MAX_QUEUE_SIZE
        /\ slot_used' \in [Level -> Nat] /\ proc' \in [Cpu -> Proc \cup {NULL}]
    BY <1>1, <1>3, <1>5, QueueAssumption DEF TypeOK
  <2>2. queue_lock' \in Cpu \cup {NULL} /\ scan' \in [name : Names \cup {NULL}, i : Nat \ {0}]
    BY <1>1, <1>3 DEF TypeOK
  <2> QED
    BY <1>8, <1>9, <1>10, <1>11, <2>1, <2>2, Zenon DEF TypeOK
<1>13. CpuInv'
  BY <1>3, <1>4, <1>9, SchedAssumption DEF CpuInv, TypeOK
<1>14. QueueInv'
  <2>1. ASSUME NEW i \in Level, NEW x \in Proc, InQueue(mlq_ready_queue'[i], x)
        PROVE  InQueue(mlq_ready_queue[i], x) /\ x # p
    <3>1. CASE i = prio(p)
      BY <1>6, <1>8, <2>1, <3>1 DEF Q
    <3>2. CASE i # prio(p)
      BY <1>1, <1>8, <2>1, <3>2 DEF QueueInv
    <3> QED
      BY <3>1, <3>2
  <2>2. \A i \in Level : NoDuplicates(mlq_ready_queue'[i])
    BY <1>6, <1>8 DEF QueueInv
  <2> QED
    BY <1>3, <1>9, <2>1, <2>2, Zenon DEF QueueInv, prio
<1>15. ListInv'
  BY <1>5, <1>9 DEF ListInv
<1>16. VictimInv'
  <2>1. ASSUME NEW d \in Cpu, NEW x \in Proc, InQueue(victims'[d], x)
        PROVE  (x = p /\ d = c) \/ (x # p /\ InQueue(victims[d], x))
    <3>1. CASE d = c
      BY <1>4, <1>7, <1>10, <2>1, <3>1, Zenon
    <3>2. CASE d # c
      BY <1>4, <1>10, <2>1, <3>2
    <3> QED
      BY <3>1, <3>2
  <2>2. \A d \in Cpu : NoDuplicates(victims'[d])
    BY <1>7, <1>10, Zenon DEF VictimInv
  <2> QED
    BY <1>3, <1>4, <1>9, <2>1, <2>2 DEF VictimInv
<1>17. FitInv'
  <2>1. Len(victims[c]) + Len(running_list) <= MAX_QUEUE_SIZE
        /\ Len(victims[c]) \in Nat /\ Len(running_list) \in Nat
        /\ Len(running_list) >= 1
    BY <1>1, <1>7 DEF FitInv, TypeOK
  <2>2. Len(victims'[c]) = Len(victims[c]) + 1
        /\ Len(running_list') = Len(running_list) - 1
    BY <1>5, <1>7, <1>10
  <2>3. Len(victims'[c]) <= MAX_QUEUE_SIZE
        /\ Len(victims'[c]) + Len(running_list') <= MAX_QUEUE_SIZE
    BY <2>1, <2>2, QueueAssumption
  <2> QED
    BY <1>3, <1>10, <2>3 DEF FitInv
<1>18. WalkInv'
  <2> SUFFICES ASSUME NEW k \in 1 .. Len(running_list'), k < j,
                      Matches(c, running_list[k])
               PROVE  killed'[running_list[k]]
    BY <1>3, <1>5 DEF WalkInv, Matches, j
  <2>1. k \in 1 .. Len(running_list) /\ running_list[k] \in Proc
    BY <1>1, <1>5
  <2> QED
    BY <1>11, <2>1 DEF WalkInv, j
<1>19. SlotBound'
  BY <1>3 DEF SlotBound, slot
<1> QED
  BY <1>12, <1>13, <1>14, <1>15, <1>16, <1>17, <1>18, <1>19

LEMMA KillUnlockStep ==
    ASSUME IInv, NEW c \in Cpu, kill_unlock(c)
    PROVE  IInv'
<1> USE DEF IInv
<1>1. /\ UNCHANGED <<mlq_ready_queue, slot_used, running_list, killed, victims, proc, pcb>>
      /\ queue_lock' = NULL /\ scan' = [name |-> NULL, i |-> 1]
  BY DEF kill_unlock
<1>2. TypeOK'
  BY <1>1 DEF TypeOK
<1>3. QueueInv' /\ ListInv' /\ VictimInv' /\ SlotBound'
  BY <1>1, Zenon DEF QueueInv, ListInv, VictimInv, SlotBound, slot, prio
<1>4. CpuInv'
  BY <1>1, SchedAssumption, Zenon DEF CpuInv
<1>5. FitInv'
  BY <1>1, SchedAssumption, Zenon DEF FitInv
<1>6. WalkInv'
  BY <1>1, SchedAssumption, Zenon DEF WalkInv
<1> QED
  BY <1>2, <1>3, <1>4, <1>5, <1>6

\* A killall releases its first victim, which nobody else has.
LEMMA FreeVictimStep ==
    ASSUME IInv, NEW c \in Cpu, free_victim(c)
    PROVE  IInv'
<1> USE DEF IInv
<1> DEFINE V == victims[c]
           p == Head(V)
<1>1. V \in Seq(Proc) /\ V # <<>> /\ NoDuplicates(V) /\ Len(V) <= MAX_QUEUE_SIZE
  BY DEF free_victim, TypeOK, VictimInv, FitInv
<1>2. /\ p \in Proc /\ InQueue(V, p) /\ Tail(V) \in Seq(Proc)
      /\ Len(Tail(V)) = Len(V) - 1 /\ NoDuplicates(Tail(V))
      /\ \A x : InQueue(Tail(V), x) => InQueue(V, x) /\ x # p
  BY <1>1, TailFacts
<1>3. /\ UNCHANGED <<mlq_ready_queue, slot_used, running_list, killed, queue_lock,
                     scan, proc>>
      /\ pcb' = [pcb EXCEPT ![p] = "freed"]
      /\ victims' = [victims EXCEPT ![c] = Tail(V)] /\ queue_lock # c
  BY DEF free_victim
<1>4. pcb[p] = "delisted"
      /\ \A d \in Cpu : proc[d] # p /\ (InQueue(victims[d], p) => d = c)
  BY <1>2 DEF VictimInv
<1>5. Len(Tail(V)) <= MAX_QUEUE_SIZE
  BY <1>1, <1>2, QueueAssumption
<1>6. victims' \in [Cpu -> Seq(Proc)] /\ victims'[c] = Tail(V)
      /\ \A d \in Cpu : d # c => victims'[d] = victims[d]
  BY <1>2, <1>3 DEF TypeOK
<1> HIDE DEF p
<1>7. pcb' \in [Proc -> PcbState] /\ pcb'[p] = "freed"
      /\ \A x \in Proc : x # p => pcb'[x] = pcb[x]
  BY <1>2, <1>3 DEF TypeOK, PcbState
<1>8. TypeOK'
  BY <1>3, <1>6, <1>7 DEF TypeOK
<1>9. CpuInv'
  BY <1>3, <1>4, <1>7, SchedAssumption DEF CpuInv, TypeOK
<1>10. QueueInv'
  <2>1. ASSUME NEW i \in Level, NEW x \in Proc, InQueue(mlq_ready_queue[i], x)
        PROVE  prio(x) = i /\ pcb'[x] = "live" /\ \A d \in Cpu : proc[d] # x
    BY <1>4, <1>7, <2>1 DEF QueueInv
  <2>2. \A i \in Level : NoDuplicates(mlq_ready_queue[i])
    BY DEF QueueInv
  <2> QED
    BY <1>3, <2>1, <2>2, Zenon DEF QueueInv, prio
<1>11. ListInv'
  BY <1>2, <1>3, <1>4, <1>7 DEF ListInv
<1>12. VictimInv'
  <2>1. ASSUME NEW d \in Cpu, NEW x \in Proc, InQueue(victims'[d], x)
        PROVE  InQueue(victims[d], x) /\ x # p
    BY <1>2, <1>4, <1>6, <2>1, Zenon
  <2>2. \A d \in Cpu : NoDuplicates(victims'[d])
    BY <1>2, <1>6, Zenon DEF VictimInv
  <2> QED
    BY <1>3, <1>7, <2>1, <2>2 DEF VictimInv
<1>13. FitInv'
  BY <1>3, <1>5, <1>6 DEF FitInv
<1>14. WalkInv' /\ SlotBound'
  BY <1>3 DEF WalkInv, Matches, SlotBound, slot
<1> QED
  BY <1>8, <1>9, <1>10, <1>11, <1>12, <1>13, <1>14

-----------------------------------------------------------------------------
(* The theorems.                                                           *)

LEMMA StutterInv == IInv /\ UNCHANGED vars => IInv'
<1> SUFFICES ASSUME IInv, UNCHANGED vars PROVE IInv'
  OBVIOUS
<1> USE DEF IInv, vars
<1>1. TypeOK'
  BY DEF TypeOK
<1>2. CpuInv' /\ QueueInv' /\ ListInv' /\ VictimInv'
  BY Zenon DEF CpuInv, QueueInv, ListInv, VictimInv, prio
<1>3. FitInv' /\ WalkInv' /\ SlotBound'
  BY Zenon DEF FitInv, WalkInv, SlotBound, slot, Matches
<1> QED
  BY <1>1, <1>2, <1>3

LEMMA NextInv == IInv /\ [Next]_vars => IInv'
<1> SUFFICES ASSUME IInv, [Next]_vars PROVE IInv'
  OBVIOUS
<1>1. ASSUME NEW p \in Proc, add_proc(p) PROVE IInv'
  BY <1>1, AddStep
<1>2. ASSUME NEW c \in Cpu, CpuNext(c) PROVE IInv'
  <2>1. CASE get_proc(c)
    BY <2>1, GetStep
  <2>2. CASE put_proc(c)
    BY <2>2, PutStep
  <2>3. CASE finish_proc(c)
    BY <2>3, FinishStep
  <2>4. CASE free_pcb(c)
    BY <2>4, FreeStep
  <2>5. ASSUME NEW n \in Names, kill_lock(c, n) PROVE IInv'
    BY <2>5, KillLockStep
  <2>6. CASE kill_step(c)
    BY <2>6, KillPassStep, KillTakeStep DEF kill_step
  <2>7. CASE kill_unlock(c)
    BY <2>7, KillUnlockStep
  <2>8. CASE free_victim(c)
    BY <2>8, FreeVictimStep
  <2> QED
    BY <1>2, <2>1, <2>2, <2>3, <2>4, <2>5, <2>6, <2>7, <2>8 DEF CpuNext
<1>3. CASE UNCHANGED vars
  BY <1>3, StutterInv
<1> QED
  BY <1>1, <1>2, <1>3 DEF Next

\* The invariant holds in every state of the scheduler.
THEOREM Invariance == Spec => []IInv
  BY InitInv, NextInv, PTL DEF Spec

\* Every variable stays in its range, and no queue outgrows its array.
THEOREM TypeCorrect == Spec => []TypeOK
<1>1. IInv => TypeOK
  BY DEF IInv
<1> QED
  BY <1>1, Invariance, PTL

\* The ownership of processes is exclusive whatever the interleaving of the
\* CPUs' scheduler calls, the loader's and any number of killalls.
THEOREM Ownership == Spec => []ExclusiveOwner
<1>1. IInv => ExclusiveOwner
  <2> SUFFICES ASSUME IInv PROVE ExclusiveOwner
    OBVIOUS
  <2> USE DEF IInv
  <2>1. ASSUME NEW c \in Cpu, NEW p \in Proc, InQueue(victims[c], p)
        PROVE  ~ InQueue(mlq_ready_queue[prio(p)], p)
    BY <2>1, PrioIsLevel DEF QueueInv, VictimInv
  <2> QED
    BY <2>1 DEF ExclusiveOwner, CpuInv, QueueInv, VictimInv
<1> QED
  BY <1>1, Invariance, PTL

\* No PCB is used after it was freed, and none is freed twice.
THEOREM NoUseAfterFree == Spec => []NoDanglingPcb
<1>1. IInv => NoDanglingPcb
  <2> SUFFICES ASSUME IInv, NEW p \in Proc, pcb[p] = "freed"
               PROVE  /\ \A i \in Level : ~ InQueue(mlq_ready_queue[i], p)
                      /\ ~ InQueue(running_list, p)
                      /\ \A c \in Cpu : proc[c] # p /\ ~ InQueue(victims[c], p)
    BY DEF NoDanglingPcb
  <2> QED
    BY SchedAssumption DEF IInv, CpuInv, QueueInv, ListInv, VictimInv
<1> QED
  BY <1>1, Invariance, PTL

\* killall marks every process of the name that it can see.
THEOREM KillallComplete == Spec => []KillallMissesNone
<1>1. IInv => KillallMissesNone
  <2> SUFFICES ASSUME IInv, NEW c \in Cpu, queue_lock = c, scan.i > Len(running_list),
                      NEW k \in 1 .. Len(running_list), Matches(c, running_list[k])
               PROVE  killed[running_list[k]]
    BY DEF KillallMissesNone
  <2>1. k < scan.i
    BY DEF IInv, TypeOK
  <2> QED
    BY <2>1 DEF IInv, WalkInv
<1> QED
  BY <1>1, Invariance, PTL

\* The array of victims on the stack of sys_killall is never overrun.
THEOREM VictimsBounded == Spec => []VictimsFit
<1>1. IInv => VictimsFit
  BY DEF IInv, FitInv, VictimsFit
<1> QED
  BY <1>1, Invariance, PTL

\* No level exceeds its quota.
THEOREM SlotQuota == Spec => []SlotBound
<1>1. IInv => SlotBound
  BY DEF IInv
<1> QED
  BY <1>1, Invariance, PTL

-----------------------------------------------------------------------------
(* No process is lost.                                                     *)

\* A queue can hold all the processes of its level: however they are listed,
\* each once, the list is not longer than the array.
LevelsFit ==
    \A i \in Level : \A q \in Seq({p \in Proc : prio(p) = i}) :
       NoDuplicates(q) => Len(q) <= MAX_QUEUE_SIZE

\* So enqueue() never drops a process that its level's queue misses.
LEMMA NeverDropped ==
    ASSUME LevelsFit, IInv, NEW p \in Proc,
           ~ InQueue(mlq_ready_queue[prio(p)], p)
    PROVE  LET q == mlq_ready_queue[prio(p)]
           IN  \A x : InQueue(enqueue(q, p), x) <=> x = p \/ InQueue(q, x)
<1> DEFINE q == mlq_ready_queue[prio(p)]
           S == {x \in Proc : prio(x) = prio(p)}
<1>1. prio(p) \in Level /\ q \in Seq(Proc) /\ NoDuplicates(q)
  BY PrioIsLevel DEF IInv, TypeOK, QueueInv
<1>2. \A k \in 1 .. Len(q) : q[k] \in S
  <2> TAKE k \in 1 .. Len(q)
  <2>1. q[k] \in Proc /\ InQueue(q, q[k])
    BY <1>1 DEF InQueue
  <2> QED
    BY <1>1, <2>1 DEF IInv, QueueInv
<1>3. p \in S
  OBVIOUS
<1>4. ~ InQueue(q, p)
  OBVIOUS
<1>5. \A r \in Seq(S) : NoDuplicates(r) => Len(r) <= MAX_QUEUE_SIZE
  BY <1>1 DEF LevelsFit
<1> HIDE DEF q, S
<1>6. q \in Seq(S)
  BY <1>1, <1>2
<1>7. /\ Append(q, p) \in Seq(S)
      /\ Len(Append(q, p)) = Len(q) + 1
      /\ NoDuplicates(Append(q, p))
  BY <1>1, <1>3, <1>4, <1>6, AppendFacts
<1>8. /\ \A k \in 1 .. Len(q) : Append(q, p)[k] = q[k]
      /\ Append(q, p)[Len(q) + 1] = p
      /\ Len(q) \in Nat
  BY <1>6
<1>9. ~ (Len(q) >= MAX_QUEUE_SIZE)
  <2>1. Len(Append(q, p)) <= MAX_QUEUE_SIZE
    BY <1>5, <1>7, Zenon
  <2> QED
    BY <1>7, <1>8, <2>1, QueueAssumption
<1>10. enqueue(q, p) = Append(q, p)
  BY <1>9 DEF enqueue
<1>11. \A x : InQueue(Append(q, p), x) <=> x = p \/ InQueue(q, x)
  BY <1>7, <1>8 DEF InQueue
<1> QED
  BY <1>10, <1>11 DEF q

\* Taking one entry out leaves the others in.
LEMMA OthersStay ==
    ASSUME NEW S, NEW q \in Seq(S), NoDuplicates(q), NEW p, InQueue(q, p),
           NEW x, InQueue(q, x), x # p
    PROVE  InQueue(remove_from_queue(q, p), x)
<1>1. PICK j \in 1 .. Len(q) : q[j] = p
  BY DEF InQueue
<1>2. PICK k \in 1 .. Len(q) : q[k] = x
  BY DEF InQueue
<1> DEFINE r == remove_from_queue(q, q[j])
<1>3. /\ Len(r) = Len(q) - 1 /\ Len(q) \in Nat
      /\ \A l \in 1 .. Len(r) : r[l] = IF l < j THEN q[l] ELSE q[l + 1]
  BY RemoveFacts
<1>4. r = remove_from_queue(q, p)
  BY <1>1
<1> HIDE DEF r
<1>5. CASE k < j
  <2>1. k \in 1 .. Len(r) /\ r[k] = q[k]
    BY <1>3, <1>5
  <2> QED
    BY <1>2, <1>4, <2>1 DEF InQueue
<1>6. CASE k > j
  <2>1. k - 1 \in 1 .. Len(r) /\ ~ (k - 1 < j) /\ (k - 1) + 1 = k
    BY <1>3, <1>6
  <2>2. r[k - 1] = q[k]
    BY <1>3, <2>1
  <2> QED
    BY <1>2, <1>4, <2>1, <2>2 DEF InQueue
<1>7. k # j
  BY <1>1, <1>2
<1> QED
  BY <1>5, <1>6, <1>7

\* Whoever is to free a delisted process still has it.
Reaped ==
    \A p \in Proc : pcb[p] = "delisted" =>
       \E c \in Cpu : proc[c] = p \/ InQueue(victims[c], p)

LEMMA LostInit == Init => NothingLost /\ Reaped
  BY DEF Init, NothingLost, Reaped

\* A step that takes no process from a queue, a CPU or a list of victims.
LEMMA LostKept ==
    ASSUME NothingLost, Reaped,
           UNCHANGED <<mlq_ready_queue, proc, victims, pcb>>
    PROVE  NothingLost' /\ Reaped'
  BY Zenon DEF NothingLost, Reaped, prio

LEMMA LostAdd ==
    ASSUME LevelsFit, IInv, NothingLost, Reaped, NEW p \in Proc, add_proc(p)
    PROVE  NothingLost' /\ Reaped'
<1> DEFINE Q == mlq_ready_queue[prio(p)]
<1>1. /\ pcb[p] = "unloaded"
      /\ pcb' = [pcb EXCEPT ![p] = "live"] /\ UNCHANGED <<proc, victims>>
      /\ mlq_ready_queue' = [mlq_ready_queue EXCEPT ![prio(p)] = enqueue(Q, p)]
  BY DEF add_proc
<1>2. ~ InQueue(Q, p)
  BY <1>1, PrioIsLevel DEF IInv, QueueInv
<1>3. \A x : InQueue(enqueue(Q, p), x) <=> x = p \/ InQueue(Q, x)
  BY <1>2, NeverDropped
<1>4. \A x \in Proc : InQueue(mlq_ready_queue[prio(x)], x) \/ x = p =>
        InQueue(mlq_ready_queue'[prio(x)], x)
  BY <1>1, <1>3, PrioIsLevel DEF IInv, TypeOK
<1>5. \A x \in Proc : x # p => pcb'[x] = pcb[x]
  BY <1>1 DEF IInv, TypeOK
<1>6. pcb'[p] = "live"
  BY <1>1 DEF IInv, TypeOK
<1> QED
  BY <1>1, <1>4, <1>5, <1>6, Zenon DEF NothingLost, Reaped, prio

LEMMA LostPut ==
    ASSUME LevelsFit, IInv, NothingLost, Reaped, NEW c \in Cpu, put_proc(c)
    PROVE  NothingLost' /\ Reaped'
<1> DEFINE p == proc[c]
           Q == mlq_ready_queue[prio(p)]
<1>1. p \in Proc /\ pcb[p] = "live" /\ UNCHANGED <<pcb, victims>>
  BY DEF IInv, TypeOK, put_proc
<1>2. /\ mlq_ready_queue' = [mlq_ready_queue EXCEPT ![prio(p)] = enqueue(Q, p)]
      /\ proc' = [proc EXCEPT ![c] = NULL]
  BY DEF put_proc
<1>3. ~ InQueue(Q, p)
  BY <1>1, PrioIsLevel DEF IInv, QueueInv
<1>4. \A x : InQueue(enqueue(Q, p), x) <=> x = p \/ InQueue(Q, x)
  BY <1>1, <1>3, NeverDropped
<1>5. \A x \in Proc : InQueue(mlq_ready_queue[prio(x)], x) \/ x = p =>
        InQueue(mlq_ready_queue'[prio(x)], x)
  BY <1>1, <1>2, <1>4, PrioIsLevel DEF IInv, TypeOK
<1>6. \A x \in Proc, d \in Cpu : x # p /\ proc[d] = x => proc'[d] = x
  BY <1>2 DEF IInv, TypeOK
<1> HIDE DEF p
<1> QED
  BY <1>1, <1>5, <1>6 DEF NothingLost, Reaped, prio

LEMMA LostDispatch ==
    ASSUME IInv, NothingLost, Reaped, NEW c \in Cpu, NEW l \in Level, NEW u,
           mlq_ready_queue[l] # <<>>, proc[c] = NULL, Dispatch(c, l, u),
           UNCHANGED <<victims, pcb>>
    PROVE  NothingLost' /\ Reaped'
<1> DEFINE Q == mlq_ready_queue[l]
           p == Head(Q)
<1>1. Q \in Seq(Proc) /\ Q # <<>> /\ NoDuplicates(Q)
  BY DEF IInv, TypeOK, QueueInv
<1>2. p \in Proc
  BY <1>1, TailFacts
<1>3. /\ mlq_ready_queue' = [mlq_ready_queue EXCEPT ![l] = Tail(Q)]
      /\ proc' = [proc EXCEPT ![c] = p]
  BY DEF Dispatch, dequeue_head, dequeue_rest
<1>4. \A x \in Proc : InQueue(Q, x) /\ x # p => InQueue(Tail(Q), x)
  BY <1>1, TailRest
<1>5. \A x \in Proc : InQueue(mlq_ready_queue[prio(x)], x) /\ x # p =>
        InQueue(mlq_ready_queue'[prio(x)], x)
  BY <1>3, <1>4, PrioIsLevel DEF IInv, TypeOK
<1>6. /\ proc'[c] = p
      /\ \A x \in Proc, d \in Cpu : proc[d] = x => proc'[d] = x
  BY <1>3, SchedAssumption DEF IInv, TypeOK
<1> HIDE DEF p
<1> QED
  BY <1>5, <1>6 DEF NothingLost, Reaped, prio

LEMMA LostGet ==
    ASSUME IInv, NothingLost, Reaped, NEW c \in Cpu, get_proc(c)
    PROVE  NothingLost' /\ Reaped'
<1>1. proc[c] = NULL /\ UNCHANGED <<victims, pcb>>
  BY DEF get_proc
<1>2. CASE GetThisRound(c) \/ GetNextRound(c)
  <2>1. PICK l \in Level, u \in {slot_used, ResetSlots} :
          l \in Ready(mlq_ready_queue, u) /\ Dispatch(c, l, u)
    BY <1>2 DEF GetThisRound, GetNextRound, First
  <2>2. mlq_ready_queue[l] # <<>>
    BY <2>1 DEF Ready, empty
  <2> QED
    BY <1>1, <2>1, <2>2, LostDispatch
<1>3. CASE GetNothing(c)
  BY <1>1, <1>3, LostKept DEF GetNothing
<1> QED
  BY <1>2, <1>3 DEF get_proc

\* A process that ends stays with its CPU until the CPU frees it.
LEMMA LostEnd ==
    ASSUME IInv, NothingLost, Reaped, NEW c \in Cpu,
           finish_proc(c) \/ free_pcb(c)
    PROVE  NothingLost' /\ Reaped'
<1> DEFINE p == proc[c]
<1>1. p \in Proc /\ UNCHANGED <<mlq_ready_queue, victims>>
  BY DEF IInv, TypeOK, finish_proc, free_pcb
<1>2. /\ pcb'[p] \notin {"live", "unloaded"}
      /\ pcb'[p] = "delisted" => proc'[c] = p
  BY <1>1 DEF IInv, TypeOK, finish_proc, free_pcb
<1>3. \A x \in Proc : x # p => pcb'[x] = pcb[x]
  BY <1>1 DEF IInv, TypeOK, finish_proc, free_pcb
<1>4. \A d \in Cpu : d # c => proc'[d] = proc[d]
  BY DEF IInv, TypeOK, finish_proc, free_pcb
<1> HIDE DEF p
<1>5. \A x \in Proc, d \in Cpu : x # p /\ proc[d] = x => proc'[d] = x
  BY <1>4 DEF p
<1> QED
  BY <1>1, <1>2, <1>3, <1>5 DEF NothingLost, Reaped, prio

LEMMA LostTake ==
    ASSUME IInv, NothingLost, Reaped, NEW c \in Cpu, NEW p \in Proc,
           KillTake(c, p)
    PROVE  NothingLost' /\ Reaped'
<1> DEFINE Q == mlq_ready_queue[prio(p)]
           V == victims[c]
<1>1. /\ InQueue(Q, p)
      /\ mlq_ready_queue' =
           [mlq_ready_queue EXCEPT ![prio(p)] = remove_from_queue(Q, p)]
      /\ victims' = [victims EXCEPT ![c] = Append(V, p)]
      /\ pcb' = [pcb EXCEPT ![p] = "delisted"]
      /\ UNCHANGED proc
  BY DEF KillTake
<1>2. Q \in Seq(Proc) /\ NoDuplicates(Q)
  BY PrioIsLevel DEF IInv, TypeOK, QueueInv
<1>3. \A x : InQueue(Q, x) /\ x # p => InQueue(remove_from_queue(Q, p), x)
  BY <1>1, <1>2, OthersStay
<1>4. \A x \in Proc : InQueue(mlq_ready_queue[prio(x)], x) /\ x # p =>
        InQueue(mlq_ready_queue'[prio(x)], x)
  BY <1>1, <1>3, PrioIsLevel DEF IInv, TypeOK
<1>5. InQueue(Append(V, p), p) /\ \A x : InQueue(V, x) => InQueue(Append(V, p), x)
  <2>1. V \in Seq(Proc)
    BY DEF IInv, TypeOK
  <2>2. /\ Len(Append(V, p)) = Len(V) + 1 /\ Len(V) \in Nat
        /\ \A k \in 1 .. Len(V) : Append(V, p)[k] = V[k]
        /\ Append(V, p)[Len(V) + 1] = p
    BY <2>1
  <2> HIDE DEF V
  <2> QED
    BY <2>2 DEF InQueue
<1>6. /\ InQueue(victims'[c], p)
      /\ \A d \in Cpu, x \in Proc : InQueue(victims[d], x) => InQueue(victims'[d], x)
  BY <1>1, <1>5 DEF IInv, TypeOK
<1>7. pcb'[p] = "delisted" /\ \A x \in Proc : x # p => pcb'[x] = pcb[x]
  BY <1>1 DEF IInv, TypeOK
<1>8. NothingLost'
  BY <1>1, <1>4, <1>7 DEF NothingLost, prio
<1>9. Reaped'
  BY <1>1, <1>6, <1>7 DEF Reaped
<1> QED
  BY <1>8, <1>9

LEMMA LostReap ==
    ASSUME IInv, NothingLost, Reaped, NEW c \in Cpu, free_victim(c)
    PROVE  NothingLost' /\ Reaped'
<1> DEFINE V == victims[c]
           p == Head(V)
<1>1. V \in Seq(Proc) /\ V # <<>> /\ NoDuplicates(V)
  BY DEF free_victim, IInv, TypeOK, VictimInv
<1>2. p \in Proc
  BY <1>1, TailFacts
<1>3. /\ pcb' = [pcb EXCEPT ![p] = "freed"]
      /\ victims' = [victims EXCEPT ![c] = Tail(V)]
      /\ UNCHANGED <<mlq_ready_queue, proc>>
  BY DEF free_victim
<1>4. \A x \in Proc : InQueue(V, x) /\ x # p => InQueue(Tail(V), x)
  BY <1>1, TailRest
<1>5. \A d \in Cpu, x \in Proc :
        InQueue(victims[d], x) /\ x # p => InQueue(victims'[d], x)
  BY <1>3, <1>4 DEF IInv, TypeOK
<1> HIDE DEF p
<1>6. pcb'[p] = "freed" /\ \A x \in Proc : x # p => pcb'[x] = pcb[x]
  BY <1>2, <1>3 DEF IInv, TypeOK
<1> QED
  BY <1>3, <1>5, <1>6 DEF NothingLost, Reaped, prio

LEMMA LostStep ==
    ASSUME LevelsFit, IInv, NothingLost, Reaped, [Next]_vars
    PROVE  NothingLost' /\ Reaped'
<1>1. ASSUME NEW c \in Cpu, kill_step(c) PROVE NothingLost' /\ Reaped'
  <2> DEFINE p == running_list[scan.i]
  <2>1. p \in Proc
    BY <1>1 DEF kill_step, IInv, TypeOK
  <2>2. CASE KillTake(c, p)
    BY <2>1, <2>2, LostTake
  <2>3. CASE KillSkip(c, p) \/ KillMark(c, p)
    BY <2>3, LostKept DEF KillSkip, KillMark
  <2> QED
    BY <1>1, <2>2, <2>3 DEF kill_step
<1>2. ASSUME NEW c \in Cpu,
             kill_unlock(c) \/ \E n \in Names : kill_lock(c, n)
      PROVE  NothingLost' /\ Reaped'
  BY <1>2, LostKept DEF kill_unlock, kill_lock
<1>3. CASE UNCHANGED vars
  BY <1>3, LostKept DEF vars
<1> QED
  BY <1>1, <1>2, <1>3, LostAdd, LostPut, LostGet, LostEnd, LostReap
  DEF Next, CpuNext

\* No process that the scheduler knows is lost, whatever the interleaving of
\* dispatches, requeues and killalls, as long as a level's queue has room for
\* the processes of that level.  Without that room enqueue() drops one.
THEOREM NobodyLost ==
    ASSUME LevelsFit
    PROVE  Spec => [](NothingLost /\ Reaped)
<1>1. IInv /\ (NothingLost /\ Reaped) /\ [Next]_vars => (NothingLost /\ Reaped)'
  BY LostStep
<1> QED
  BY <1>1, LostInit, Invariance, PTL DEF Spec

-----------------------------------------------------------------------------
(* How often a waiting level is passed over (SchedBypass).                 *)

\* Every step of the extended specification is a step of the scheduler.
LEMMA BypassStep == [BypassNext]_bvars => [Next]_vars
  BY DEF BypassNext, bvars, vars

\* A quota is at least one, and the counters are numbers within it.
LEMMA SlotFacts ==
    ASSUME IInv, NEW i \in Level
    PROVE  slot(i) \in Nat \ {0} /\ slot_used[i] \in Nat /\ slot_used[i] <= slot(i)
<1>1. MAX_PRIO \in Nat /\ i \in Nat /\ i < MAX_PRIO
  BY SchedAssumption DEF Level
<1>2. slot(i) \in Nat \ {0}
  BY <1>1 DEF slot
<1>3. slot_used[i] \in Nat /\ slot_used[i] <= slot(i)
  BY DEF IInv, TypeOK, SlotBound
<1> QED
  BY <1>2, <1>3

\* Steps that dispatch nothing and keep the counters.
LEMMA QuietStep ==
    ASSUME IInv, BypassInv, since' = NextSince, UNCHANGED slot_used,
           \A c \in Cpu : proc[c] = NULL => proc'[c] = NULL
    PROVE  BypassInv'
<1>1. \A i \in Level : ~ Dispatches(i)
  BY DEF Dispatches
<1>2. \A j, i \in Level : since'[j][i] =
         IF mlq_ready_queue[j] = <<>> \/ mlq_ready_queue'[j] = <<>> THEN 0
         ELSE since[j][i]
  BY <1>1 DEF NextSince
<1>3. \A j, i \in Level : since[j][i] \in Nat
  BY DEF BypassInv
<1>4. since' \in [Level -> [Level -> Nat]]
  BY <1>1, <1>3 DEF NextSince
<1>5. SlotBound'
  BY DEF BypassInv, SlotBound, slot
<1>6. ASSUME NEW j \in Level, NEW i \in Level, mlq_ready_queue'[j] # <<>>
      PROVE  since'[j][i] <=
                slot_used[i] + (IF slot_used[j] < slot(j) THEN slot(i) ELSE 0)
  <2>1. slot_used[i] \in Nat /\ slot_used[j] \in Nat /\ slot(i) \in Nat /\ slot(j) \in Nat
    BY SlotFacts
  <2>2. CASE mlq_ready_queue[j] = <<>>
    BY <1>2, <1>6, <2>1, <2>2
  <2>3. CASE mlq_ready_queue[j] # <<>>
    BY <1>2, <1>6, <2>3 DEF BypassInv
  <2> QED
    BY <2>2, <2>3
<1> QED
  BY <1>4, <1>5, <1>6 DEF BypassInv, slot

\* CPU c is given the head of level l, with counters u that are those of the
\* current round, or all zero when no waiting level has a slot left.
LEMMA BypassDispatch ==
    ASSUME IInv, BypassInv, since' = NextSince, NEW c \in Cpu, NEW l \in Level,
           NEW u, Dispatch(c, l, u), proc[c] = NULL,
           mlq_ready_queue[l] # <<>>,
           u \in [Level -> Nat], u[l] < slot(l), \A i \in Level : u[i] <= slot(i),
           \/ u = slot_used
           \/ /\ u = ResetSlots
              /\ \A j \in Level : mlq_ready_queue[j] # <<>> => ~ (slot_used[j] < slot(j))
    PROVE  BypassInv'
<1> DEFINE p == Head(mlq_ready_queue[l])
<1>1. /\ p \in Proc /\ prio(p) = l
      /\ mlq_ready_queue[l] \in Seq(Proc)
  BY TailFacts DEF IInv, TypeOK, QueueInv
<1>2. /\ proc' = [proc EXCEPT ![c] = p]
      /\ slot_used' = [u EXCEPT ![l] = @ + 1]
      /\ \A i \in Level : i # l => mlq_ready_queue'[i] = mlq_ready_queue[i]
  BY DEF Dispatch, dequeue_head, dequeue_rest, IInv, TypeOK
<1>3. \A i \in Level : Dispatches(i) <=> i = l
  BY <1>1, <1>2, SchedAssumption DEF Dispatches, IInv, TypeOK
<1>4. \A j, i \in Level :
         IF mlq_ready_queue[j] = <<>> \/ mlq_ready_queue'[j] = <<>> \/ j = l
         THEN since'[j][i] = 0
         ELSE \/ since'[j][i] = since[j][i]
              \/ since'[j][i] = since[j][i] + 1 /\ i = l
  BY <1>3 DEF NextSince
<1>5. \A j, i \in Level : since[j][i] \in Nat
  BY DEF BypassInv
<1>6. since' \in [Level -> [Level -> Nat]]
  BY <1>3, <1>5 DEF NextSince
<1>7. \A i \in Level : slot_used'[i] = IF i = l THEN u[i] + 1 ELSE u[i]
  BY <1>2
<1>8. \A i \in Level : slot(i) \in Nat \ {0} /\ u[i] \in Nat /\ slot_used[i] \in Nat
                       /\ slot_used[i] <= slot(i)
  BY SlotFacts
<1>9. SlotBound'
  BY <1>7, <1>8 DEF SlotBound, slot
<1>10. ASSUME NEW j \in Level, NEW i \in Level, mlq_ready_queue'[j] # <<>>
       PROVE  since'[j][i] <=
                 slot_used'[i] + (IF slot_used'[j] < slot(j) THEN slot(i) ELSE 0)
  <2>1. slot_used'[i] \in Nat
    BY <1>7, <1>8
  <2>2. CASE mlq_ready_queue[j] = <<>> \/ j = l
    <3>1. since'[j][i] = 0
      BY <1>4, <2>2, Zenon
    <3>2. slot(i) \in Nat
      BY <1>8
    <3> QED
      BY <2>1, <3>1, <3>2
  <2>3. CASE mlq_ready_queue[j] # <<>> /\ j # l
    <3> DEFINE old == slot_used[i] + (IF slot_used[j] < slot(j) THEN slot(i) ELSE 0)
               new == u[i] + (IF u[j] < slot(j) THEN slot(i) ELSE 0)
    <3>1. since[j][i] <= old
      BY <2>3 DEF BypassInv
    <3>2. old <= new
      <4>1. CASE u = slot_used
        BY <1>8, <4>1
      <4>2. CASE u = ResetSlots /\ ~ (slot_used[j] < slot(j))
        <5>1. u[i] = 0 /\ u[j] = 0
          BY <4>2 DEF ResetSlots
        <5> QED
          BY <1>8, <4>2, <5>1
      <4> QED
        BY <2>3, <4>1, <4>2
    <3>3. since'[j][i] = since[j][i] \/ (since'[j][i] = since[j][i] + 1 /\ i = l)
      BY <1>4, <1>10, <2>3
    <3>4. slot_used'[j] = u[j] /\ slot_used'[i] = IF i = l THEN u[i] + 1 ELSE u[i]
      BY <1>7, <2>3
    <3>5. since[j][i] <= new
      BY <1>5, <1>8, <3>1, <3>2
    <3> HIDE DEF old
    <3>6. CASE i = l
      <4>1. since'[j][i] \in {since[j][i], since[j][i] + 1} /\ slot_used'[i] = u[i] + 1
        BY <3>3, <3>4, <3>6
      <4>2. since[j][i] + 1 <= new + 1 /\ since[j][i] <= new + 1 /\ new \in Nat
        BY <1>5, <1>8, <3>5
      <4> HIDE DEF new
      <4>3. since'[j][i] <= new + 1
        BY <4>1, <4>2
      <4> QED
        BY <1>8, <3>4, <4>1, <4>3 DEF new
    <3>7. CASE i # l
      <4>1. since'[j][i] = since[j][i] /\ slot_used'[i] = u[i]
        BY <3>3, <3>4, <3>7
      <4> QED
        BY <3>4, <3>5, <4>1
    <3> QED
      BY <3>6, <3>7
  <2> QED
    BY <2>2, <2>3
<1> QED
  BY <1>6, <1>9, <1>10 DEF BypassInv, slot

LEMMA BypassGet ==
    ASSUME IInv, BypassInv, since' = NextSince, NEW c \in Cpu, get_proc(c)
    PROVE  BypassInv'
<1>1. proc[c] = NULL
  BY DEF get_proc
<1>2. slot_used \in [Level -> Nat] /\ \A i \in Level : slot_used[i] <= slot(i)
  BY DEF IInv, TypeOK, SlotBound
<1>3. ResetSlots \in [Level -> Nat] /\ \A i \in Level : ResetSlots[i] <= slot(i)
  <2>1. \A i \in Level : slot(i) \in Nat
    BY SlotFacts
  <2> QED
    BY <2>1 DEF ResetSlots
<1>4. CASE GetThisRound(c)
  <2>1. PICK l \in Level : First(l, Ready(mlq_ready_queue, slot_used))
                           /\ Dispatch(c, l, slot_used)
    BY <1>4 DEF GetThisRound
  <2>2. mlq_ready_queue[l] # <<>> /\ slot_used[l] < slot(l)
    BY <2>1 DEF First, Ready, empty
  <2> QED
    BY <1>1, <1>2, <2>1, <2>2, BypassDispatch
<1>5. CASE GetNextRound(c)
  <2>1. PICK l \in Level : First(l, Ready(mlq_ready_queue, ResetSlots))
                           /\ Dispatch(c, l, ResetSlots)
    BY <1>5 DEF GetNextRound
  <2>2. mlq_ready_queue[l] # <<>> /\ ResetSlots[l] < slot(l)
    BY <2>1 DEF First, Ready, empty
  <2>3. \A j \in Level : mlq_ready_queue[j] # <<>> => ~ (slot_used[j] < slot(j))
    BY <1>5 DEF GetNextRound, Ready, empty
  <2> QED
    BY <1>1, <1>3, <2>1, <2>2, <2>3, BypassDispatch
<1>6. CASE GetNothing(c)
  <2>1. slot_used' = ResetSlots /\ UNCHANGED <<proc, mlq_ready_queue>>
    BY <1>6 DEF GetNothing
  <2>2. \A j \in Level : mlq_ready_queue[j] = <<>>
    <3>1. \A j \in Level : ResetSlots[j] < slot(j)
      <4>1. \A i \in Level : slot(i) \in Nat \ {0}
        BY SlotFacts
      <4> QED
        BY <4>1 DEF ResetSlots
    <3> QED
      BY <1>6, <3>1 DEF GetNothing, Ready, empty
  <2>3. since' \in [Level -> [Level -> Nat]]
    BY <2>2 DEF NextSince
  <2>4. SlotBound'
    BY <1>3, <2>1 DEF SlotBound, slot
  <2> QED
    BY <2>1, <2>2, <2>3, <2>4 DEF BypassInv
<1> QED
  BY <1>4, <1>5, <1>6 DEF get_proc

LEMMA BypassInvStep == IInv /\ BypassInv /\ [BypassNext]_bvars => BypassInv'
<1> SUFFICES ASSUME IInv, BypassInv, [BypassNext]_bvars PROVE BypassInv'
  OBVIOUS
<1>1. CASE UNCHANGED bvars
  <2>1. UNCHANGED <<mlq_ready_queue, slot_used, since>>
    BY <1>1 DEF bvars, vars
  <2> QED
    BY <2>1 DEF BypassInv, SlotBound, slot
<1>2. ASSUME since' = NextSince, NEW p \in Proc, add_proc(p) PROVE BypassInv'
  <2>1. UNCHANGED <<slot_used, proc>>
    BY <1>2 DEF add_proc
  <2> QED
    BY <1>2, <2>1, QuietStep
<1>3. ASSUME since' = NextSince, NEW c \in Cpu, CpuNext(c) PROVE BypassInv'
  <2>1. CASE get_proc(c)
    BY <1>3, <2>1, BypassGet
  <2>2. CASE ~ get_proc(c)
    <3>1. UNCHANGED slot_used
      BY <1>3, <2>2 DEF CpuNext, put_proc, finish_proc, free_pcb, kill_lock,
         kill_step, KillSkip, KillMark, KillTake, kill_unlock, free_victim
    <3>2. proc' = proc \/ proc' = [proc EXCEPT ![c] = NULL]
      BY <1>3, <2>2 DEF CpuNext, put_proc, finish_proc, free_pcb, kill_lock,
         kill_step, KillSkip, KillMark, KillTake, kill_unlock, free_victim
    <3>3. \A d \in Cpu : proc[d] = NULL => proc'[d] = NULL
      BY <3>2 DEF IInv, TypeOK
    <3> QED
      BY <1>3, <3>1, <3>3, QuietStep
  <2> QED
    BY <2>1, <2>2
<1> QED
  BY <1>1, <1>2, <1>3 DEF BypassNext, Next

\* While a process waits at some level, no level is dispatched more than twice
\* its quota before that level is: get_mlq_proc keeps the promise of README and
\* of its comment, for any number of priorities.
THEOREM BypassBounded == BypassSpec => []BoundedBypass
<1>1. BypassInit => IInv /\ BypassInv
  <2> SUFFICES ASSUME BypassInit PROVE IInv /\ BypassInv
    OBVIOUS
  <2>1. IInv
    BY InitInv DEF BypassInit
  <2>2. \A i \in Level : slot(i) \in Nat
    BY <2>1, SlotFacts
  <2>3. since \in [Level -> [Level -> Nat]]
    BY DEF BypassInit
  <2> QED
    BY <2>1, <2>2, <2>3 DEF BypassInit, Init, BypassInv, IInv
<1>2. IInv /\ BypassInv /\ [BypassNext]_bvars => (IInv /\ BypassInv)'
  BY BypassStep, NextInv, BypassInvStep
<1>3. IInv /\ BypassInv => BoundedBypass
  <2> SUFFICES ASSUME IInv, BypassInv, NEW j \in Level, NEW i \in Level,
                      mlq_ready_queue[j] # <<>>
               PROVE  since[j][i] <= 2 * slot(i)
    BY DEF BoundedBypass, MaxBypass
  <2>1. since[j][i] \in Nat
    BY DEF BypassInv
  <2>2. slot(i) \in Nat /\ slot_used[i] \in Nat /\ slot_used[i] <= slot(i)
    BY SlotFacts
  <2>3. since[j][i] <= slot_used[i] + (IF slot_used[j] < slot(j) THEN slot(i) ELSE 0)
    BY DEF BypassInv
  <2> QED
    BY <2>1, <2>2, <2>3
<1> QED
  BY <1>1, <1>2, <1>3, PTL DEF BypassSpec
=============================================================================
