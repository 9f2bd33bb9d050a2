---------------------------- MODULE SchedBypass ----------------------------
(***************************************************************************)
(* How long a level of the multilevel queue can be passed over.  A history *)
(* variable is added to Sched: while level j has a process waiting,        *)
(* since[j][i] counts the dispatches of level i since level j last         *)
(* dispatched, or since it last was empty.  It stops at the first count    *)
(* that is too high.                                                       *)
(***************************************************************************)
EXTENDS Sched

VARIABLE since

bvars == <<vars, since>>

\* In this step some CPU has been given a process of level i.
Dispatches(i) ==
    \E c \in Cpu :
       proc[c] = NULL /\ proc'[c] # NULL /\ prio(proc'[c]) = i

\* A level may pass another twice its quota.
MaxBypass(i) == 2 * slot(i)

NextSince ==
    [j \in Level |-> [i \in Level |->
       IF \/ mlq_ready_queue[j] = <<>>
          \/ mlq_ready_queue'[j] = <<>>
          \/ Dispatches(j)
       THEN 0
       ELSE IF Dispatches(i) /\ since[j][i] <= MaxBypass(i) THEN since[j][i] + 1
       ELSE since[j][i]]]

BypassInit == Init /\ since = [j \in Level |-> [i \in Level |-> 0]]

BypassNext == Next /\ since' = NextSince

BypassSpec == BypassInit /\ [][BypassNext]_bvars

FairBypass == BypassSpec /\ \A c \in Cpu : CpuFairness(c)

\* README and the comment of get_mlq_proc promise that a level yields after
\* its slots.  While a process waits at level j, no other level is dispatched
\* more than twice its quota before level j is dispatched: once with what is
\* left of the current round and once more in the next round.
BoundedBypass ==
    \A j, i \in Level :
       mlq_ready_queue[j] # <<>> => since[j][i] <= MaxBypass(i)

(***************************************************************************)
(* The strengthening that makes the bound inductive: what has passed level *)
(* j is accounted for by the counters of the current round, plus a whole   *)
(* earlier round only if level j still has slots in the current one.       *)
(***************************************************************************)
BypassInv ==
    /\ since \in [Level -> [Level -> Nat]]
    /\ SlotBound
    /\ \A j, i \in Level : mlq_ready_queue[j] # <<>> =>
          since[j][i] <=
             slot_used[i] + (IF slot_used[j] < slot(j) THEN slot(i) ELSE 0)
=============================================================================
