------------------------------ MODULE VirtMem ------------------------------
(***************************************************************************)
(* What the paged memory promises the processes: each has pages of its own *)
(* that keep what was written to them, whether they are in RAM or in swap  *)
(* and whatever the other processes do.  One request is served at a time,  *)
(* under mmvm_lock.                                                        *)
(***************************************************************************)
CONSTANTS
    Proc,     \* the processes
    Page,     \* the page numbers of an address space
    Val,      \* what a page can hold
    NULL      \* an unmapped page; no value to write

VARIABLES
    mem,      \* per process and page: its content, or NULL
    request,  \* the request being served, see Request
    result    \* the value the last read returned

memvars == <<mem, request, result>>

\* grow: new pages for proc; access: write val to the page, or read it when val
\* is NULL; exit: release the pages of proc.
Request ==
    [kind : {"grow", "exit"}, proc : Proc]
      \cup [kind : {"access"}, proc : Proc, page : Page, val : Val \cup {NULL}]

Idle == [kind |-> "idle"]

MemInit ==
    /\ mem = [p \in Proc |-> [g \in Page |-> NULL]]
    /\ request = Idle
    /\ result = NULL

Begin ==
    /\ request = Idle
    /\ request' \in Request
    /\ request'.kind = "access" => mem[request'.proc][request'.page] # NULL
    /\ UNCHANGED <<mem, result>>

\* A page is mapped with whatever its frame held before.
Map ==
    /\ request.kind = "grow"
    /\ \E g \in Page, v \in Val :
          /\ mem[request.proc][g] = NULL
          /\ mem' = [mem EXCEPT ![request.proc][g] = v]
    /\ UNCHANGED <<request, result>>

Write ==
    /\ request.kind = "access"
    /\ request.val # NULL
    /\ mem' = [mem EXCEPT ![request.proc][request.page] = request.val]
    /\ request' = Idle
    /\ UNCHANGED result

Read ==
    /\ request.kind = "access"
    /\ request.val = NULL
    /\ result' = mem[request.proc][request.page]
    /\ request' = Idle
    /\ UNCHANGED mem

Unmap ==
    /\ request.kind = "exit"
    /\ \E g \in Page : mem' = [mem EXCEPT ![request.proc][g] = NULL]
    /\ UNCHANGED <<request, result>>

\* A request is over, or is given up: nothing has changed.
End ==
    /\ request # Idle
    /\ request' = Idle
    /\ UNCHANGED <<mem, result>>

MemNext == Begin \/ Map \/ Write \/ Read \/ Unmap \/ End

MemSpec == MemInit /\ [][MemNext]_memvars
=============================================================================
