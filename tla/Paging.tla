------------------------------- MODULE Paging -------------------------------
(***************************************************************************)
(* The page tables, the frames of RAM and swap, and swapping: libmem.c,    *)
(* mm.c, mm-vm.c and mm-memphy.c at the granularity of pages.              *)
(*                                                                         *)
(* An operation holds mmvm_lock from its first to its last step; each      *)
(* iteration of its loops over frames or pages is a step.  The content of  *)
(* a page is one value.  Only one swap device is ever used: main passes    *)
(* mswp[0] as the active one to every process.                             *)
(***************************************************************************)
EXTENDS Lists

CONSTANTS
    Proc,       \* the processes
    NPage,      \* PAGING_MAX_PGN, the pages of an address space
    NRam,       \* frames of RAM
    NSwp,       \* frames of the active swap
    Val,        \* what a page can hold
    Zero,       \* what init_memphy fills the devices with
    NULL        \* no value to write

ASSUME PagingAssumption ==
    /\ NPage \in Nat \ {0}
    /\ NRam \in Nat \ {0} /\ NSwp \in Nat \ {0}
    /\ Zero \in Val /\ NULL \notin Val

Page == 0 .. NPage - 1
RamFrame == 0 .. NRam - 1
SwpFrame == 0 .. NSwp - 1

VARIABLES
    pgd,        \* per process: its page table
    fifo_pgn,   \* per process: its pages in RAM, the newest first
    vm_end,     \* per process: the number of pages of its area
    ram_free,   \* mram->free_fp_list
    swp_free,   \* active_mswp->free_fp_list
    ram, swp,   \* the storage of the two devices, per frame
    live,       \* the processes that have not been freed
    data,       \* what the last read returned
    at,         \* the point reached by the operation that holds mmvm_lock
    who,        \* its caller
    page,       \* the page it has come to
    need,       \* the number of frames it wants
    held,       \* the frames it has got, the last one first
    val         \* what it writes, NULL for a read

opvars == <<at, who, page, need, held, val>>
memory == <<pgd, fifo_pgn, vm_end, ram_free, swp_free, ram, swp, live, data>>
pvars == <<memory, opvars>>

\* A page table entry: not present, in RAM or in swap.
None == [in |-> "none", f |-> 0]
InRam(f) == [in |-> "ram", f |-> f]
InSwp(f) == [in |-> "swp", f |-> f]
Pte == {None} \cup {InRam(f) : f \in RamFrame} \cup {InSwp(f) : f \in SwpFrame}

\* "idle": nobody has the lock; "grow": in alloc_pages_range; "undo": in its
\* error path; "map": in vmap_page_range; "fault": pg_getpage wants a frame;
\* "io": the page is in RAM; "reap": in free_pcb_memph.
Point == {"idle", "grow", "undo", "map", "fault", "io", "reap"}

PagingInit ==
    /\ pgd = [p \in Proc |-> [g \in Page |-> None]]
    /\ fifo_pgn = [p \in Proc |-> <<>>]
    /\ vm_end = [p \in Proc |-> 0]
    /\ ram_free = [k \in 1 .. NRam |-> k - 1]
    /\ swp_free = [k \in 1 .. NSwp |-> k - 1]
    /\ ram = [f \in RamFrame |-> Zero]
    /\ swp = [f \in SwpFrame |-> Zero]
    /\ live = Proc
    /\ data = NULL
    /\ at = "idle" /\ who = NULL /\ page = 0 /\ need = 0 /\ held = <<>> /\ val = NULL

\* The operation locks mmvm_lock, for n frames, and goes to l.
Lock(l, p, g, n, v) ==
    /\ at = "idle"
    /\ p \in live
    /\ at' = l /\ who' = p /\ page' = g /\ need' = n /\ held' = <<>> /\ val' = v

Unlock ==
    /\ at' = "idle" /\ who' = NULL /\ page' = 0 /\ need' = 0 /\ held' = <<>>
    /\ val' = NULL

\* MEMPHY_get_freefp(): the frame at the head of the free list is taken.
freefp(list) == Head(list)

after_get_kept(list) == list

after_get(list) == Tail(list)

\* MEMPHY_put_freefp(): the frame becomes the head of the free list.
put_freefp_lost(list, f) == list

put_freefp(list, f) == <<f>> \o list

\* __swap_cp_page(): frame s of src is copied to frame d of dst.
swap_cp_page_lost(src, s, dst, d) == dst

swap_cp_page(src, s, dst, d) == [dst EXCEPT ![d] = src[s]]

\* find_victim_page(): the page at the tail, the oldest.
victim(q) == q[Len(q)]
younger(q) == SubSeq(q, 1, Len(q) - 1)

\* enlist_pgn_node(): the page becomes the head.
enlist_pgn_node(q, g) == <<g>> \o q

\* A victim that finds no room in swap is enlisted again, if there was one.
reenlist_forgotten(q) == IF q = <<>> THEN q ELSE younger(q)

reenlist(q) == IF q = <<>> THEN q ELSE enlist_pgn_node(younger(q), victim(q))

-----------------------------------------------------------------------------
(* A frame of RAM for the caller, wanted by "grow" and "fault": the free   *)
(* list, or else the frame of the caller's oldest page.                    *)

WantsFrame_one_more == at \in {"grow", "fault"} /\ Len(held) <= need

WantsFrame == at \in {"grow", "fault"} /\ Len(held) < need

get_freefp ==
    /\ WantsFrame
    /\ ram_free # <<>>
    /\ held' = <<freefp(ram_free)>> \o held
    /\ ram_free' = after_get(ram_free)
    /\ UNCHANGED <<pgd, fifo_pgn, vm_end, swp_free, ram, swp, live, data,
                   at, who, page, need, val>>

\* __swap_out_page(): the victim is copied to a free frame of swap.
swap_out_page ==
    /\ WantsFrame
    /\ ram_free = <<>>
    /\ fifo_pgn[who] # <<>>
    /\ swp_free # <<>>
    /\ LET vicpgn == victim(fifo_pgn[who])
           vicfpn == pgd[who][vicpgn].f
           swpfpn == freefp(swp_free)
       IN  /\ swp' = swap_cp_page(ram, vicfpn, swp, swpfpn)
           /\ pgd' = [pgd EXCEPT ![who][vicpgn] = InSwp(swpfpn)]
           /\ held' = <<vicfpn>> \o held
    /\ fifo_pgn' = [fifo_pgn EXCEPT ![who] = younger(@)]
    /\ swp_free' = after_get(swp_free)
    /\ UNCHANGED <<vm_end, ram_free, ram, live, data, at, who, page, need, val>>

\* There is no victim, or no room in swap for it: the victim is enlisted again.
\* An allocation gives back its frames, a read or write returns -1.
no_frame ==
    /\ WantsFrame
    /\ ram_free = <<>>
    /\ fifo_pgn[who] = <<>> \/ swp_free = <<>>
    /\ fifo_pgn' = [fifo_pgn EXCEPT ![who] = reenlist(@)]
    /\ \/ /\ at = "grow"
          /\ at' = "undo"
          /\ UNCHANGED <<who, page, need, held, val>>
       \/ /\ at = "fault"
          /\ Unlock
    /\ UNCHANGED <<pgd, vm_end, ram_free, swp_free, ram, swp, live, data>>

-----------------------------------------------------------------------------
(* __alloc() that finds no free region, and inc_vma_limit(): n pages more. *)
(* The guard on vm_end is a bound of the model: the code has none.         *)

inc_vma_limit(p, n) ==
    /\ vm_end[p] + n <= NPage
    /\ Lock("grow", p, vm_end[p], n, NULL)
    /\ UNCHANGED memory

undo_frame ==
    /\ at = "undo"
    /\ held # <<>>
    /\ ram_free' = put_freefp(ram_free, Head(held))
    /\ held' = Tail(held)
    /\ UNCHANGED <<pgd, fifo_pgn, vm_end, swp_free, ram, swp, live, data,
                   at, who, page, need, val>>

undo_done ==
    /\ at = "undo"
    /\ held = <<>>
    /\ Unlock
    /\ UNCHANGED memory

begin_map ==
    /\ at = "grow"
    /\ Len(held) = need
    /\ at' = "map"
    /\ UNCHANGED <<memory, who, page, need, held, val>>

\* vmap_page_range() gives the next page the next frame of the list.
map_page ==
    /\ at = "map"
    /\ held # <<>>
    /\ pgd' = [pgd EXCEPT ![who][page] = InRam(Head(held))]
    /\ fifo_pgn' = [fifo_pgn EXCEPT ![who] = enlist_pgn_node(@, page)]
    /\ held' = Tail(held)
    /\ page' = page + 1
    /\ UNCHANGED <<vm_end, ram_free, swp_free, ram, swp, live, data,
                   at, who, need, val>>

map_done_not_added ==
    /\ at = "map"
    /\ held = <<>>
    /\ vm_end' = [vm_end EXCEPT ![who] = need]
    /\ Unlock
    /\ UNCHANGED <<pgd, fifo_pgn, ram_free, swp_free, ram, swp, live, data>>

map_done ==
    /\ at = "map"
    /\ held = <<>>
    /\ vm_end' = [vm_end EXCEPT ![who] = page]
    /\ Unlock
    /\ UNCHANGED <<pgd, fifo_pgn, ram_free, swp_free, ram, swp, live, data>>

-----------------------------------------------------------------------------
(* __read() (v = NULL) and __write() of a byte of page g.  pg_getpage()     *)
(* refuses a page that was never mapped, and then nothing changes.         *)

access(p, g, v) ==
    /\ pgd[p][g] # None
    /\ Lock(IF pgd[p][g].in = "swp" THEN "fault" ELSE "io", p, g, 1, v)
    /\ UNCHANGED memory

\* The rest of pg_getpage(): the page is copied from swap to the frame.
load_page ==
    /\ at = "fault"
    /\ Len(held) = need
    /\ LET tgtfpn == Head(held)
           tgtswpfpn == pgd[who][page].f
       IN  /\ ram' = swap_cp_page(swp, tgtswpfpn, ram, tgtfpn)
           /\ swp_free' = put_freefp(swp_free, tgtswpfpn)
           /\ pgd' = [pgd EXCEPT ![who][page] = InRam(tgtfpn)]
    /\ fifo_pgn' = [fifo_pgn EXCEPT ![who] = enlist_pgn_node(@, page)]
    /\ held' = <<>>
    /\ at' = "io"
    /\ UNCHANGED <<vm_end, ram_free, swp, live, data, who, page, need, val>>

\* MEMPHY_read() or MEMPHY_write() through sys_memmap.
io ==
    /\ at = "io"
    /\ LET fpn == pgd[who][page].f
       IN  IF val = NULL
           THEN data' = ram[fpn] /\ UNCHANGED ram
           ELSE ram' = [ram EXCEPT ![fpn] = val] /\ UNCHANGED data
    /\ Unlock
    /\ UNCHANGED <<pgd, fifo_pgn, vm_end, ram_free, swp_free, swp, live>>

-----------------------------------------------------------------------------
(* free_pcb() of a process that has ended, and its free_pcb_memph().       *)

free_pcb(p) ==
    /\ Lock("reap", p, 0, 0, NULL)
    /\ live' = live \ {p}
    /\ UNCHANGED <<pgd, fifo_pgn, vm_end, ram_free, swp_free, ram, swp, data>>

free_page ==
    /\ at = "reap"
    /\ page < NPage
    /\ LET pte == pgd[who][page]
       IN  /\ ram_free' = IF pte.in = "ram" THEN put_freefp(ram_free, pte.f)
                          ELSE ram_free
           /\ swp_free' = IF pte.in = "swp" THEN put_freefp(swp_free, pte.f)
                          ELSE swp_free
    /\ pgd' = [pgd EXCEPT ![who][page] = None]
    /\ page' = page + 1
    /\ UNCHANGED <<fifo_pgn, vm_end, ram, swp, live, data, at, who, need, held, val>>

free_done ==
    /\ at = "reap"
    /\ page = NPage
    /\ fifo_pgn' = [fifo_pgn EXCEPT ![who] = <<>>]
    /\ Unlock
    /\ UNCHANGED <<pgd, vm_end, ram_free, swp_free, ram, swp, live, data>>

-----------------------------------------------------------------------------

Step ==
    \/ get_freefp \/ swap_out_page \/ no_frame
    \/ undo_frame \/ undo_done \/ begin_map \/ map_page \/ map_done
    \/ load_page \/ io
    \/ free_page \/ free_done

PagingNext ==
    \/ Step
    \/ \E p \in Proc :
          \/ \E n \in 1 .. NPage : inc_vma_limit(p, n)
          \/ \E g \in Page, v \in Val \cup {NULL} : access(p, g, v)
          \/ free_pcb(p)

PagingSpec == PagingInit /\ [][PagingNext]_pvars

-----------------------------------------------------------------------------
(* Properties *)

\* Every variable has its type; an operation never takes more frames than it
\* wants, and pg_getpage and free_pcb_memph end with none in hand.
PagingTypeOK ==
    /\ pgd \in [Proc -> [Page -> Pte]]
    /\ fifo_pgn \in [Proc -> Seq(Page)]
    /\ vm_end \in [Proc -> 0 .. NPage]
    /\ ram_free \in Seq(RamFrame) /\ swp_free \in Seq(SwpFrame)
    /\ ram \in [RamFrame -> Val] /\ swp \in [SwpFrame -> Val]
    /\ live \subseteq Proc
    /\ data \in Val \cup {NULL} /\ val \in Val \cup {NULL}
    /\ at \in Point
    /\ IF at = "idle" THEN who = NULL ELSE who \in Proc
    /\ page \in 0 .. NPage /\ need \in 0 .. NPage
    /\ held \in Seq(RamFrame) /\ Len(held) <= need

\* A frame of RAM is in one place only: free, in the hands of the operation that
\* has the lock, or under one page of one process.  Two pages never share a frame,
\* and MEMPHY_put_freefp never frees a frame twice or while a page is in it.
\* So it is with swap, of which no operation holds a frame.
FramesExclusive ==
    /\ NoDuplicates(ram_free) /\ NoDuplicates(held) /\ NoDuplicates(swp_free)
    /\ \A f \in RamFrame : ~ (InQueue(ram_free, f) /\ InQueue(held, f))
    /\ \A p \in Proc, g \in Page :
          /\ pgd[p][g].in = "ram" => /\ ~ InQueue(ram_free, pgd[p][g].f)
                                     /\ ~ InQueue(held, pgd[p][g].f)
          /\ pgd[p][g].in = "swp" => ~ InQueue(swp_free, pgd[p][g].f)
          /\ \A q \in Proc, h \in Page :
                pgd[p][g] = pgd[q][h] => pgd[p][g] = None \/ (p = q /\ g = h)

\* No frame of either device is ever lost, neither by a swap-out that fails half
\* way through an allocation nor by the end of a process: it is free, held or under
\* a page of a process.
FramesConserved ==
    /\ \A f \in RamFrame :
          \/ InQueue(ram_free, f)
          \/ InQueue(held, f)
          \/ \E p \in Proc, g \in Page : pgd[p][g] = InRam(f)
    /\ \A f \in SwpFrame :
          InQueue(swp_free, f) \/ \E p \in Proc, g \in Page : pgd[p][g] = InSwp(f)

\* fifo_pgn lists the pages a process has in RAM, all of them and each once, so
\* that find_victim_page never picks a page that is not there and never overlooks
\* one.  free_pcb drops the list only after the pages.
FifoInRam ==
    \A p \in Proc : ~ (at = "reap" /\ who = p) =>
        /\ NoDuplicates(fifo_pgn[p])
        /\ \A g \in Page : InQueue(fifo_pgn[p], g) <=> pgd[p][g].in = "ram"

\* The area of a process has no holes: an allocation that fails maps no page of
\* it, one that succeeds maps them all, and swapping never unmaps one.
AreaMapped ==
    \A p \in live : \A g \in Page :
        pgd[p][g] # None <=> g < (IF at = "map" /\ who = p THEN page ELSE vm_end[p])

\* What process p would read from its page g.
Cell(p, g) ==
    CASE pgd[p][g].in = "none" -> NULL
      [] pgd[p][g].in = "ram" -> ram[pgd[p][g].f]
      [] pgd[p][g].in = "swp" -> swp[pgd[p][g].f]

Content == [p \in Proc |-> [g \in Page |-> Cell(p, g)]]

\* The operation in progress, as its caller sees it.
Pending ==
    CASE at = "idle" -> [kind |-> "idle"]
      [] at \in {"grow", "undo", "map"} -> [kind |-> "grow", proc |-> who]
      [] at \in {"fault", "io"} ->
            [kind |-> "access", proc |-> who, page |-> page, val |-> val]
      [] at = "reap" -> [kind |-> "exit", proc |-> who]

VM == INSTANCE VirtMem
          WITH mem <- Content, request <- Pending, result <- data

\* Paging implements private memory that keeps its values: a swap-out, a swap-in
\* and whatever is done for another process never change what a page holds, and
\* a read returns what the process wrote last.
ValuesSurvive == VM!MemSpec

-----------------------------------------------------------------------------
(* What the documentation says and the code does not do. *)

\* "A page is loaded back when it is accessed": an access that finds its page in
\* swap gets it into RAM.
PageComesBack == [][at = "fault" => at' # "idle"]_pvars

\* g entered RAM after h, as the list q has it.
Newer(q, g, h) == \E k, l \in 1 .. Len(q) : k < l /\ q[k] = g /\ q[l] = h

\* "The process's oldest page (FIFO) moves to SWAP": the order in which pages
\* that stay in RAM will be evicted never changes.
FifoKeepsOrder ==
    [][\A p \in Proc, g, h \in Page :
          Newer(fifo_pgn[p], g, h) => ~ Newer(fifo_pgn'[p], h, g)]_pvars
=============================================================================
