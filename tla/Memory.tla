------------------------------- MODULE Memory -------------------------------
(***************************************************************************)
(* One address space from end to end: the regions of the process that has  *)
(* it (Regions), addresses split into page and offset, page table entries  *)
(* as words (Pte), pages swapped between two devices byte by byte.  Each   *)
(* operation is one step, under mmvm_lock; the interleaving of operations  *)
(* of several processes is the subject of Paging.                          *)
(***************************************************************************)
EXTENDS Regions, Pte

CONSTANTS
    BUS_WIDTH,       \* PAGING_CPU_BUS_WIDTH: 22
    RamSize,         \* the size of RAM in bytes
    SwpSize,         \* the size of swap, mswp[0], in bytes
    Sizes,           \* the sizes asked for, up to MaxSize; a bound of the model
    MaxWrites,       \* how many bytes are written; a bound of the model
    Unknown          \* the content of a byte that has not been written

VARIABLES
    mm,       \* the page table, the FIFO list and the two devices
    shadow,   \* history: what was last written to each byte of each region
    data,     \* what the last operation read and should have read
    writes    \* the writes so far, at most MaxWrites

mvars == <<rvars, mm, shadow, data, writes>>

NBITS(n) == CHOOSE k \in 0 .. 30 : 2^k <= n /\ n < 2^(k + 1)

\* A number and the set of its ones; page, frame and offset numbers are below
\* 2^BUS_WIDTH.
Bits(n) == {b \in 0 .. 30 : (n \div 2^b) % 2 = 1}
Number == [v \in SUBSET (0 .. BUS_WIDTH) |-> MapThenSumSet(LAMBDA b : 2^b, v)]
Num(v) == Number[v]

\* LOBIT: the bits of the offset in an address.
LOBIT == NBITS(PAGESZ)
PAGING_MAX_PGN == 2^BUS_WIDTH \div PAGESZ
Page == 0 .. PAGING_MAX_PGN - 1

\* The values of a byte; the writes write different ones, so that any confusion of
\* two bytes shows.
Byte == 0 .. MaxWrites

ASSUME MemoryAssumption ==
    /\ BUS_WIDTH \in 1 .. 22 /\ PAGESZ = 2^LOBIT
    /\ RamSize \in Nat /\ RamSize >= PAGESZ /\ SwpSize \in Nat /\ SwpSize >= PAGESZ
    /\ Sizes \subseteq 1 .. MaxSize /\ MaxWrites \in Nat /\ Unknown \notin Byte

PAGING_OFFST(addr) == Num(GETVAL(Bits(addr), GENMASK(LOBIT - 1, 0), 0))

PAGING_PGN(addr) ==
    Num(GETVAL(Bits(addr), GENMASK(BUS_WIDTH - 1, LOBIT), LOBIT))

-----------------------------------------------------------------------------
(* A device: its bytes and its list of free frames.                        *)

Upto(n) == [k \in 1 .. n |-> k - 1]

MEMPHY_format(maxsz) == Upto(maxsz \div PAGESZ)

init_memphy(max_size) ==
    [storage |-> [a \in 0 .. max_size - 1 |-> 0], free |-> MEMPHY_format(max_size)]

\* An address outside the device is refused: a read leaves the caller's 0.
MEMPHY_read(mp, addr) == IF addr \in DOMAIN mp.storage THEN mp.storage[addr] ELSE 0

MEMPHY_write(mp, addr, value) ==
    IF addr \in DOMAIN mp.storage THEN [mp EXCEPT !.storage[addr] = value] ELSE mp

MEMPHY_put_freefp(mp, fpn) == [mp EXCEPT !.free = <<fpn>> \o @]

\* The first n cells of frame s of one device go to those of frame d of another.
copy_cells(src, s, dst, d, n) ==
    [dst EXCEPT !.storage =
        [a \in DOMAIN @ |->
            IF a - d * PAGESZ \in 0 .. n - 1
            THEN MEMPHY_read(src, s * PAGESZ + (a - d * PAGESZ)) ELSE @[a]]]

\* The last cell is not copied.
swap_cp_page_short(src, s, dst, d) == copy_cells(src, s, dst, d, PAGESZ - 1)

swap_cp_page(src, s, dst, d) == copy_cells(src, s, dst, d, PAGESZ)

-----------------------------------------------------------------------------
(* Frames of RAM.  The operators return a machine m and a frame fpn, which *)
(* is -1 where the code returns an error.                                  *)

Found(m, fpn) == [m |-> m, fpn |-> fpn]

\* The swap device is number 0.
swap_out_page(m) ==
    LET n == Len(m.fifo_pgn)
        vicpgn == m.fifo_pgn[n]
        younger == SubSeq(m.fifo_pgn, 1, n - 1)
        vicfpn == Num(PAGING_FPN(m.pgd[vicpgn]))
        swpfpn == Head(m.mswp.free)
    IN  IF m.fifo_pgn = <<>> THEN Found(m, -1)
        ELSE IF m.mswp.free = <<>>
        THEN Found([m EXCEPT !.fifo_pgn = <<vicpgn>> \o younger], -1)
        ELSE Found([m EXCEPT !.fifo_pgn = younger,
                             !.mswp.free = Tail(@),
                             !.mswp = swap_cp_page(m.mram, vicfpn, @, swpfpn),
                             !.pgd[vicpgn] = pte_set_swap(@, {}, Bits(swpfpn))],
                   vicfpn)

get_frame(m) ==
    IF m.mram.free = <<>> THEN swap_out_page(m)
    ELSE Found([m EXCEPT !.mram.free = Tail(@)], Head(m.mram.free))

\* The frames of a list go back one after the other, each to the head.
put_all(mp, frames) ==
    LET n == Len(frames)
    IN  [mp EXCEPT !.free = [k \in 1 .. n |-> frames[n + 1 - k]] \o @]

\* frames: what has been allocated so far, the last one first; an allocation that
\* falls short gives them back.
take_frame(a) ==
    LET got == get_frame(a.m)
    IN  IF a.short THEN a
        ELSE [m |-> got.m, short |-> got.fpn = -1,
              frames |-> IF got.fpn = -1 THEN a.frames ELSE <<got.fpn>> \o a.frames]

alloc_pages_range(m, req_pgnum) ==
    LET after[pgit \in 0 .. req_pgnum] ==
            IF pgit = 0 THEN [m |-> m, frames |-> <<>>, short |-> FALSE]
            ELSE take_frame(after[pgit - 1])
        all == after[req_pgnum]
    IN  IF all.short THEN [all EXCEPT !.m.mram = put_all(@, all.frames)] ELSE all

\* A write behind the page table is undefined; the model drops it.
map_pages(m, pgn, frames) ==
    LET n == Len(frames)
    IN  [m EXCEPT !.pgd = [g \in DOMAIN @ |->
                              IF g - pgn \in 0 .. n - 1
                              THEN pte_set_fpn(@[g], Bits(frames[g - pgn + 1]))
                              ELSE @[g]],
                  !.fifo_pgn = [k \in 1 .. n |-> pgn + n - k] \o @]

\* Mapping starts behind the page at addr.
vmap_page_range_next(m, addr, frames) == map_pages(m, PAGING_PGN(addr) + 1, frames)

vmap_page_range(m, addr, frames) == map_pages(m, PAGING_PGN(addr), frames)

pg_getpage(m, pgn) ==
    LET pte == m.pgd[pgn]
        tgtswpfpn == Num(PAGING_PTE_SWP(pte))
        got == get_frame(m)
        loaded == [map_pages(got.m, pgn, <<got.fpn>>) EXCEPT
                      !.mram = swap_cp_page(got.m.mswp, tgtswpfpn, @, got.fpn),
                      !.mswp = MEMPHY_put_freefp(@, tgtswpfpn)]
    IN  IF ~ PAGE_PRESENT(pte) THEN Found(m, -1)
        ELSE IF ~ PAGE_SWAPPED(pte) THEN Found(m, Num(PAGING_FPN(pte)))
        ELSE IF got.fpn = -1 THEN got
        ELSE Found(loaded, Num(PAGING_FPN(loaded.pgd[pgn])))

phyaddr(fpn, addr) == fpn * 2^LOBIT + PAGING_OFFST(addr)

-----------------------------------------------------------------------------
(* The operations of the process *)

Blank == [i \in RgId |-> [o \in 0 .. MaxSize - 1 |-> Unknown]]
Nothing == [value |-> Unknown, want |-> Unknown]
NoPages == [g \in Page |-> {}]

MemoryInit ==
    /\ RegionsInit
    /\ mm = [pgd |-> NoPages, fifo_pgn |-> <<>>,
             mram |-> init_memphy(RamSize), mswp |-> init_memphy(SwpSize)]
    /\ shadow = Blank
    /\ data = Nothing
    /\ writes = 0

\* __alloc() that the free list can serve.
alloc_from_list(rgid, size) ==
    /\ alloc_found(rgid, size)
    /\ shadow' = [shadow EXCEPT ![rgid] = Blank[rgid]]
    /\ data' = Nothing
    /\ UNCHANGED <<mm, writes>>

\* inc_vma_limit(): vm_map_ram() finds the frames, and maps them from sbrk on.
alloc_with_frames(rgid, size) ==
    LET got == alloc_pages_range(mm, align(size) \div PAGESZ)
    IN  /\ first_fit(freerg_list, size) = 0
        /\ ~ got.short
        /\ alloc_grown(rgid, size)
        /\ mm' = vmap_page_range(got.m, sbrk, got.frames)
        /\ shadow' = [shadow EXCEPT ![rgid] = Blank[rgid]]
        /\ data' = Nothing
        /\ UNCHANGED writes

\* It does not, but may have sent pages to swap on the way.
alloc_without_frames(rgid, size) ==
    LET got == alloc_pages_range(mm, align(size) \div PAGESZ)
    IN  /\ first_fit(freerg_list, size) = 0
        /\ got.short
        /\ mm' = got.m
        /\ data' = Nothing
        /\ UNCHANGED <<rvars, shadow, writes>>

free_region(rgid) ==
    /\ free(rgid)
    /\ shadow' = [shadow EXCEPT ![rgid] = Blank[rgid]]
    /\ data' = Nothing
    /\ UNCHANGED <<mm, writes>>

\* __read(): a page that cannot be brought into RAM fails the read.
read(rgid, offset) ==
    LET addr == symrgtbl[rgid].start + offset
        got == pg_getpage(mm, PAGING_PGN(addr))
    IN  /\ in_region(symrgtbl[rgid], offset)
        /\ mm' = got.m
        /\ data' = IF got.fpn = -1 THEN Nothing
                   ELSE [value |-> MEMPHY_read(got.m.mram, phyaddr(got.fpn, addr)),
                         want |-> shadow[rgid][offset]]
        /\ UNCHANGED <<rvars, shadow, writes>>

write(rgid, offset, value) ==
    LET addr == symrgtbl[rgid].start + offset
        got == pg_getpage(mm, PAGING_PGN(addr))
    IN  /\ in_region(symrgtbl[rgid], offset)
        /\ writes < MaxWrites
        /\ writes' = writes + 1
        /\ IF got.fpn = -1 THEN mm' = got.m /\ UNCHANGED shadow
           ELSE /\ mm' = [got.m EXCEPT !.mram =
                             MEMPHY_write(@, phyaddr(got.fpn, addr), value)]
                /\ shadow' = [shadow EXCEPT ![rgid][offset] = value]
        /\ data' = Nothing
        /\ UNCHANGED rvars

\* The swap frames are not given back.
free_page_ram_only(m, g) ==
    IF ~ PAGE_PRESENT(m.pgd[g]) \/ PAGE_SWAPPED(m.pgd[g]) THEN m
    ELSE [m EXCEPT !.mram = MEMPHY_put_freefp(@, Num(PAGING_FPN(m.pgd[g])))]

free_page(m, g) ==
    IF ~ PAGE_PRESENT(m.pgd[g]) THEN m
    ELSE IF PAGE_SWAPPED(m.pgd[g])
    THEN [m EXCEPT !.mswp = MEMPHY_put_freefp(@, Num(PAGING_PTE_SWP(m.pgd[g])))]
    ELSE [m EXCEPT !.mram = MEMPHY_put_freefp(@, Num(PAGING_FPN(m.pgd[g])))]

free_pcb_memph(m) ==
    LET after[pagenum \in 0 .. PAGING_MAX_PGN] ==
            IF pagenum = 0 THEN m ELSE free_page(after[pagenum - 1], pagenum - 1)
    IN  [after[PAGING_MAX_PGN] EXCEPT !.pgd = NoPages]

\* free_pcb() of the process; the next one starts with init_mm() on the same devices.
free_pcb ==
    /\ mm' = [free_pcb_memph(mm) EXCEPT !.fifo_pgn = <<>>]
    /\ freerg_list' = <<Empty>>
    /\ symrgtbl' = [i \in RgId |-> Empty]
    /\ sbrk' = 0
    /\ lost' = {}
    /\ shadow' = Blank
    /\ data' = Nothing
    /\ UNCHANGED <<starved, writes>>

MemoryNext ==
    \/ free_pcb
    \/ \E rgid \in RgId :
          \/ free_region(rgid)
          \/ \E size \in Sizes :
                \/ alloc_from_list(rgid, size)
                \/ alloc_with_frames(rgid, size)
                \/ alloc_without_frames(rgid, size)
          \/ \E offset \in 0 .. MaxSize - 1 :
                read(rgid, offset) \/ write(rgid, offset, writes + 1)

MemorySpec == MemoryInit /\ [][MemoryNext]_mvars

-----------------------------------------------------------------------------
(* Properties *)

Frames(size) == 0 .. size \div PAGESZ - 1

\* The entries of online pages and of those in swap, without any other bit.
Online == [f \in Frames(RamSize) |-> {31} \cup Bits(f)]
Offline == [s \in Frames(SwpSize) |-> {31, 30} \cup {b + 5 : b \in Bits(s)}]

\* Page table entries are those of whole frames of a device, and of nothing else:
\* no bit is left of what an entry was before pte_set_fpn or pte_set_swap.
MemoryTypeOK ==
    /\ mm.pgd \in [Page -> {{}} \cup Range(Online) \cup Range(Offline)]
    /\ DOMAIN shadow = RgId
    /\ \A k \in DOMAIN mm.fifo_pgn : mm.fifo_pgn[k] \in Page

\* The byte at an address, wherever its page is.
Cell(addr) ==
    LET pte == mm.pgd[addr \div PAGESZ]
        off == addr % PAGESZ
    IN  CHOOSE b \in Byte :
            \/ \E f \in Frames(RamSize) :
                  pte = Online[f] /\ b = mm.mram.storage[f * PAGESZ + off]
            \/ \E s \in Frames(SwpSize) :
                  pte = Offline[s] /\ b = mm.mswp.storage[s * PAGESZ + off]

\* Each byte of a region keeps what was last written to it through that region,
\* and a read returns it, whatever was allocated, freed, grown, sent to swap and
\* brought back in between, in this process or in an earlier one.
BytesSurvive ==
    /\ \A i \in RgId : \A o \in 0 .. MaxSize - 1 :
          shadow[i][o] # Unknown => Cell(symrgtbl[i].start + o) = shadow[i][o]
    /\ data.want # Unknown => data.value = data.want

\* Each whole frame of a device is in exactly one place: once in the free list, or
\* in one page table entry.  Failed allocations and ended processes give back all
\* they had, and no two pages share a frame.
EachFrameOnce ==
    /\ \A f \in Frames(RamSize) :
          Cardinality({k \in DOMAIN mm.mram.free : mm.mram.free[k] = f})
            + Cardinality({g \in Page : mm.pgd[g] = Online[f]}) = 1
    /\ \A s \in Frames(SwpSize) :
          Cardinality({k \in DOMAIN mm.mswp.free : mm.mswp.free[k] = s})
            + Cardinality({g \in Page : mm.pgd[g] = Offline[s]}) = 1

\* The pages below sbrk, and no others, have a frame: an access that passes the
\* check of its region never meets an unmapped page.
MappedUpToSbrk ==
    \A g \in Page : PAGE_PRESENT(mm.pgd[g]) <=> g * PAGESZ < sbrk

\* The area of a process stays within its address space.
AreaWithinSpace == sbrk <= 2^BUS_WIDTH
=============================================================================
