------------------------------ MODULE Regions ------------------------------
(***************************************************************************)
(* The regions of one address space: the free list of its area and the     *)
(* symbol table of its process (libmem.c and mm-vm.c).  Each operation is  *)
(* one step: it holds mmvm_lock throughout, and no other process touches   *)
(* this mm_struct.  Whether the area can grow is up to Paging: vm_map_ram  *)
(* finds the frames or it does not.                                        *)
(***************************************************************************)
EXTENDS Integers, Sequences, FiniteSetsExt, Functions

CONSTANTS
    RgId,       \* the region IDs
    PAGESZ,     \* PAGING_PAGESZ
    MaxSize,    \* the largest request; a bound of the model
    MaxBrk      \* where an area stops growing; a bound of the model

ASSUME RegionsAssumption ==
    {PAGESZ, MaxSize, MaxBrk} \subseteq Nat \ {0}

VARIABLES
    freerg_list,    \* vm_freerg_list of the area
    symrgtbl,       \* the region of each ID
    sbrk,           \* the end of the area, also its vm_end
    lost,           \* history: the bytes whose only ID was given another region
    starved         \* history: an allocation failed in spite of the frames it got

rvars == <<freerg_list, symrgtbl, sbrk, lost, starved>>

\* The bytes from rg_start up to rg_end.
Region(start, end) == [start |-> start, end |-> end]
Empty == Region(0, 0)
Bytes(rg) == rg.start .. rg.end - 1

\* init_mm(): the free list starts with an empty region.
RegionsInit ==
    /\ freerg_list = <<Empty>>
    /\ symrgtbl = [i \in RgId |-> Empty]
    /\ sbrk = 0
    /\ lost = {}
    /\ starved = FALSE

\* PAGING_PAGE_ALIGNSZ
align_not(sz) == sz

align(sz) == ((sz + PAGESZ - 1) \div PAGESZ) * PAGESZ

-----------------------------------------------------------------------------
(* The free list *)

adjacent_below(r, e) == r.end = e.start

adjacent(r, e) == r.end = e.start \/ e.end = r.start

merge(r, e) ==
    Region(IF r.start < e.start THEN r.start ELSE e.start,
           IF r.end > e.end THEN r.end ELSE e.end)

\* enlist_vm_freerg_list(): the new region takes in its neighbours as the loop
\* meets them, and becomes the head of what is left of the list.
visit(seen, r) ==
    IF adjacent(r, seen.elmt) THEN [seen EXCEPT !.elmt = merge(r, @)]
    ELSE [seen EXCEPT !.kept = Append(@, r)]

\* The loop: what the new region and the list are after k regions.
visited(list, rg_elmt) ==
    LET seen[k \in 0 .. Len(list)] ==
            IF k = 0 THEN [elmt |-> rg_elmt, kept |-> <<>>]
            ELSE visit(seen[k - 1], list[k])
    IN  seen

enlist_vm_freerg_list(list, rg_elmt) ==
    LET all == visited(list, rg_elmt)[Len(list)]
    IN  IF rg_elmt.start >= rg_elmt.end THEN list
        ELSE <<all.elmt>> \o all.kept

\* get_free_vmrg_area(): the first region that is large enough, 0 if none is.
first_fit_strict(list, size) ==
    LET fits == {k \in 1 .. Len(list) : list[k].start + size < list[k].end}
    IN  IF fits = {} THEN 0 ELSE Min(fits)

first_fit(list, size) ==
    LET fits == {k \in 1 .. Len(list) : list[k].start + size <= list[k].end}
    IN  IF fits = {} THEN 0 ELSE Min(fits)

\* ... which it leaves without its first bytes, or unlinks.
take(list, k, size) ==
    IF list[k].start + size = list[k].end
    THEN SubSeq(list, 1, k - 1) \o SubSeq(list, k + 1, Len(list))
    ELSE [list EXCEPT ![k].start = @ + size]

-----------------------------------------------------------------------------
(* __alloc() and __free() *)

\* The region found at place k of the list goes to rgid.
commit(rgid, list, k, size) ==
    /\ symrgtbl' = [symrgtbl EXCEPT ![rgid] =
                       Region(list[k].start, list[k].start + size)]
    /\ freerg_list' = take(list, k, size)
    /\ lost' = lost \cup Bytes(symrgtbl[rgid])

\* __alloc() finds room in the list.
alloc_found(rgid, size) ==
    LET k == first_fit(freerg_list, size)
    IN  /\ k # 0
        /\ commit(rgid, freerg_list, k, size)
        /\ UNCHANGED <<sbrk, starved>>

\* It does not, inc_vma_limit() gets the frames, and it looks again.  Without the
\* frames nothing changes.
alloc_grown(rgid, size) ==
    LET inc_amt == align(size)
        list == enlist_vm_freerg_list(freerg_list, Region(sbrk, sbrk + inc_amt))
        k == first_fit(list, size)
    IN  /\ first_fit(freerg_list, size) = 0
        /\ sbrk + inc_amt <= MaxBrk
        /\ sbrk' = sbrk + inc_amt
        /\ IF k # 0 THEN commit(rgid, list, k, size)
           ELSE freerg_list' = list /\ UNCHANGED <<symrgtbl, lost>>
        /\ starved' = (starved \/ k = 0)

allocated(rg) == rg.start < rg.end

free_keeps_symbol(rgid) ==
    /\ allocated(symrgtbl[rgid])
    /\ freerg_list' = enlist_vm_freerg_list(freerg_list, symrgtbl[rgid])
    /\ UNCHANGED <<symrgtbl, sbrk, lost, starved>>

free(rgid) ==
    /\ allocated(symrgtbl[rgid])
    /\ symrgtbl' = [symrgtbl EXCEPT ![rgid] = Empty]
    /\ freerg_list' = enlist_vm_freerg_list(freerg_list, symrgtbl[rgid])
    /\ UNCHANGED <<sbrk, lost, starved>>

\* The bounds check of __read() and __write().
in_region_or_next(rg, offset) == offset >= 0 /\ rg.start + offset <= rg.end

in_region(rg, offset) == offset >= 0 /\ rg.start + offset < rg.end

RegionsNext ==
    \E rgid \in RgId :
        \/ free(rgid)
        \/ \E size \in 1 .. MaxSize : alloc_found(rgid, size) \/ alloc_grown(rgid, size)

RegionsSpec == RegionsInit /\ [][RegionsNext]_rvars

-----------------------------------------------------------------------------
(* Properties *)

\* Regions lie within the area and are never inverted; the area ends at the end
\* of a page, so that inc_vma_limit maps whole pages and maps none of them twice.
RegionsTypeOK ==
    /\ sbrk \in 0 .. MaxBrk /\ sbrk % PAGESZ = 0
    /\ \A rg \in Range(freerg_list) \cup Range(symrgtbl) :
          rg.start \in 0 .. sbrk /\ rg.end \in rg.start .. sbrk
    /\ DOMAIN symrgtbl = RgId
    /\ lost \subseteq 0 .. sbrk - 1
    /\ starved \in BOOLEAN

\* Each byte of the area is in exactly one place: one free region, the region of
\* one ID, or a region whose ID __alloc gave another one.  So no allocation ever
\* returns memory in use, and splitting and merging lose nothing.
EachByteOnce ==
    \A b \in 0 .. sbrk - 1 :
        Cardinality({k \in DOMAIN freerg_list : b \in Bytes(freerg_list[k])})
          + Cardinality({i \in RgId : b \in Bytes(symrgtbl[i])})
          + (IF b \in lost THEN 1 ELSE 0) = 1

\* Free regions never touch each other, although enlist_vm_freerg_list does not
\* look again at the regions it has passed after the new one has grown.
Coalesced ==
    \A k, l \in DOMAIN freerg_list :
        k # l => freerg_list[k].end # freerg_list[l].start

\* An allocation for which inc_vma_limit got frames succeeds: what it asks for,
\* the size rounded up to pages, is always enough.
GrowthSuffices == ~ starved

\* The bounds check of a region lets through only bytes of the area that belong to
\* this region, to no other one and not to the free list.
AccessStaysInside ==
    \A i \in RgId : \A offset \in -1 .. MaxBrk :
        in_region(symrgtbl[i], offset) =>
            LET addr == symrgtbl[i].start + offset
            IN  /\ addr \in 0 .. sbrk - 1
                /\ \A j \in RgId \ {i} : addr \notin Bytes(symrgtbl[j])
                /\ \A k \in DOMAIN freerg_list : addr \notin Bytes(freerg_list[k])
=============================================================================
