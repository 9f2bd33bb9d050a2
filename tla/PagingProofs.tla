--------------------------- MODULE PagingProofs ---------------------------
(***************************************************************************)
(* Theorems about Paging for any number of processes, pages and frames.    *)
(***************************************************************************)
EXTENDS Paging, ListLemmas

\* What each point of an operation relies on: the frames it has in hand, the page
\* it is at, and where that page is.
OpOK ==
    /\ at \in {"idle", "io", "reap"} => held = <<>>
    /\ at \notin {"idle", "reap"} => who \in live
    /\ at \in {"grow", "undo"} => page = vm_end[who] /\ page + need <= NPage
    /\ at = "map" => page + Len(held) = vm_end[who] + need /\ page + Len(held) <= NPage
    /\ at = "fault" => page \in Page /\ need = 1 /\ pgd[who][page].in = "swp"
    /\ at = "io" => page \in Page /\ pgd[who][page].in = "ram"
    /\ at = "reap" => who \notin live /\ \A g \in Page : g < page => pgd[who][g] = None

\* The inductive invariant.
PagingInv ==
    /\ PagingTypeOK
    /\ FramesExclusive
    /\ FifoInRam
    /\ AreaMapped
    /\ OpOK

-----------------------------------------------------------------------------
(* Page table entries *)

LEMMA PteFacts ==
    /\ None \in Pte /\ None.in = "none"
    /\ \A f \in RamFrame : InRam(f) \in Pte /\ InRam(f).in = "ram" /\ InRam(f).f = f
    /\ \A f \in SwpFrame : InSwp(f) \in Pte /\ InSwp(f).in = "swp" /\ InSwp(f).f = f
    /\ \A e \in Pte : /\ e.in \in {"none", "ram", "swp"}
                      /\ e.in = "none" => e = None
                      /\ e.in = "ram" => e.f \in RamFrame /\ e = InRam(e.f)
                      /\ e.in = "swp" => e.f \in SwpFrame /\ e = InSwp(e.f)
<1>1. None \in Pte /\ None.in = "none"
  BY DEF Pte, None
<1>2. \A f \in RamFrame : InRam(f) \in Pte /\ InRam(f).in = "ram" /\ InRam(f).f = f
  BY DEF Pte, InRam
<1>3. \A f \in SwpFrame : InSwp(f) \in Pte /\ InSwp(f).in = "swp" /\ InSwp(f).f = f
  BY DEF Pte, InSwp
<1>4. ASSUME NEW e \in Pte
      PROVE  \/ e = None
             \/ \E f \in RamFrame : e = InRam(f)
             \/ \E f \in SwpFrame : e = InSwp(f)
  BY DEF Pte
<1> QED
  BY <1>1, <1>2, <1>3, <1>4

\* One entry of one page table changes.
LEMMA PteChange ==
    ASSUME NEW t \in [Proc -> [Page -> Pte]], NEW p \in Proc, NEW g \in Page,
           NEW e \in Pte, NEW u, u = [t EXCEPT ![p][g] = e]
    PROVE  /\ u \in [Proc -> [Page -> Pte]]
           /\ u[p][g] = e
           /\ \A q \in Proc, h \in Page : q # p \/ h # g => u[q][h] = t[q][h]
  OBVIOUS

\* The content of one page of one process changes.
LEMMA CellChange ==
    ASSUME NEW p0 \in Proc, NEW g0 \in Page, NEW x,
           \A p \in Proc, g \in Page :
              Cell(p, g)' = IF p = p0 /\ g = g0 THEN x ELSE Cell(p, g)
    PROVE  Content' = [Content EXCEPT ![p0][g0] = x]
  BY Zenon DEF Content

-----------------------------------------------------------------------------
(* One lemma per action that moves a frame or a page *)

LEMMA GetFrame == PagingInv /\ get_freefp => PagingInv'
<1> SUFFICES ASSUME PagingInv, get_freefp
             PROVE  PagingInv'
  OBVIOUS
<1> DEFINE f == Head(ram_free)
<1>1. /\ WantsFrame /\ ram_free # <<>> /\ ram_free \in Seq(RamFrame)
      /\ held' = <<f>> \o held /\ ram_free' = Tail(ram_free)
      /\ held \in Seq(RamFrame) /\ NoDuplicates(held) /\ NoDuplicates(ram_free)
  BY DEF get_freefp, freefp, after_get, PagingInv, PagingTypeOK, FramesExclusive
<1>2. UNCHANGED <<pgd, fifo_pgn, vm_end, swp_free, ram, swp, live, data,
                  at, who, page, need, val>>
  BY DEF get_freefp
<1>3. /\ f \in RamFrame /\ InQueue(ram_free, f)
      /\ ram_free' \in Seq(RamFrame) /\ NoDuplicates(ram_free')
      /\ \A x : InQueue(ram_free', x) => InQueue(ram_free, x) /\ x # f
  BY <1>1, TailFacts
<1>4. /\ held' \in Seq(RamFrame) /\ Len(held') = Len(held) + 1
      /\ \A x : InQueue(held', x) <=> x = f \/ InQueue(held, x)
      /\ ~ InQueue(held, f) => NoDuplicates(held')
  BY <1>1, <1>3, ConsFacts
<1> HIDE DEF f
<1>5. PagingTypeOK'
  BY <1>1, <1>2, <1>3, <1>4 DEF PagingInv, PagingTypeOK, WantsFrame
<1>6. FramesExclusive'
  BY <1>2, <1>3, <1>4 DEF PagingInv, FramesExclusive
<1>7. FifoInRam' /\ AreaMapped'
  BY <1>2 DEF PagingInv, FifoInRam, AreaMapped
<1>8. OpOK'
  BY <1>1, <1>2 DEF PagingInv, OpOK, WantsFrame
<1> QED
  BY <1>5, <1>6, <1>7, <1>8 DEF PagingInv

LEMMA SwapOut == PagingInv /\ swap_out_page => PagingInv' /\ Content' = Content
<1> SUFFICES ASSUME PagingInv, swap_out_page
             PROVE  PagingInv' /\ Content' = Content
  OBVIOUS
<1> DEFINE q == fifo_pgn[who]
           v == q[Len(q)]
           f == pgd[who][v].f
           s == Head(swp_free)
<1>1. /\ WantsFrame /\ who \in Proc /\ ~ (at = "reap")
      /\ q # <<>> /\ q \in Seq(Page) /\ NoDuplicates(q)
      /\ swp_free # <<>> /\ swp_free \in Seq(SwpFrame) /\ NoDuplicates(swp_free)
      /\ held \in Seq(RamFrame) /\ NoDuplicates(held)
  BY DEF swap_out_page, WantsFrame, PagingInv, PagingTypeOK, FramesExclusive, FifoInRam
<1>2. /\ swp' = [swp EXCEPT ![s] = ram[f]]
      /\ pgd' = [pgd EXCEPT ![who][v] = InSwp(s)]
      /\ held' = <<f>> \o held
      /\ fifo_pgn' = [fifo_pgn EXCEPT ![who] = SubSeq(q, 1, Len(q) - 1)]
      /\ swp_free' = Tail(swp_free)
      /\ UNCHANGED <<vm_end, ram_free, ram, live, data, at, who, page, need, val>>
  BY DEF swap_out_page, victim, younger, freefp, after_get, swap_cp_page
<1>3. /\ v \in Page /\ InQueue(q, v)
      /\ SubSeq(q, 1, Len(q) - 1) \in Seq(Page)
      /\ NoDuplicates(SubSeq(q, 1, Len(q) - 1))
      /\ \A x : InQueue(SubSeq(q, 1, Len(q) - 1), x) <=> InQueue(q, x) /\ x # v
  BY <1>1, FrontFacts
<1>4. /\ s \in SwpFrame /\ InQueue(swp_free, s)
      /\ swp_free' \in Seq(SwpFrame) /\ NoDuplicates(swp_free')
      /\ \A x : InQueue(swp_free', x) => InQueue(swp_free, x) /\ x # s
  BY <1>1, <1>2, TailFacts
<1>0. \A g \in Page : InQueue(q, g) <=> pgd[who][g].in = "ram"
  BY <1>1 DEF PagingInv, FifoInRam
<1>5. pgd[who][v] \in Pte /\ pgd[who][v].in = "ram"
  BY <1>0, <1>1, <1>3 DEF PagingInv, PagingTypeOK
<1>6. f \in RamFrame /\ pgd[who][v] = InRam(f) /\ ~ InQueue(ram_free, f) /\ ~ InQueue(held, f)
  BY <1>1, <1>3, <1>5, PteFacts DEF PagingInv, FramesExclusive
<1> HIDE DEF q, v, f, s
<1>7. /\ held' \in Seq(RamFrame) /\ Len(held') = Len(held) + 1
      /\ \A x : InQueue(held', x) <=> x = f \/ InQueue(held, x)
      /\ NoDuplicates(held')
  BY <1>1, <1>2, <1>6, ConsFacts
<1>8. /\ pgd' \in [Proc -> [Page -> Pte]] /\ pgd'[who][v] = InSwp(s)
      /\ InSwp(s).in = "swp" /\ InSwp(s).f = s /\ InSwp(s) # None
      /\ \A p \in Proc, g \in Page : p # who \/ g # v => pgd'[p][g] = pgd[p][g]
  <2>1. InSwp(s) \in Pte /\ InSwp(s).in = "swp" /\ InSwp(s).f = s /\ InSwp(s) # None
    BY <1>4, PteFacts
  <2> QED
    BY <1>1, <1>2, <1>3, <2>1, PteChange DEF PagingInv, PagingTypeOK
<1>9. /\ fifo_pgn' \in [Proc -> Seq(Page)]
      /\ fifo_pgn'[who] = SubSeq(q, 1, Len(q) - 1)
      /\ \A p \in Proc : p # who => fifo_pgn'[p] = fifo_pgn[p]
  BY <1>1, <1>2, <1>3 DEF PagingInv, PagingTypeOK
<1>10. PagingTypeOK'
  <2>1. ram[f] \in Val /\ swp' \in [SwpFrame -> Val]
    BY <1>2, <1>4, <1>6 DEF PagingInv, PagingTypeOK
  <2> QED
    BY <1>1, <1>2, <1>4, <1>7, <1>8, <1>9, <2>1
    DEF PagingInv, PagingTypeOK, WantsFrame
<1>11. FramesExclusive'
  <2>1. \A p \in Proc, g \in Page : p # who \/ g # v =>
           /\ pgd[p][g].in = "ram" => pgd[p][g].f # f
           /\ pgd[p][g] # InSwp(s)
    <3>1. SUFFICES ASSUME NEW p \in Proc, NEW g \in Page, p # who \/ g # v
                   PROVE  /\ pgd[p][g].in = "ram" => pgd[p][g].f # f
                          /\ pgd[p][g] # InSwp(s)
      OBVIOUS
    <3>2. pgd[p][g] \in Pte
      BY DEF PagingInv, PagingTypeOK
    <3>3. pgd[p][g] # InRam(f)
      BY <1>1, <1>3, <1>5, <1>6, <3>1, PteFacts DEF PagingInv, FramesExclusive
    <3>4. pgd[p][g] # InSwp(s)
      BY <1>4, <1>8 DEF PagingInv, FramesExclusive
    <3> QED
      BY <3>2, <3>3, <3>4, PteFacts
  <2>2. \A x \in RamFrame : ~ (InQueue(ram_free', x) /\ InQueue(held', x))
    BY <1>2, <1>6, <1>7 DEF PagingInv, FramesExclusive
  <2>3. ASSUME NEW p \in Proc, NEW g \in Page
        PROVE  /\ pgd'[p][g].in = "ram" => /\ ~ InQueue(ram_free', pgd'[p][g].f)
                                           /\ ~ InQueue(held', pgd'[p][g].f)
               /\ pgd'[p][g].in = "swp" => ~ InQueue(swp_free', pgd'[p][g].f)
    BY <1>2, <1>4, <1>7, <1>8, <2>1 DEF PagingInv, FramesExclusive
  <2>4. ASSUME NEW p \in Proc, NEW g \in Page, NEW p2 \in Proc, NEW g2 \in Page,
               pgd'[p][g] = pgd'[p2][g2]
        PROVE  pgd'[p][g] = None \/ (p = p2 /\ g = g2)
    BY <1>8, <2>1, <2>4 DEF PagingInv, FramesExclusive
  <2>5. NoDuplicates(ram_free') /\ NoDuplicates(held') /\ NoDuplicates(swp_free')
    BY <1>2, <1>4, <1>7 DEF PagingInv, FramesExclusive
  <2> QED
    BY <2>2, <2>3, <2>4, <2>5 DEF FramesExclusive
<1>12. FifoInRam'
  <2>1. ASSUME NEW p \in Proc, ~ (at = "reap" /\ who = p)
        PROVE  /\ NoDuplicates(fifo_pgn'[p])
               /\ \A g \in Page : InQueue(fifo_pgn'[p], g) <=> pgd'[p][g].in = "ram"
    <3>1. CASE p = who
      BY <1>0, <1>3, <1>8, <1>9, <3>1, ZenonT(30)
    <3>2. CASE p # who
      BY <1>8, <1>9, <2>1, <3>2, ZenonT(30) DEF PagingInv, FifoInRam
    <3> QED
      BY <3>1, <3>2
  <2> QED
    BY <1>2, <2>1 DEF FifoInRam
<1>13. AreaMapped'
  <2>1. \A p \in Proc, g \in Page : pgd'[p][g] # None <=> pgd[p][g] # None
    BY <1>5, <1>8, PteFacts
  <2> QED
    BY <1>2, <2>1 DEF PagingInv, AreaMapped, PagingTypeOK
<1>14. OpOK'
  <2>1. at = "fault" => pgd'[who][page].in = "swp"
    BY <1>1, <1>8 DEF PagingInv, OpOK
  <2> QED
    BY <1>1, <1>2, <2>1 DEF PagingInv, OpOK, WantsFrame
<1>15. \A p \in Proc, g \in Page : Cell(p, g)' = Cell(p, g)
  <2>1. ASSUME NEW p \in Proc, NEW g \in Page, p # who \/ g # v
        PROVE  Cell(p, g)' = Cell(p, g)
    <3>1. pgd'[p][g] = pgd[p][g] /\ pgd[p][g] \in Pte
      BY <1>8, <2>1 DEF PagingInv, PagingTypeOK
    <3>2. pgd[p][g].in = "swp" => pgd[p][g].f \in SwpFrame /\ pgd[p][g].f # s
      BY <1>4, <3>1, PteFacts DEF PagingInv, FramesExclusive
    <3>3. pgd[p][g].in = "swp" => swp'[pgd[p][g].f] = swp[pgd[p][g].f]
      BY <1>2, <3>2 DEF PagingInv, PagingTypeOK
    <3> QED
      BY <1>2, <3>1, <3>3, PteFacts DEF Cell
  <2>2. swp'[s] = ram[f]
    BY <1>2, <1>4 DEF PagingInv, PagingTypeOK
  <2>3. ASSUME NEW p \in Proc, NEW g \in Page, p = who, g = v
        PROVE  Cell(p, g)' = Cell(p, g)
    <3>1. Cell(p, g) = ram[f]
      BY <1>5, <2>3 DEF Cell, f
    <3>2. Cell(p, g)' = swp'[s]
      BY <1>8, <2>3 DEF Cell
    <3> QED
      BY <2>2, <3>1, <3>2
  <2> QED
    BY <2>1, <2>3
<1>16. Content' = Content
  BY <1>15 DEF Content
<1> QED
  BY <1>10, <1>11, <1>12, <1>13, <1>14, <1>16 DEF PagingInv

LEMMA UndoFrame == PagingInv /\ undo_frame => PagingInv'
<1> SUFFICES ASSUME PagingInv, undo_frame
             PROVE  PagingInv'
  OBVIOUS
<1> DEFINE f == Head(held)
<1>1. /\ at = "undo" /\ held # <<>> /\ ram_free \in Seq(RamFrame)
      /\ ram_free' = <<f>> \o ram_free /\ held' = Tail(held)
      /\ held \in Seq(RamFrame) /\ NoDuplicates(held) /\ NoDuplicates(ram_free)
  BY DEF undo_frame, put_freefp, PagingInv, PagingTypeOK, FramesExclusive
<1>2. UNCHANGED <<pgd, fifo_pgn, vm_end, swp_free, ram, swp, live, data,
                  at, who, page, need, val>>
  BY DEF undo_frame
<1>3. /\ f \in RamFrame /\ InQueue(held, f)
      /\ held' \in Seq(RamFrame) /\ NoDuplicates(held') /\ Len(held') = Len(held) - 1
      /\ \A x : InQueue(held', x) => InQueue(held, x) /\ x # f
  BY <1>1, TailFacts
<1>4. /\ ram_free' \in Seq(RamFrame)
      /\ \A x : InQueue(ram_free', x) <=> x = f \/ InQueue(ram_free, x)
      /\ ~ InQueue(ram_free, f) => NoDuplicates(ram_free')
  BY <1>1, <1>3, ConsFacts
<1> HIDE DEF f
<1>5. PagingTypeOK'
  BY <1>1, <1>2, <1>3, <1>4 DEF PagingInv, PagingTypeOK
<1>6. FramesExclusive'
  BY <1>2, <1>3, <1>4 DEF PagingInv, FramesExclusive
<1>7. FifoInRam' /\ AreaMapped'
  BY <1>2 DEF PagingInv, FifoInRam, AreaMapped
<1>8. OpOK'
  BY <1>1, <1>2 DEF PagingInv, OpOK
<1> QED
  BY <1>5, <1>6, <1>7, <1>8 DEF PagingInv

LEMMA MapPage ==
    PagingInv /\ map_page =>
        /\ PagingInv'
        /\ \E g \in Page, v \in Val :
              Content[who][g] = NULL /\ Content' = [Content EXCEPT ![who][g] = v]
<1> SUFFICES ASSUME PagingInv, map_page
             PROVE  /\ PagingInv'
                    /\ \E g \in Page, v \in Val :
                          Content[who][g] = NULL /\ Content' = [Content EXCEPT ![who][g] = v]
  OBVIOUS
<1> DEFINE f == Head(held)
           q == fifo_pgn[who]
<1>1. /\ at = "map" /\ who \in Proc /\ who \in live
      /\ held # <<>> /\ held \in Seq(RamFrame) /\ NoDuplicates(held)
      /\ q \in Seq(Page) /\ NoDuplicates(q)
      /\ \A g \in Page : InQueue(q, g) <=> pgd[who][g].in = "ram"
  BY DEF map_page, PagingInv, PagingTypeOK, FramesExclusive, FifoInRam, OpOK
<1>2. /\ pgd' = [pgd EXCEPT ![who][page] = InRam(f)]
      /\ fifo_pgn' = [fifo_pgn EXCEPT ![who] = <<page>> \o q]
      /\ held' = Tail(held)
      /\ page' = page + 1
      /\ UNCHANGED <<vm_end, ram_free, swp_free, ram, swp, live, data,
                     at, who, need, val>>
  BY DEF map_page, enlist_pgn_node
<1>3. /\ f \in RamFrame /\ InQueue(held, f)
      /\ held' \in Seq(RamFrame) /\ NoDuplicates(held') /\ Len(held') = Len(held) - 1
      /\ \A x : InQueue(held', x) => InQueue(held, x) /\ x # f
  BY <1>1, <1>2, TailFacts
<1>4. Len(held) \in Nat \ {0} /\ need \in Nat /\ page \in Nat /\ vm_end[who] \in Nat
  BY <1>1, PagingAssumption DEF PagingInv, PagingTypeOK
<1>5. page \in Page /\ page' \in 0 .. NPage
  BY <1>1, <1>2, <1>4, PagingAssumption DEF PagingInv, OpOK, Page
<1>6. pgd[who][page] = None
  BY <1>1, <1>4, <1>5 DEF PagingInv, AreaMapped
<1>7. ~ InQueue(q, page) /\ ~ InQueue(ram_free, f)
  BY <1>1, <1>3, <1>5, <1>6, PteFacts DEF PagingInv, FramesExclusive
<1> HIDE DEF f, q
<1>8. /\ <<page>> \o q \in Seq(Page) /\ NoDuplicates(<<page>> \o q)
      /\ \A x : InQueue(<<page>> \o q, x) <=> x = page \/ InQueue(q, x)
  BY <1>1, <1>5, <1>7, ConsFacts
<1>9. InRam(f) \in Pte /\ InRam(f).in = "ram" /\ InRam(f).f = f /\ InRam(f) # None
  BY <1>3, PteFacts
<1>10. /\ pgd' \in [Proc -> [Page -> Pte]] /\ pgd'[who][page] = InRam(f)
       /\ \A p \in Proc, g \in Page : p # who \/ g # page => pgd'[p][g] = pgd[p][g]
  BY <1>1, <1>2, <1>5, <1>9, PteChange DEF PagingInv, PagingTypeOK
<1>11. /\ fifo_pgn' \in [Proc -> Seq(Page)] /\ fifo_pgn'[who] = <<page>> \o q
       /\ \A p \in Proc : p # who => fifo_pgn'[p] = fifo_pgn[p]
  BY <1>1, <1>2, <1>8 DEF PagingInv, PagingTypeOK
<1>12. PagingTypeOK'
  BY <1>1, <1>2, <1>3, <1>4, <1>5, <1>10, <1>11 DEF PagingInv, PagingTypeOK
<1>13. FramesExclusive'
  <2>1. \A p \in Proc, g \in Page : pgd[p][g] # InRam(f)
    BY <1>3, <1>9 DEF PagingInv, FramesExclusive
  <2>2. \A p \in Proc, g \in Page : p # who \/ g # page =>
           /\ pgd'[p][g] = pgd[p][g] /\ pgd[p][g] # InRam(f)
    BY <1>10, <2>1
  <2>3. NoDuplicates(ram_free') /\ NoDuplicates(held') /\ NoDuplicates(swp_free')
    BY <1>2, <1>3 DEF PagingInv, FramesExclusive
  <2>4. \A x \in RamFrame : ~ (InQueue(ram_free', x) /\ InQueue(held', x))
    BY <1>2, <1>3 DEF PagingInv, FramesExclusive
  <2>5. ASSUME NEW p \in Proc, NEW g \in Page
        PROVE  /\ pgd'[p][g].in = "ram" => /\ ~ InQueue(ram_free', pgd'[p][g].f)
                                           /\ ~ InQueue(held', pgd'[p][g].f)
               /\ pgd'[p][g].in = "swp" => ~ InQueue(swp_free', pgd'[p][g].f)
    BY <1>2, <1>3, <1>7, <1>9, <1>10, <2>2 DEF PagingInv, FramesExclusive
  <2>6. ASSUME NEW p \in Proc, NEW g \in Page, NEW p2 \in Proc, NEW g2 \in Page,
               pgd'[p][g] = pgd'[p2][g2]
        PROVE  pgd'[p][g] = None \/ (p = p2 /\ g = g2)
    BY <1>10, <2>2, <2>6 DEF PagingInv, FramesExclusive
  <2> QED
    BY <2>3, <2>4, <2>5, <2>6 DEF FramesExclusive
<1>14. FifoInRam'
  <2>1. ASSUME NEW p \in Proc
        PROVE  /\ NoDuplicates(fifo_pgn'[p])
               /\ \A g \in Page : InQueue(fifo_pgn'[p], g) <=> pgd'[p][g].in = "ram"
    <3>1. CASE p = who
      BY <1>1, <1>8, <1>9, <1>10, <1>11, <3>1, ZenonT(30)
    <3>2. CASE p # who
      BY <1>1, <1>10, <1>11, <3>2, ZenonT(30) DEF PagingInv, FifoInRam
    <3> QED
      BY <3>1, <3>2
  <2> QED
    BY <2>1 DEF FifoInRam
<1>15. AreaMapped'
  <2>1. ASSUME NEW p \in live, p # who, NEW g \in Page
        PROVE  pgd'[p][g] # None <=> g < vm_end[p]
    BY <1>10, <2>1 DEF PagingInv, AreaMapped, PagingTypeOK
  <2>2. ASSUME NEW g \in Page
        PROVE  pgd'[who][g] # None <=> g < page + 1
    <3>1. g \in Nat /\ (g < page + 1 <=> g = page \/ g < page)
      BY <1>4, PagingAssumption DEF Page
    <3>2. pgd[who][g] # None <=> g < page
      BY <1>1 DEF PagingInv, AreaMapped
    <3> QED
      BY <1>1, <1>6, <1>9, <1>10, <3>1, <3>2
  <2> QED
    BY <1>1, <1>2, <2>1, <2>2 DEF AreaMapped
<1>16. OpOK'
  <2>1. page' + Len(held') = page + Len(held)
    BY <1>2, <1>3, <1>4
  <2>2. page' + Len(held') = vm_end[who] + need /\ page' + Len(held') <= NPage
    BY <1>1, <2>1 DEF PagingInv, OpOK
  <2> QED
    BY <1>1, <1>2, <2>2 DEF OpOK
<1>17. \E g \in Page, v \in Val :
          Content[who][g] = NULL /\ Content' = [Content EXCEPT ![who][g] = v]
  <2>1. PICK p0 \in Proc, g0 \in Page, x \in Val : p0 = who /\ g0 = page /\ x = ram[f]
    BY <1>1, <1>3, <1>5 DEF PagingInv, PagingTypeOK
  <2>2. \A p \in Proc, g \in Page :
           Cell(p, g)' = IF p = p0 /\ g = g0 THEN x ELSE Cell(p, g)
    <3>1. ASSUME NEW p \in Proc, NEW g \in Page, p # who \/ g # page
          PROVE  Cell(p, g)' = Cell(p, g)
      BY <1>2, <1>10, <3>1, Zenon DEF Cell
    <3>2. ASSUME NEW p \in Proc, NEW g \in Page, p = who, g = page
          PROVE  Cell(p, g)' = ram[f]
      BY <1>2, <1>9, <1>10, <3>2 DEF Cell
    <3> QED
      BY <2>1, <3>1, <3>2
  <2>3. Content' = [Content EXCEPT ![p0][g0] = x]
    BY <2>2, CellChange
  <2>4. Content[who][g0] = NULL
    BY <1>1, <1>6, <2>1, PteFacts DEF Content, Cell
  <2> QED
    BY <2>1, <2>3, <2>4, Zenon
<1> QED
  BY <1>12, <1>13, <1>14, <1>15, <1>16, <1>17, Zenon DEF PagingInv

LEMMA LoadPage ==
    PagingInv /\ load_page =>
        /\ PagingInv'
        /\ Content' = Content
<1> SUFFICES ASSUME PagingInv, load_page
             PROVE  /\ PagingInv'
                    /\ Content' = Content
  OBVIOUS
<1> DEFINE f == Head(held)
           s == pgd[who][page].f
           q == fifo_pgn[who]
<1>1. /\ at = "fault" /\ who \in Proc /\ who \in live /\ page \in Page
      /\ Len(held) = 1 /\ held \in Seq(RamFrame) /\ NoDuplicates(held)
      /\ q \in Seq(Page) /\ NoDuplicates(q)
      /\ \A g \in Page : InQueue(q, g) <=> pgd[who][g].in = "ram"
      /\ pgd[who][page] \in Pte /\ pgd[who][page].in = "swp"
      /\ swp_free \in Seq(SwpFrame) /\ NoDuplicates(swp_free)
  BY DEF load_page, PagingInv, PagingTypeOK, FramesExclusive, FifoInRam, OpOK
<1>2. /\ ram' = [ram EXCEPT ![f] = swp[s]]
      /\ swp_free' = <<s>> \o swp_free
      /\ pgd' = [pgd EXCEPT ![who][page] = InRam(f)]
      /\ fifo_pgn' = [fifo_pgn EXCEPT ![who] = <<page>> \o q]
      /\ held' = <<>>
      /\ at' = "io"
      /\ UNCHANGED <<vm_end, ram_free, swp, live, data, who, page, need, val>>
  BY DEF load_page, enlist_pgn_node, put_freefp, swap_cp_page
<1>3. f \in RamFrame /\ InQueue(held, f)
  <2>1. Len(held) = 1 /\ held \in Seq(RamFrame) /\ NoDuplicates(held)
    BY <1>1
  <2>2. held # <<>>
    <3>1. Len(<<>>) # 1
      OBVIOUS
    <3> QED
      BY <2>1, <3>1, Zenon
  <2> QED
    BY <2>1, <2>2, TailFacts
<1>4. s \in SwpFrame /\ pgd[who][page] = InSwp(s)
  BY <1>1, PteFacts
<1>5. ~ InQueue(q, page) /\ ~ InQueue(ram_free, f) /\ ~ InQueue(swp_free, s)
  BY <1>1, <1>3 DEF PagingInv, FramesExclusive
<1> HIDE DEF f, s, q
<1>6. /\ <<page>> \o q \in Seq(Page) /\ NoDuplicates(<<page>> \o q)
      /\ \A x : InQueue(<<page>> \o q, x) <=> x = page \/ InQueue(q, x)
  BY <1>1, <1>5, ConsFacts
<1>7. /\ swp_free' \in Seq(SwpFrame) /\ NoDuplicates(swp_free')
      /\ \A x : InQueue(swp_free', x) <=> x = s \/ InQueue(swp_free, x)
  BY <1>1, <1>2, <1>4, <1>5, ConsFacts
<1>8. InRam(f) \in Pte /\ InRam(f).in = "ram" /\ InRam(f).f = f /\ InRam(f) # None
  BY <1>3, PteFacts
<1>9. /\ pgd' \in [Proc -> [Page -> Pte]] /\ pgd'[who][page] = InRam(f)
      /\ \A p \in Proc, g \in Page : p # who \/ g # page => pgd'[p][g] = pgd[p][g]
  BY <1>1, <1>2, <1>8, PteChange DEF PagingInv, PagingTypeOK
<1>10. /\ fifo_pgn' \in [Proc -> Seq(Page)] /\ fifo_pgn'[who] = <<page>> \o q
       /\ \A p \in Proc : p # who => fifo_pgn'[p] = fifo_pgn[p]
  BY <1>1, <1>2, <1>6 DEF PagingInv, PagingTypeOK
<1>11. /\ held' \in Seq(RamFrame) /\ Len(held') = 0 /\ NoDuplicates(held')
       /\ \A x : ~ InQueue(held', x)
  BY <1>2, NothingInEmpty DEF NoDuplicates
<1>12. PagingTypeOK'
  <2>1. ram' \in [RamFrame -> Val]
    BY <1>2, <1>3, <1>4 DEF PagingInv, PagingTypeOK
  <2>2. at' \in Point /\ ~ (at' = "idle") /\ who' \in Proc
    BY <1>1, <1>2 DEF Point
  <2> QED
    BY <1>1, <1>2, <1>7, <1>9, <1>10, <1>11, <2>1, <2>2 DEF PagingInv, PagingTypeOK
<1>13. FramesExclusive'
  <2>1. \A p \in Proc, g \in Page : p # who \/ g # page =>
           /\ pgd'[p][g] = pgd[p][g] /\ pgd[p][g] # InRam(f)
           /\ pgd[p][g].in = "swp" => pgd[p][g].f # s
    <3>1. SUFFICES ASSUME NEW p \in Proc, NEW g \in Page, p # who \/ g # page
                   PROVE  /\ pgd[p][g] # InRam(f)
                          /\ pgd[p][g].in = "swp" => pgd[p][g].f # s
      BY <1>9
    <3>2. pgd[p][g] \in Pte
      BY DEF PagingInv, PagingTypeOK
    <3>3. pgd[p][g] # InRam(f)
      BY <1>3, <1>8 DEF PagingInv, FramesExclusive
    <3>4. pgd[p][g] # InSwp(s)
      BY <1>1, <1>4, <3>1, PteFacts DEF PagingInv, FramesExclusive
    <3> QED
      BY <3>2, <3>3, <3>4, PteFacts
  <2>2. NoDuplicates(ram_free') /\ NoDuplicates(held') /\ NoDuplicates(swp_free')
    BY <1>2, <1>7, <1>11 DEF PagingInv, FramesExclusive
  <2>3. ASSUME NEW p \in Proc, NEW g \in Page
        PROVE  /\ pgd'[p][g].in = "ram" => /\ ~ InQueue(ram_free', pgd'[p][g].f)
                                           /\ ~ InQueue(held', pgd'[p][g].f)
               /\ pgd'[p][g].in = "swp" => ~ InQueue(swp_free', pgd'[p][g].f)
    BY <1>2, <1>5, <1>7, <1>8, <1>9, <1>11, <2>1 DEF PagingInv, FramesExclusive
  <2>4. ASSUME NEW p \in Proc, NEW g \in Page, NEW p2 \in Proc, NEW g2 \in Page,
               pgd'[p][g] = pgd'[p2][g2]
        PROVE  pgd'[p][g] = None \/ (p = p2 /\ g = g2)
    BY <1>9, <2>1, <2>4 DEF PagingInv, FramesExclusive
  <2> QED
    BY <1>11, <2>2, <2>3, <2>4 DEF FramesExclusive
<1>14. FifoInRam'
  <2>1. ASSUME NEW p \in Proc
        PROVE  /\ NoDuplicates(fifo_pgn'[p])
               /\ \A g \in Page : InQueue(fifo_pgn'[p], g) <=> pgd'[p][g].in = "ram"
    <3>1. CASE p = who
      BY <1>1, <1>6, <1>8, <1>9, <1>10, <3>1, ZenonT(30)
    <3>2. CASE p # who
      <4>1. /\ NoDuplicates(fifo_pgn[p])
            /\ \A g \in Page : InQueue(fifo_pgn[p], g) <=> pgd[p][g].in = "ram"
        BY <3>2 DEF PagingInv, FifoInRam
      <4> QED
        BY <1>9, <1>10, <3>2, <4>1, Zenon
    <3> QED
      BY <3>1, <3>2
  <2> QED
    BY <2>1 DEF FifoInRam
<1>15. AreaMapped'
  <2>1. \A p \in Proc, g \in Page : pgd'[p][g] # None <=> pgd[p][g] # None
    BY <1>1, <1>8, <1>9, PteFacts
  <2> QED
    BY <1>1, <1>2, <2>1 DEF PagingInv, AreaMapped, PagingTypeOK
<1>16. OpOK'
  BY <1>1, <1>2, <1>8, <1>9 DEF PagingInv, OpOK
<1>17. Content' = Content
  <2>1. ASSUME NEW p \in Proc, NEW g \in Page, p # who \/ g # page
        PROVE  Cell(p, g)' = Cell(p, g)
    <3>1. pgd'[p][g] = pgd[p][g] /\ pgd[p][g] \in Pte
      BY <1>9, <2>1 DEF PagingInv, PagingTypeOK
    <3>2. pgd[p][g].in = "ram" => pgd[p][g].f \in RamFrame /\ pgd[p][g].f # f
      BY <1>3, <3>1, PteFacts DEF PagingInv, FramesExclusive
    <3>3. pgd[p][g].in = "ram" => ram'[pgd[p][g].f] = ram[pgd[p][g].f]
      BY <1>2, <3>2 DEF PagingInv, PagingTypeOK
    <3> QED
      BY <1>2, <3>1, <3>3, PteFacts DEF Cell
  <2>2. ram'[f] = swp[s]
    BY <1>2, <1>3 DEF PagingInv, PagingTypeOK
  <2>3. ASSUME NEW p \in Proc, NEW g \in Page, p = who, g = page
        PROVE  Cell(p, g)' = Cell(p, g)
    <3>1. Cell(p, g) = swp[s]
      BY <1>1, <2>3 DEF Cell, s
    <3>2. Cell(p, g)' = ram'[f]
      BY <1>8, <1>9, <2>3 DEF Cell
    <3> QED
      BY <2>2, <3>1, <3>2
  <2> QED
    BY <2>1, <2>3 DEF Content
<1> QED
  BY <1>12, <1>13, <1>14, <1>15, <1>16, <1>17 DEF PagingInv

LEMMA FreePage ==
    PagingInv /\ free_page =>
        /\ PagingInv'
        /\ \E g \in Page : Content' = [Content EXCEPT ![who][g] = NULL]
<1> SUFFICES ASSUME PagingInv, free_page
             PROVE  /\ PagingInv'
                    /\ \E g \in Page : Content' = [Content EXCEPT ![who][g] = NULL]
  OBVIOUS
<1> DEFINE e == pgd[who][page]
<1>1. /\ at = "reap" /\ who \in Proc /\ who \notin live /\ held = <<>>
      /\ page \in Nat /\ page < NPage /\ NPage \in Nat
      /\ ram_free \in Seq(RamFrame) /\ NoDuplicates(ram_free)
      /\ swp_free \in Seq(SwpFrame) /\ NoDuplicates(swp_free)
  BY PagingAssumption
  DEF free_page, PagingInv, PagingTypeOK, FramesExclusive, OpOK
<1>2. /\ ram_free' = IF e.in = "ram" THEN <<e.f>> \o ram_free ELSE ram_free
      /\ swp_free' = IF e.in = "swp" THEN <<e.f>> \o swp_free ELSE swp_free
      /\ pgd' = [pgd EXCEPT ![who][page] = None]
      /\ page' = page + 1
      /\ UNCHANGED <<fifo_pgn, vm_end, ram, swp, live, data, at, who, need, held, val>>
  BY DEF free_page, put_freefp
<1>3. page \in Page /\ page' \in 0 .. NPage
  BY <1>1, <1>2 DEF Page
<1>4. e \in Pte
  BY <1>1, <1>3 DEF PagingInv, PagingTypeOK
<1>5. /\ e.in = "ram" => e.f \in RamFrame /\ ~ InQueue(ram_free, e.f)
      /\ e.in = "swp" => e.f \in SwpFrame /\ ~ InQueue(swp_free, e.f)
  BY <1>1, <1>3, <1>4, PteFacts DEF PagingInv, FramesExclusive
<1>6. /\ pgd' \in [Proc -> [Page -> Pte]] /\ pgd'[who][page] = None
      /\ \A p \in Proc, g \in Page : p # who \/ g # page => pgd'[p][g] = pgd[p][g]
  BY <1>1, <1>2, <1>3, PteFacts, PteChange DEF PagingInv, PagingTypeOK
<1>7. \A p \in Proc, g \in Page : p # who \/ g # page =>
         pgd[p][g] \in Pte /\ (pgd[p][g] = e => e = None)
  BY <1>1, <1>3 DEF PagingInv, PagingTypeOK, FramesExclusive
<1> HIDE DEF e
<1>8. /\ ram_free' \in Seq(RamFrame) /\ NoDuplicates(ram_free')
      /\ \A x : InQueue(ram_free', x) <=> InQueue(ram_free, x) \/ (e.in = "ram" /\ x = e.f)
  <2>1. CASE e.in = "ram"
    BY <1>1, <1>2, <1>5, <2>1, ConsFacts
  <2>2. CASE e.in # "ram"
    BY <1>1, <1>2, <2>2
  <2> QED
    BY <2>1, <2>2
<1>9. /\ swp_free' \in Seq(SwpFrame) /\ NoDuplicates(swp_free')
      /\ \A x : InQueue(swp_free', x) <=> InQueue(swp_free, x) \/ (e.in = "swp" /\ x = e.f)
  <2>1. CASE e.in = "swp"
    BY <1>1, <1>2, <1>5, <2>1, ConsFacts
  <2>2. CASE e.in # "swp"
    BY <1>1, <1>2, <2>2
  <2> QED
    BY <2>1, <2>2
<1>10. PagingTypeOK'
  BY <1>1, <1>2, <1>3, <1>6, <1>8, <1>9 DEF PagingInv, PagingTypeOK
<1>11. FramesExclusive'
  <2>1. NoDuplicates(ram_free') /\ NoDuplicates(held') /\ NoDuplicates(swp_free')
    BY <1>2, <1>8, <1>9 DEF PagingInv, FramesExclusive
  <2>2. \A x : ~ InQueue(held', x)
    BY <1>1, <1>2, NothingInEmpty
  <2>3. ASSUME NEW p \in Proc, NEW g \in Page
        PROVE  /\ pgd'[p][g].in = "ram" => /\ ~ InQueue(ram_free', pgd'[p][g].f)
                                           /\ ~ InQueue(held', pgd'[p][g].f)
               /\ pgd'[p][g].in = "swp" => ~ InQueue(swp_free', pgd'[p][g].f)
    <3>1. CASE p = who /\ g = page
      BY <1>6, <3>1, PteFacts
    <3>2. CASE p # who \/ g # page
      <4>1. /\ pgd'[p][g] = pgd[p][g] /\ pgd[p][g] \in Pte
            /\ pgd[p][g] = e => e = None
        BY <1>6, <1>7, <3>2
      <4>2. /\ pgd[p][g].in = "ram" => ~ (e.in = "ram" /\ pgd[p][g].f = e.f)
            /\ pgd[p][g].in = "swp" => ~ (e.in = "swp" /\ pgd[p][g].f = e.f)
        BY <1>4, <4>1, PteFacts
      <4>3. /\ pgd[p][g].in = "ram" => ~ InQueue(ram_free, pgd[p][g].f)
            /\ pgd[p][g].in = "swp" => ~ InQueue(swp_free, pgd[p][g].f)
        BY DEF PagingInv, FramesExclusive
      <4> QED
        BY <1>8, <1>9, <2>2, <4>1, <4>2, <4>3
    <3> QED
      BY <3>1, <3>2
  <2>4. ASSUME NEW p \in Proc, NEW g \in Page, NEW p2 \in Proc, NEW g2 \in Page,
               pgd'[p][g] = pgd'[p2][g2]
        PROVE  pgd'[p][g] = None \/ (p = p2 /\ g = g2)
    BY <1>6, <2>4 DEF PagingInv, FramesExclusive
  <2> QED
    BY <2>1, <2>2, <2>3, <2>4 DEF FramesExclusive
<1>12. FifoInRam'
  BY <1>1, <1>2, <1>6 DEF PagingInv, FifoInRam
<1>13. AreaMapped'
  BY <1>1, <1>2, <1>6 DEF PagingInv, AreaMapped, PagingTypeOK
<1>14. OpOK'
  <2>1. \A g \in Page : g < page + 1 => g < page \/ g = page
    BY <1>1 DEF Page
  <2>2. \A g \in Page : g < page' => pgd'[who][g] = None
    BY <1>1, <1>2, <1>6, <2>1 DEF PagingInv, OpOK
  <2> QED
    BY <1>1, <1>2, <2>2 DEF OpOK
<1>17. \E g \in Page : Content' = [Content EXCEPT ![who][g] = NULL]
  <2>1. PICK p0 \in Proc, g0 \in Page : p0 = who /\ g0 = page
    BY <1>1, <1>3
  <2>2. \A p \in Proc, g \in Page :
           Cell(p, g)' = IF p = p0 /\ g = g0 THEN NULL ELSE Cell(p, g)
    BY <1>2, <1>6, <2>1, PteFacts DEF Cell
  <2>3. Content' = [Content EXCEPT ![p0][g0] = NULL]
    BY <2>2, CellChange
  <2> QED
    BY <2>1, <2>3, Zenon
<1> QED
  BY <1>10, <1>11, <1>12, <1>13, <1>14, <1>17, Zenon DEF PagingInv

-----------------------------------------------------------------------------
(* The actions that move neither a frame nor a page *)

\* An operation that has no frame in hand, takes or gives up the lock or goes on.
LEMMA NoMove ==
    ASSUME PagingInv, UNCHANGED <<pgd, ram_free, swp_free>>,
           held' = held \/ held' = <<>>
    PROVE  FramesExclusive'
<1>1. NoDuplicates(held') /\ \A x : InQueue(held', x) => InQueue(held, x)
  BY NothingInEmpty DEF PagingInv, FramesExclusive, NoDuplicates
<1> QED
  BY <1>1 DEF PagingInv, FramesExclusive

\* The victim that cannot be moved is still a page in RAM.
LEMMA Reenlisted ==
    ASSUME NEW q \in Seq(Page), NoDuplicates(q)
    PROVE  /\ reenlist(q) \in Seq(Page) /\ NoDuplicates(reenlist(q))
           /\ \A x : InQueue(reenlist(q), x) <=> InQueue(q, x)
<1>1. CASE q = <<>>
  BY <1>1 DEF reenlist
<1>2. CASE q # <<>>
  <2> DEFINE v == q[Len(q)]
             r == SubSeq(q, 1, Len(q) - 1)
  <2>1. /\ v \in Page /\ InQueue(q, v) /\ r \in Seq(Page) /\ NoDuplicates(r)
        /\ \A x : InQueue(r, x) <=> InQueue(q, x) /\ x # v
    BY <1>2, FrontFacts
  <2>2. reenlist(q) = <<v>> \o r
    BY <1>2 DEF reenlist, enlist_pgn_node, victim, younger
  <2> HIDE DEF v, r
  <2> QED
    BY <2>1, <2>2, ConsFacts
<1> QED
  BY <1>1, <1>2

LEMMA NoFrame == PagingInv /\ no_frame => PagingInv'
<1> SUFFICES ASSUME PagingInv, no_frame
             PROVE  PagingInv'
  OBVIOUS
<1>1. /\ WantsFrame /\ who \in Proc /\ at \in {"grow", "fault"}
      /\ fifo_pgn' = [fifo_pgn EXCEPT ![who] = reenlist(fifo_pgn[who])]
      /\ UNCHANGED <<pgd, vm_end, ram_free, swp_free, ram, swp, live, data>>
  BY DEF no_frame, WantsFrame, PagingInv, PagingTypeOK
<1>2. /\ fifo_pgn[who] \in Seq(Page) /\ NoDuplicates(fifo_pgn[who])
      /\ \A g \in Page : InQueue(fifo_pgn[who], g) <=> pgd[who][g].in = "ram"
  BY <1>1 DEF PagingInv, PagingTypeOK, FifoInRam
<1>3. /\ reenlist(fifo_pgn[who]) \in Seq(Page)
      /\ NoDuplicates(reenlist(fifo_pgn[who]))
      /\ \A x : InQueue(reenlist(fifo_pgn[who]), x) <=> InQueue(fifo_pgn[who], x)
  BY <1>2, Reenlisted
<1>4. /\ fifo_pgn' \in [Proc -> Seq(Page)]
      /\ fifo_pgn'[who] = reenlist(fifo_pgn[who])
      /\ \A p \in Proc : p # who => fifo_pgn'[p] = fifo_pgn[p]
  BY <1>1, <1>3 DEF PagingInv, PagingTypeOK
<1>5. FifoInRam'
  <2>1. ASSUME NEW p \in Proc
        PROVE  /\ NoDuplicates(fifo_pgn'[p])
               /\ \A g \in Page : InQueue(fifo_pgn'[p], g) <=> pgd[p][g].in = "ram"
    <3>1. CASE p = who
      BY <1>2, <1>3, <1>4, <3>1
    <3>2. CASE p # who
      BY <1>4, <3>2 DEF PagingInv, FifoInRam
    <3> QED
      BY <3>1, <3>2
  <2> QED
    BY <1>1, <2>1 DEF FifoInRam
<1>6. CASE at = "grow" /\ at' = "undo" /\ UNCHANGED <<who, page, need, held, val>>
  <2>1. PagingTypeOK'
    BY <1>1, <1>4, <1>6 DEF PagingInv, PagingTypeOK, Point
  <2>2. FramesExclusive'
    BY <1>1, <1>6, NoMove
  <2>3. AreaMapped'
    BY <1>1, <1>6 DEF PagingInv, AreaMapped
  <2>4. OpOK'
    BY <1>1, <1>6 DEF PagingInv, OpOK
  <2> QED
    BY <1>5, <2>1, <2>2, <2>3, <2>4 DEF PagingInv
<1>7. CASE at = "fault" /\ Unlock
  <2>1. PagingTypeOK'
    BY <1>1, <1>4, <1>7, PagingAssumption DEF PagingInv, PagingTypeOK, Point, Unlock
  <2>2. FramesExclusive'
    BY <1>1, <1>7, NoMove DEF Unlock
  <2>3. AreaMapped'
    BY <1>1, <1>7 DEF PagingInv, AreaMapped, Unlock
  <2>4. OpOK'
    BY <1>1, <1>7 DEF PagingInv, OpOK, Unlock
  <2> QED
    BY <1>5, <2>1, <2>2, <2>3, <2>4 DEF PagingInv
<1> QED
  BY <1>1, <1>6, <1>7 DEF no_frame

\* The end of a call, from a point where no page and no frame is in transit.
LEMMA Returns ==
    ASSUME PagingInv, Unlock, at \in {"undo", "io"},
           UNCHANGED <<pgd, fifo_pgn, vm_end, ram_free, swp_free, swp, live>>,
           ram' \in [RamFrame -> Val], data' \in Val \cup {NULL}
    PROVE  PagingInv'
<1>1. PagingTypeOK'
  BY PagingAssumption DEF PagingInv, PagingTypeOK, Point, Unlock
<1>2. FramesExclusive'
  BY NoMove DEF Unlock
<1>3. FifoInRam'
  BY DEF PagingInv, FifoInRam, Unlock
<1>4. AreaMapped'
  BY DEF PagingInv, AreaMapped, Unlock
<1>5. OpOK'
  BY DEF PagingInv, OpOK, Unlock
<1> QED
  BY <1>1, <1>2, <1>3, <1>4, <1>5 DEF PagingInv

LEMMA InputOutput == PagingInv /\ io => PagingInv'
<1> SUFFICES ASSUME PagingInv, io
             PROVE  PagingInv'
  OBVIOUS
<1>1. /\ at = "io" /\ Unlock
      /\ UNCHANGED <<pgd, fifo_pgn, vm_end, ram_free, swp_free, swp, live>>
      /\ IF val = NULL
         THEN data' = ram[pgd[who][page].f] /\ UNCHANGED ram
         ELSE ram' = [ram EXCEPT ![pgd[who][page].f] = val] /\ UNCHANGED data
  BY DEF io
<1>2. pgd[who][page] \in Pte /\ pgd[who][page].in = "ram"
  BY <1>1 DEF PagingInv, PagingTypeOK, OpOK
<1>3. pgd[who][page].f \in RamFrame
  BY <1>2, PteFacts
<1>4. ram' \in [RamFrame -> Val] /\ data' \in Val \cup {NULL}
  BY <1>1, <1>3, Zenon DEF PagingInv, PagingTypeOK
<1> QED
  BY <1>1, <1>4, Returns

LEMMA UndoDone == PagingInv /\ undo_done => PagingInv'
  BY Returns DEF undo_done, memory, PagingInv, PagingTypeOK

LEMMA MapDone == PagingInv /\ map_done => PagingInv'
<1> SUFFICES ASSUME PagingInv, map_done
             PROVE  PagingInv'
  OBVIOUS
<1>1. /\ at = "map" /\ held = <<>> /\ who \in Proc /\ page \in 0 .. NPage
      /\ vm_end' = [vm_end EXCEPT ![who] = page] /\ Unlock
      /\ UNCHANGED <<pgd, fifo_pgn, ram_free, swp_free, ram, swp, live, data>>
  BY DEF map_done, PagingInv, PagingTypeOK
<1>2. PagingTypeOK'
  BY <1>1, PagingAssumption DEF PagingInv, PagingTypeOK, Point, Unlock
<1>3. FramesExclusive'
  BY <1>1, NoMove DEF Unlock
<1>4. AreaMapped'
  BY <1>1 DEF PagingInv, PagingTypeOK, AreaMapped, Unlock
<1>5. FifoInRam'
  BY <1>1 DEF PagingInv, FifoInRam, Unlock
<1>6. OpOK'
  BY <1>1 DEF PagingInv, OpOK, Unlock
<1> QED
  BY <1>2, <1>3, <1>4, <1>5, <1>6 DEF PagingInv

LEMMA BeginMap == PagingInv /\ begin_map => PagingInv'
<1> SUFFICES ASSUME PagingInv, begin_map
             PROVE  PagingInv'
  OBVIOUS
<1>1. /\ at = "grow" /\ Len(held) = need /\ at' = "map"
      /\ UNCHANGED <<pgd, fifo_pgn, vm_end, ram_free, swp_free, ram, swp, live, data>>
      /\ UNCHANGED <<who, page, need, held, val>>
  BY DEF begin_map, memory
<1>2. PagingTypeOK'
  BY <1>1 DEF PagingInv, PagingTypeOK, Point
<1>3. FramesExclusive'
  BY <1>1, NoMove
<1>4. FifoInRam'
  BY <1>1 DEF PagingInv, FifoInRam
<1>5. AreaMapped' /\ OpOK'
  BY <1>1 DEF PagingInv, AreaMapped, OpOK
<1> QED
  BY <1>2, <1>3, <1>4, <1>5 DEF PagingInv

LEMMA FreeDone == PagingInv /\ free_done => PagingInv'
<1> SUFFICES ASSUME PagingInv, free_done
             PROVE  PagingInv'
  OBVIOUS
<1>1. /\ at = "reap" /\ page = NPage /\ who \in Proc /\ Unlock
      /\ fifo_pgn' = [fifo_pgn EXCEPT ![who] = <<>>]
      /\ UNCHANGED <<pgd, vm_end, ram_free, swp_free, ram, swp, live, data>>
  BY DEF free_done, PagingInv, PagingTypeOK
<1>2. \A g \in Page : pgd[who][g] = None
  BY <1>1, PagingAssumption DEF PagingInv, OpOK, Page
<1>3. PagingTypeOK'
  BY <1>1, PagingAssumption DEF PagingInv, PagingTypeOK, Point, Unlock
<1>4. FramesExclusive'
  BY <1>1, NoMove DEF Unlock
<1>5. ASSUME NEW p \in Proc
      PROVE  /\ NoDuplicates(fifo_pgn'[p])
             /\ \A g \in Page : InQueue(fifo_pgn'[p], g) <=> pgd[p][g].in = "ram"
  <2>1. CASE p = who
    <3>1. fifo_pgn'[p] = <<>>
      BY <1>1, <2>1 DEF PagingInv, PagingTypeOK
    <3> QED
      BY <1>2, <2>1, <3>1, PteFacts, NothingInEmpty DEF NoDuplicates
  <2>2. CASE p # who
    BY <1>1, <2>2 DEF PagingInv, PagingTypeOK, FifoInRam
  <2> QED
    BY <2>1, <2>2
<1>6. FifoInRam'
  BY <1>1, <1>5 DEF FifoInRam
<1>7. AreaMapped' /\ OpOK'
  BY <1>1 DEF PagingInv, AreaMapped, OpOK, Unlock
<1> QED
  BY <1>3, <1>4, <1>6, <1>7 DEF PagingInv

LEMMA Takes ==
    ASSUME PagingInv, NEW p \in Proc, NEW l, NEW g, NEW n, NEW v, Lock(l, p, g, n, v),
           l \in Point \ {"idle", "map"}, g \in 0 .. NPage, n \in 0 .. NPage,
           v \in Val \cup {NULL}, UNCHANGED memory
    PROVE  PagingTypeOK' /\ FramesExclusive' /\ FifoInRam' /\ AreaMapped'
<1>1. /\ at = "idle" /\ at' = l /\ who' = p /\ page' = g /\ need' = n /\ held' = <<>>
      /\ val' = v /\ p \in live
      /\ UNCHANGED <<pgd, fifo_pgn, vm_end, ram_free, swp_free, ram, swp, live, data>>
  BY DEF Lock, memory
<1>2. PagingTypeOK'
  BY <1>1 DEF PagingInv, PagingTypeOK
<1>3. FramesExclusive'
  BY <1>1, NoMove
<1>4. FifoInRam'
  BY <1>1, Zenon DEF PagingInv, FifoInRam
<1>5. AreaMapped'
  BY <1>1, Zenon DEF PagingInv, AreaMapped
<1> QED
  BY <1>2, <1>3, <1>4, <1>5

LEMMA BeginGrow ==
    ASSUME PagingInv, NEW p \in Proc, NEW n \in 1 .. NPage, inc_vma_limit(p, n)
    PROVE  PagingInv'
<1>1. /\ Lock("grow", p, vm_end[p], n, NULL) /\ UNCHANGED memory
      /\ vm_end[p] \in 0 .. NPage /\ vm_end[p] + n <= NPage /\ n \in 0 .. NPage
  BY PagingAssumption DEF inc_vma_limit, PagingInv, PagingTypeOK
<1>2. PagingTypeOK' /\ FramesExclusive' /\ FifoInRam' /\ AreaMapped'
  BY <1>1, Takes DEF Point
<1>3. OpOK'
  BY <1>1 DEF OpOK, Lock, memory
<1> QED
  BY <1>2, <1>3 DEF PagingInv

LEMMA BeginAccess ==
    ASSUME PagingInv, NEW p \in Proc, NEW g \in Page, NEW v \in Val \cup {NULL},
           access(p, g, v)
    PROVE  PagingInv'
<1> DEFINE l == IF pgd[p][g].in = "swp" THEN "fault" ELSE "io"
<1>1. /\ Lock(l, p, g, 1, v) /\ UNCHANGED memory /\ pgd[p][g] # None
      /\ pgd[p][g] \in Pte /\ g \in 0 .. NPage /\ 1 \in 0 .. NPage
  BY PagingAssumption DEF access, PagingInv, PagingTypeOK, Page
<1>2. PagingTypeOK' /\ FramesExclusive' /\ FifoInRam' /\ AreaMapped'
  BY <1>1, Takes DEF Point
<1>3. \/ l = "fault" /\ pgd[p][g].in = "swp"
      \/ l = "io" /\ pgd[p][g].in = "ram"
  <2>1. pgd[p][g].in \in {"ram", "swp"}
    BY <1>1, PteFacts
  <2> QED
    BY <2>1
<1> HIDE DEF l
<1>4. OpOK'
  BY <1>1, <1>3 DEF OpOK, Lock, memory
<1> QED
  BY <1>2, <1>4 DEF PagingInv

LEMMA BeginFree ==
    ASSUME PagingInv, NEW p \in Proc, free_pcb(p)
    PROVE  PagingInv'
<1>1. /\ at = "idle" /\ at' = "reap" /\ who' = p /\ page' = 0 /\ need' = 0
      /\ held' = <<>> /\ val' = NULL /\ live' = live \ {p}
      /\ UNCHANGED <<pgd, fifo_pgn, vm_end, ram_free, swp_free, ram, swp, data>>
  BY DEF free_pcb, Lock
<1>2. PagingTypeOK'
  BY <1>1, PagingAssumption DEF PagingInv, PagingTypeOK, Point
<1>3. FramesExclusive'
  BY <1>1, NoMove
<1>4. FifoInRam' /\ AreaMapped'
  BY <1>1, Zenon DEF PagingInv, FifoInRam, AreaMapped
<1>5. OpOK'
  <2>1. \A g \in Page : ~ (g < page')
    BY <1>1 DEF Page
  <2>2. who' \notin live'
    BY <1>1
  <2> QED
    BY <1>1, <2>1, <2>2 DEF OpOK
<1> QED
  BY <1>2, <1>3, <1>4, <1>5 DEF PagingInv

-----------------------------------------------------------------------------

LEMMA PagingInvInit == PagingInit => PagingInv
<1> SUFFICES ASSUME PagingInit
             PROVE  PagingInv
  OBVIOUS
<1>1. \A p \in Proc, g \in Page : pgd[p][g] = None
  BY DEF PagingInit
<1>2. /\ ram_free \in Seq(RamFrame) /\ NoDuplicates(ram_free)
      /\ swp_free \in Seq(SwpFrame) /\ NoDuplicates(swp_free)
  BY PagingAssumption DEF PagingInit, NoDuplicates, RamFrame, SwpFrame
<1>3. PagingTypeOK
  BY <1>2, PteFacts, PagingAssumption DEF PagingInit, PagingTypeOK, Point
<1>4. FramesExclusive
  <2>1. held = <<>> /\ NoDuplicates(held) /\ \A x : ~ InQueue(held, x)
    BY NothingInEmpty DEF PagingInit, NoDuplicates
  <2>2. \A p \in Proc, g \in Page : pgd[p][g].in # "ram" /\ pgd[p][g].in # "swp"
    BY <1>1, PteFacts
  <2> QED
    BY <1>1, <1>2, <2>1, <2>2 DEF FramesExclusive
<1>5. FifoInRam
  BY <1>1, PteFacts, NothingInEmpty DEF PagingInit, FifoInRam, NoDuplicates
<1>6. AreaMapped
  BY <1>1, PagingAssumption DEF PagingInit, AreaMapped, Page
<1>7. OpOK
  BY DEF PagingInit, OpOK
<1> QED
  BY <1>3, <1>4, <1>5, <1>6, <1>7 DEF PagingInv

LEMMA PagingInvStep == PagingInv /\ [PagingNext]_pvars => PagingInv'
<1> SUFFICES ASSUME PagingInv, [PagingNext]_pvars
             PROVE  PagingInv'
  OBVIOUS
<1>1. CASE Step
  BY <1>1, GetFrame, SwapOut, NoFrame, UndoFrame, UndoDone, BeginMap, MapPage,
     MapDone, LoadPage, InputOutput, FreePage, FreeDone
  DEF Step
<1>2. CASE UNCHANGED pvars
  <2> USE <1>2 DEF pvars, memory, opvars
  <2>1. PagingTypeOK'
    BY DEF PagingInv, PagingTypeOK
  <2>2. FramesExclusive'
    BY Zenon DEF PagingInv, FramesExclusive
  <2>3. FifoInRam'
    BY Zenon DEF PagingInv, FifoInRam
  <2>4. AreaMapped'
    BY Zenon DEF PagingInv, AreaMapped
  <2>5. OpOK'
    BY Zenon DEF PagingInv, OpOK
  <2> QED
    BY <2>1, <2>2, <2>3, <2>4, <2>5 DEF PagingInv
<1> QED
  BY <1>1, <1>2, BeginGrow, BeginAccess, BeginFree DEF PagingNext

THEOREM PagingInvariance == PagingSpec => []PagingInv
  BY PagingInvInit, PagingInvStep, PTL DEF PagingSpec

\* Every operation of the memory manager keeps the types of its state.
THEOREM PagingTypeCorrect == PagingSpec => []PagingTypeOK
  BY PagingInvariance, PTL DEF PagingInv

\* Two pages never share a frame, whatever the processes allocate, read, write and
\* free and however often pages move between RAM and swap.
THEOREM FramesNeverShared == PagingSpec => []FramesExclusive
  BY PagingInvariance, PTL DEF PagingInv

\* find_victim_page always finds a page that is in RAM, and can find each of them.
THEOREM VictimsAreInRam == PagingSpec => []FifoInRam
  BY PagingInvariance, PTL DEF PagingInv

\* An allocation maps all of its pages or none.
THEOREM AreasHaveNoHoles == PagingSpec => []AreaMapped
  BY PagingInvariance, PTL DEF PagingInv

-----------------------------------------------------------------------------
(* No frame is lost *)

\* A step loses no frame if what leaves a list comes to another place, and the frame
\* of an entry that changes comes to a list.
LEMMA Conserved ==
    ASSUME PagingInv, FramesConserved,
           \A f \in RamFrame : InQueue(ram_free, f) \/ InQueue(held, f) =>
              \/ InQueue(ram_free', f)
              \/ InQueue(held', f)
              \/ \E p \in Proc, g \in Page : pgd'[p][g] = InRam(f),
           \A f \in SwpFrame : InQueue(swp_free, f) =>
              InQueue(swp_free', f) \/ \E p \in Proc, g \in Page : pgd'[p][g] = InSwp(f),
           \A p \in Proc, g \in Page :
              \/ pgd'[p][g] = pgd[p][g]
              \/ pgd[p][g].in = "none"
              \/ /\ pgd[p][g].in = "ram"
                 /\ InQueue(ram_free', pgd[p][g].f) \/ InQueue(held', pgd[p][g].f)
              \/ pgd[p][g].in = "swp" /\ InQueue(swp_free', pgd[p][g].f)
    PROVE  FramesConserved'
<1>1. ASSUME NEW f \in RamFrame
      PROVE  \/ InQueue(ram_free', f)
             \/ InQueue(held', f)
             \/ \E p \in Proc, g \in Page : pgd'[p][g] = InRam(f)
  <2>1. ASSUME NEW p \in Proc, NEW g \in Page, pgd[p][g] = InRam(f)
        PROVE  \/ pgd'[p][g] = InRam(f)
               \/ InQueue(ram_free', f)
               \/ InQueue(held', f)
    BY <2>1, PteFacts
  <2> QED
    BY <2>1 DEF FramesConserved
<1>2. ASSUME NEW f \in SwpFrame
      PROVE  InQueue(swp_free', f) \/ \E p \in Proc, g \in Page : pgd'[p][g] = InSwp(f)
  <2>1. ASSUME NEW p \in Proc, NEW g \in Page, pgd[p][g] = InSwp(f)
        PROVE  pgd'[p][g] = InSwp(f) \/ InQueue(swp_free', f)
    BY <2>1, PteFacts
  <2> QED
    BY <2>1 DEF FramesConserved
<1> QED
  BY <1>1, <1>2 DEF FramesConserved

LEMMA ConservedStep == PagingInv /\ FramesConserved /\ [PagingNext]_pvars => FramesConserved'
<1> SUFFICES ASSUME PagingInv, FramesConserved, [PagingNext]_pvars
             PROVE  FramesConserved'
  OBVIOUS
<1>0. /\ pgd \in [Proc -> [Page -> Pte]] /\ held \in Seq(RamFrame)
      /\ ram_free \in Seq(RamFrame) /\ swp_free \in Seq(SwpFrame)
      /\ NoDuplicates(ram_free) /\ NoDuplicates(held) /\ NoDuplicates(swp_free)
      /\ at # "idle" => who \in Proc
  BY DEF PagingInv, PagingTypeOK, FramesExclusive
<1>1. ASSUME UNCHANGED <<pgd, ram_free, swp_free>>, held' = held \/ held = <<>>
      PROVE  FramesConserved'
  BY <1>1, NothingInEmpty, Conserved
<1>2. CASE get_freefp
  <2>1. /\ ram_free # <<>> /\ ram_free' = Tail(ram_free)
        /\ held' = <<Head(ram_free)>> \o held /\ UNCHANGED <<pgd, swp_free>>
    BY <1>2 DEF get_freefp, freefp, after_get
  <2>2. Head(ram_free) \in RamFrame
    BY <1>0, <2>1, TailFacts
  <2>3. \A x : InQueue(held', x) <=> x = Head(ram_free) \/ InQueue(held, x)
    BY <1>0, <2>1, <2>2, ConsFacts
  <2>4. \A f \in RamFrame : InQueue(ram_free, f) => f = Head(ram_free) \/ InQueue(ram_free', f)
    BY <1>0, <2>1, TailRest
  <2> QED
    BY <2>1, <2>3, <2>4, Conserved
<1>3. CASE swap_out_page
  <2> DEFINE q == fifo_pgn[who]
             v == q[Len(q)]
             f == pgd[who][v].f
             s == Head(swp_free)
  <2>1. /\ who \in Proc /\ at # "reap" /\ q # <<>> /\ swp_free # <<>>
        /\ pgd' = [pgd EXCEPT ![who][v] = InSwp(s)] /\ held' = <<f>> \o held
        /\ swp_free' = Tail(swp_free) /\ UNCHANGED ram_free
    BY <1>0, <1>3 DEF swap_out_page, WantsFrame, victim, freefp, after_get
  <2>2. /\ q \in Seq(Page) /\ NoDuplicates(q)
        /\ \A g \in Page : InQueue(q, g) <=> pgd[who][g].in = "ram"
    BY <2>1 DEF PagingInv, PagingTypeOK, FifoInRam
  <2>3. v \in Page /\ pgd[who][v].in = "ram"
    BY <2>1, <2>2, FrontFacts
  <2>4. f \in RamFrame
    BY <1>0, <2>1, <2>3, PteFacts
  <2>5. s \in SwpFrame
    BY <1>0, <2>1, TailFacts
  <2> HIDE DEF q, v, f, s
  <2>6. /\ pgd'[who][v] = InSwp(s)
        /\ \A p \in Proc, g \in Page : p # who \/ g # v => pgd'[p][g] = pgd[p][g]
    BY <1>0, <2>1, <2>3, <2>5, PteFacts, PteChange
  <2>7. \A x : InQueue(held', x) <=> x = f \/ InQueue(held, x)
    BY <1>0, <2>1, <2>4, ConsFacts
  <2>8. \A x \in SwpFrame : InQueue(swp_free, x) => x = s \/ InQueue(swp_free', x)
    BY <1>0, <2>1, TailRest DEF s
  <2>9. \A p \in Proc, g \in Page :
           pgd'[p][g] = pgd[p][g] \/ (pgd[p][g].in = "ram" /\ InQueue(held', pgd[p][g].f))
    BY <2>3, <2>6, <2>7 DEF f
  <2> QED
    BY <2>1, <2>3, <2>6, <2>7, <2>8, <2>9, Conserved
<1>4. CASE undo_frame
  <2>1. /\ held # <<>> /\ ram_free' = <<Head(held)>> \o ram_free /\ held' = Tail(held)
        /\ UNCHANGED <<pgd, swp_free>>
    BY <1>4 DEF undo_frame, put_freefp
  <2>2. Head(held) \in RamFrame
    BY <1>0, <2>1, TailFacts
  <2>3. \A x : InQueue(ram_free', x) <=> x = Head(held) \/ InQueue(ram_free, x)
    BY <1>0, <2>1, <2>2, ConsFacts
  <2>4. \A f \in RamFrame : InQueue(held, f) => f = Head(held) \/ InQueue(held', f)
    BY <1>0, <2>1, TailRest
  <2> QED
    BY <2>1, <2>3, <2>4, Conserved
<1>5. CASE map_page
  <2> DEFINE f == Head(held)
  <2>1. /\ held # <<>> /\ held' = Tail(held) /\ UNCHANGED <<ram_free, swp_free>>
        /\ pgd' = [pgd EXCEPT ![who][page] = InRam(f)]
        /\ at = "map" /\ who \in Proc /\ who \in live
    BY <1>0, <1>5 DEF map_page, PagingInv, OpOK
  <2>2. f \in RamFrame
    BY <1>0, <2>1, TailFacts
  <2>3. /\ Len(held) \in Nat \ {0} /\ page \in Nat
        /\ page + Len(held) <= NPage
    BY <1>0, <2>1, PagingAssumption DEF PagingInv, PagingTypeOK, OpOK
  <2>4. page \in Page
    BY <2>3, PagingAssumption DEF Page
  <2>5. pgd[who][page].in = "none"
    BY <2>1, <2>3, <2>4, PteFacts DEF PagingInv, AreaMapped
  <2> HIDE DEF f
  <2>6. /\ pgd'[who][page] = InRam(f)
        /\ \A p \in Proc, g \in Page : p # who \/ g # page => pgd'[p][g] = pgd[p][g]
    BY <1>0, <2>1, <2>2, <2>4, PteFacts, PteChange
  <2>7. \A x \in RamFrame : InQueue(held, x) => x = f \/ InQueue(held', x)
    BY <1>0, <2>1, TailRest DEF f
  <2>8. \A p \in Proc, g \in Page : pgd'[p][g] = pgd[p][g] \/ pgd[p][g].in = "none"
    BY <2>5, <2>6
  <2> QED
    BY <2>1, <2>4, <2>6, <2>7, <2>8, Conserved
<1>6. CASE load_page
  <2> DEFINE f == Head(held)
             s == pgd[who][page].f
  <2>1. /\ held' = <<>> /\ swp_free' = <<s>> \o swp_free /\ UNCHANGED ram_free
        /\ pgd' = [pgd EXCEPT ![who][page] = InRam(f)]
        /\ at = "fault" /\ who \in Proc /\ page \in Page /\ Len(held) = 1
        /\ pgd[who][page].in = "swp"
    BY <1>0, <1>6 DEF load_page, put_freefp, PagingInv, OpOK
  <2>2. f \in RamFrame /\ \A x : InQueue(held, x) => x = f
    <3>1. held # <<>>
      <4>1. Len(<<>>) # 1
        OBVIOUS
      <4> QED
        BY <2>1, <4>1, Zenon
    <3>2. f = held[1] /\ f \in RamFrame
      BY <1>0, <3>1
    <3>3. \A k \in 1 .. Len(held) : k = 1
      BY <2>1
    <3> QED
      BY <3>2, <3>3 DEF InQueue
  <2>3. s \in SwpFrame
    BY <1>0, <2>1, PteFacts
  <2> HIDE DEF f, s
  <2>4. /\ pgd'[who][page] = InRam(f)
        /\ \A p \in Proc, g \in Page : p # who \/ g # page => pgd'[p][g] = pgd[p][g]
    BY <1>0, <2>1, <2>2, PteFacts, PteChange
  <2>5. \A x : InQueue(swp_free', x) <=> x = s \/ InQueue(swp_free, x)
    BY <1>0, <2>1, <2>3, ConsFacts
  <2>6. \A p \in Proc, g \in Page :
           pgd'[p][g] = pgd[p][g] \/ (pgd[p][g].in = "swp" /\ InQueue(swp_free', pgd[p][g].f))
    BY <2>1, <2>4, <2>5 DEF s
  <2> QED
    BY <2>1, <2>2, <2>4, <2>5, <2>6, Conserved
<1>7. CASE free_page
  <2> DEFINE e == pgd[who][page]
  <2>1. /\ ram_free' = IF e.in = "ram" THEN <<e.f>> \o ram_free ELSE ram_free
        /\ swp_free' = IF e.in = "swp" THEN <<e.f>> \o swp_free ELSE swp_free
        /\ pgd' = [pgd EXCEPT ![who][page] = None]
        /\ UNCHANGED held /\ who \in Proc /\ page \in 0 .. NPage /\ page < NPage
    BY <1>0, <1>7 DEF free_page, put_freefp, PagingInv, PagingTypeOK
  <2>2. page \in Page
    BY <2>1, PagingAssumption DEF Page
  <2>3. /\ e.in \in {"none", "ram", "swp"}
        /\ e.in = "ram" => e.f \in RamFrame
        /\ e.in = "swp" => e.f \in SwpFrame
    BY <1>0, <2>1, <2>2, PteFacts
  <2> HIDE DEF e
  <2>4. /\ pgd'[who][page] = None
        /\ \A p \in Proc, g \in Page : p # who \/ g # page => pgd'[p][g] = pgd[p][g]
    BY <1>0, <2>1, <2>2, PteFacts, PteChange
  <2>5. \A x : InQueue(ram_free, x) \/ (e.in = "ram" /\ x = e.f) => InQueue(ram_free', x)
    BY <1>0, <2>1, <2>3, ConsFacts
  <2>6. \A x : InQueue(swp_free, x) \/ (e.in = "swp" /\ x = e.f) => InQueue(swp_free', x)
    BY <1>0, <2>1, <2>3, ConsFacts
  <2>7. \A p \in Proc, g \in Page :
           \/ pgd'[p][g] = pgd[p][g]
           \/ pgd[p][g].in = "none"
           \/ pgd[p][g].in = "ram" /\ InQueue(ram_free', pgd[p][g].f)
           \/ pgd[p][g].in = "swp" /\ InQueue(swp_free', pgd[p][g].f)
    BY <2>3, <2>4, <2>5, <2>6 DEF e
  <2> QED
    BY <2>1, <2>5, <2>6, <2>7, Conserved
<1>8. CASE no_frame
  <2>1. UNCHANGED <<pgd, ram_free, swp_free>> /\ (held' = held \/ (at = "fault" /\ WantsFrame))
    BY <1>8 DEF no_frame
  <2>2. at = "fault" /\ WantsFrame => held = <<>>
    BY <1>0 DEF PagingInv, OpOK, WantsFrame
  <2> QED
    BY <1>1, <2>1, <2>2
<1>9. CASE undo_done \/ begin_map \/ map_done \/ io \/ free_done
  <2>1. UNCHANGED <<pgd, ram_free, swp_free>> /\ (held' = held \/ held = <<>>)
    BY <1>9 DEF undo_done, begin_map, map_done, io, free_done, memory, PagingInv, OpOK
  <2> QED
    BY <1>1, <2>1
<1>10. CASE UNCHANGED pvars
  BY <1>1, <1>10 DEF pvars, memory, opvars
<1>11. ASSUME NEW p \in Proc,
              \/ \E n \in 1 .. NPage : inc_vma_limit(p, n)
              \/ \E g \in Page, v \in Val \cup {NULL} : access(p, g, v)
              \/ free_pcb(p)
       PROVE  FramesConserved'
  <2>1. at = "idle" /\ UNCHANGED <<pgd, ram_free, swp_free>>
    BY <1>11 DEF inc_vma_limit, access, free_pcb, Lock, memory
  <2>2. held = <<>>
    BY <2>1 DEF PagingInv, OpOK
  <2> QED
    BY <1>1, <2>1, <2>2
<1> QED
  BY <1>2, <1>3, <1>4, <1>5, <1>6, <1>7, <1>8, <1>9, <1>10, <1>11 DEF PagingNext, Step

LEMMA ConservedInit == PagingInit => FramesConserved
<1> SUFFICES ASSUME PagingInit
             PROVE  FramesConserved
  OBVIOUS
<1>1. ASSUME NEW n \in Nat \ {0}, NEW f \in 0 .. n - 1
      PROVE  InQueue([k \in 1 .. n |-> k - 1], f)
  <2> DEFINE q == [k \in 1 .. n |-> k - 1]
  <2>1. Len(q) = n /\ f + 1 \in 1 .. n /\ q[f + 1] = f
    OBVIOUS
  <2> QED
    BY <2>1 DEF InQueue
<1> QED
  BY <1>1, PagingAssumption DEF PagingInit, FramesConserved, RamFrame, SwpFrame

\* Every frame of both devices is always free, in hand or under a page: failed
\* allocations, swapping and the ends of processes lose none.
THEOREM NoFrameLost == PagingSpec => []FramesConserved
  BY ConservedInit, ConservedStep, PagingInvariance, PTL DEF PagingSpec

-----------------------------------------------------------------------------
(* A process that is gone has no memory *)

Gone ==
    \A p \in Proc : p \notin live /\ ~ (at = "reap" /\ who = p) =>
        fifo_pgn[p] = <<>> /\ \A g \in Page : pgd[p][g] = None

\* An operation changes the page table and the list of its caller only.
CallerOnly ==
    /\ pgd' = pgd \/ \E g, e : pgd' = [pgd EXCEPT ![who][g] = e]
    /\ fifo_pgn' = fifo_pgn \/ \E q : fifo_pgn' = [fifo_pgn EXCEPT ![who] = q]

LEMMA OwnPages == Step => CallerOnly /\ UNCHANGED live
<1> USE DEF CallerOnly
<1>1. CASE get_freefp \/ undo_frame
  BY <1>1 DEF get_freefp, undo_frame
<1>2. CASE swap_out_page
  BY <1>2, Zenon DEF swap_out_page
<1>3. CASE no_frame
  BY <1>3, Zenon DEF no_frame
<1>4. CASE undo_done \/ begin_map
  BY <1>4 DEF undo_done, begin_map, memory
<1>5. CASE map_page
  BY <1>5, Zenon DEF map_page
<1>6. CASE load_page
  BY <1>6, Zenon DEF load_page
<1>7. CASE map_done \/ io
  BY <1>7 DEF map_done, io
<1>8. CASE free_page
  BY <1>8, Zenon DEF free_page
<1>9. CASE free_done
  BY <1>9, Zenon DEF free_done
<1> QED
  BY <1>1, <1>2, <1>3, <1>4, <1>5, <1>6, <1>7, <1>8, <1>9 DEF Step

\* An operation keeps its caller to the end, and what kind of call it is.
LEMMA SameCaller ==
    Step => at # "idle" /\ (at' = "idle" \/ (who' = who /\ (at' = "reap" <=> at = "reap")))
  BY DEF Step, get_freefp, undo_frame, swap_out_page, no_frame, undo_done, begin_map,
         map_page, load_page, map_done, io, free_page, free_done, WantsFrame, Unlock

LEMMA GoneStep == PagingInv /\ Gone /\ [PagingNext]_pvars => Gone'
<1> SUFFICES ASSUME PagingInv, Gone, [PagingNext]_pvars,
                    NEW p \in Proc, p \notin live', ~ (at' = "reap" /\ who' = p)
             PROVE  fifo_pgn'[p] = <<>> /\ \A g \in Page : pgd'[p][g] = None
  BY DEF Gone
<1>0. pgd \in [Proc -> [Page -> Pte]] /\ fifo_pgn \in [Proc -> Seq(Page)]
  BY DEF PagingInv, PagingTypeOK
<1>1. CASE Step /\ who # p
  <2>1. p \notin live /\ CallerOnly
    BY <1>1, OwnPages
  <2>2. fifo_pgn[p] = <<>> /\ \A g \in Page : pgd[p][g] = None
    BY <1>1, <2>1 DEF Gone
  <2> QED
    BY <1>0, <1>1, <2>1, <2>2 DEF CallerOnly
<1>2. CASE Step /\ who = p
  <2>1. p \notin live /\ at # "idle"
    BY <1>2, OwnPages, SameCaller
  <2>2. at = "reap" /\ at' # "reap"
    BY <1>2, <2>1, SameCaller DEF PagingInv, OpOK
  <2>3. free_done
    BY <1>2, <2>2
    DEF Step, get_freefp, undo_frame, swap_out_page, no_frame, undo_done, begin_map,
        map_page, load_page, map_done, io, free_page, WantsFrame
  <2>4. page = NPage /\ UNCHANGED pgd /\ fifo_pgn' = [fifo_pgn EXCEPT ![who] = <<>>]
    BY <2>3 DEF free_done
  <2>5. \A g \in Page : pgd[p][g] = None
    <3>1. \A g \in Page : g < page => pgd[who][g] = None
      BY <2>2 DEF PagingInv, OpOK
    <3>2. \A g \in Page : g < NPage
      BY PagingAssumption DEF Page
    <3> QED
      BY <1>2, <2>4, <3>1, <3>2
  <2> QED
    BY <1>0, <1>2, <2>4, <2>5
<1>3. CASE UNCHANGED pvars
  BY <1>3 DEF pvars, memory, opvars, Gone
<1>4. ASSUME NEW q \in Proc,
             \/ \E n \in 1 .. NPage : inc_vma_limit(q, n)
             \/ \E g \in Page, v \in Val \cup {NULL} : access(q, g, v)
             \/ free_pcb(q)
      PROVE  fifo_pgn'[p] = <<>> /\ \A g \in Page : pgd'[p][g] = None
  <2>1. /\ at = "idle" /\ who' = q /\ UNCHANGED <<pgd, fifo_pgn>>
        /\ live' = live \/ (live' = live \ {q} /\ at' = "reap")
    BY <1>4 DEF inc_vma_limit, access, free_pcb, Lock, memory
  <2> QED
    BY <2>1 DEF Gone
<1> QED
  BY <1>1, <1>2, <1>3, <1>4 DEF PagingNext

-----------------------------------------------------------------------------
(* What the composition with the threads relies on *)

MemInv == PagingInv /\ FramesConserved /\ Gone

LEMMA MemInvInit == PagingInit => MemInv
<1> SUFFICES ASSUME PagingInit
             PROVE  MemInv
  OBVIOUS
<1>1. Gone
  BY DEF PagingInit, Gone
<1> QED
  BY <1>1, PagingInvInit, ConservedInit DEF MemInv

LEMMA MemInvStep == MemInv /\ [PagingNext]_pvars => MemInv'
  BY PagingInvStep, ConservedStep, GoneStep DEF MemInv

-----------------------------------------------------------------------------
(* Paging implements VirtMem *)

LEMMA ContentInit == PagingInit => VM!MemInit
<1> SUFFICES ASSUME PagingInit
             PROVE  VM!MemInit
  OBVIOUS
<1>1. \A p \in Proc, g \in Page : Cell(p, g) = NULL
  BY PteFacts DEF PagingInit, Cell
<1>2. Content = [p \in Proc |-> [g \in Page |-> NULL]]
  BY <1>1 DEF Content
<1>3. Pending = VM!Idle /\ data = NULL
  BY DEF PagingInit, Pending, VM!Idle
<1> QED
  BY <1>2, <1>3 DEF VM!MemInit

\* The abstract request at each point, before and after a step.
LEMMA PendingAt ==
    /\ at = "idle" => Pending = VM!Idle
    /\ at \in {"grow", "undo", "map"} => Pending = [kind |-> "grow", proc |-> who]
    /\ at \in {"fault", "io"} =>
          Pending = [kind |-> "access", proc |-> who, page |-> page, val |-> val]
    /\ at = "reap" => Pending = [kind |-> "exit", proc |-> who]
  BY DEF Pending, VM!Idle

LEMMA SameContent ==
    ASSUME UNCHANGED <<pgd, ram, swp>>
    PROVE  Content' = Content
  BY DEF Content, Cell

LEMMA PendingNext ==
    /\ at' = "idle" => Pending' = VM!Idle
    /\ at' \in {"grow", "undo", "map"} => Pending' = [kind |-> "grow", proc |-> who']
    /\ at' \in {"fault", "io"} =>
          Pending' = [kind |-> "access", proc |-> who', page |-> page', val |-> val']
    /\ at' = "reap" => Pending' = [kind |-> "exit", proc |-> who']
  BY DEF Pending, VM!Idle

\* A step that the caller does not see.
LEMMA Internal ==
    ASSUME at \in {"grow", "undo", "map", "fault", "io"}, UNCHANGED <<who, page, val, data>>,
           \/ at \in {"grow", "undo", "map"} /\ at' \in {"grow", "undo", "map"}
           \/ at \in {"fault", "io"} /\ at' \in {"fault", "io"},
           Content' = Content
    PROVE  UNCHANGED VM!memvars
<1>1. Pending' = Pending
  BY PendingAt, PendingNext, Zenon
<1> QED
  BY <1>1 DEF VM!memvars

\* The end of a call that leaves no trace in memory.
LEMMA Ends ==
    ASSUME at \in Point \ {"idle"}, at' = "idle", UNCHANGED <<pgd, ram, swp, data>>
    PROVE  VM!End
<1>1. Pending # VM!Idle
  <2>1. Pending.kind \in {"grow", "access", "exit"}
    <3>1. CASE at \in {"grow", "undo", "map"}
      BY <3>1, PendingAt
    <3>2. CASE at \in {"fault", "io"}
      BY <3>2, PendingAt
    <3>3. CASE at = "reap"
      BY <3>3, PendingAt
    <3> QED
      BY <3>1, <3>2, <3>3 DEF Point
  <2>2. VM!Idle.kind = "idle"
    BY DEF VM!Idle
  <2> QED
    BY <2>1, <2>2
<1>2. Pending' = VM!Idle
  BY PendingNext
<1>3. Content' = Content
  BY SameContent
<1> QED
  BY <1>1, <1>2, <1>3 DEF VM!End

LEMMA Begins ==
    ASSUME PagingInv, at = "idle", at' # "idle",
           UNCHANGED <<pgd, ram, swp, data>>,
           NEW r \in VM!Request, Pending' = r,
           r.kind = "access" => Content[r.proc][r.page] # NULL
    PROVE  VM!Begin
  BY PendingAt, SameContent DEF VM!Begin

\* The page that is read or written is in RAM.
LEMMA PageOnline ==
    ASSUME PagingInv, io
    PROVE  /\ who \in Proc /\ page \in Page /\ pgd[who][page].in = "ram"
           /\ pgd[who][page].f \in RamFrame
           /\ pgd[who][page] = InRam(pgd[who][page].f)
<1>1. /\ at = "io" /\ who \in Proc /\ page \in Page
      /\ pgd[who][page] \in Pte /\ pgd[who][page].in = "ram"
  BY DEF io, PagingInv, PagingTypeOK, OpOK
<1> QED
  BY <1>1, PteFacts

\* A read returns what the page holds, and changes nothing.
LEMMA ReadContent ==
    ASSUME PagingInv, io, val = NULL
    PROVE  data' = Content[who][page] /\ Content' = Content
<1>1. data' = ram[pgd[who][page].f] /\ UNCHANGED <<pgd, ram, swp>>
  BY DEF io
<1>2. Content' = Content
  BY <1>1, SameContent
<1>3. Content[who][page] = ram[pgd[who][page].f]
  BY PageOnline DEF Content, Cell
<1> QED
  BY <1>1, <1>2, <1>3

\* A write changes the page of the caller, and no other.
LEMMA WriteContent ==
    ASSUME PagingInv, io, val # NULL
    PROVE  Content' = [Content EXCEPT ![who][page] = val]
<1> DEFINE f == pgd[who][page].f
<1>1. /\ UNCHANGED <<pgd, swp>>
      /\ ram' = [ram EXCEPT ![f] = val] /\ ram \in [RamFrame -> Val]
  BY DEF io, PagingInv, PagingTypeOK
<1>2. /\ who \in Proc /\ page \in Page /\ pgd[who][page].in = "ram"
      /\ f \in RamFrame /\ pgd[who][page] = InRam(f)
  BY PageOnline
<1> HIDE DEF f
<1>3. PICK p0 \in Proc, g0 \in Page, x \in Val : p0 = who /\ g0 = page /\ x = val
  BY <1>2 DEF PagingInv, PagingTypeOK
<1>4. ASSUME NEW p \in Proc, NEW g \in Page, p # who \/ g # page
      PROVE  Cell(p, g)' = Cell(p, g)
  <2>1. pgd'[p][g] = pgd[p][g] /\ pgd[p][g] \in Pte
    BY <1>1 DEF PagingInv, PagingTypeOK
  <2>2. pgd[p][g] # InRam(f)
    <3>1. InRam(f) # None
      BY <1>2, PteFacts
    <3>2. \A q \in Proc, h \in Page :
             pgd[p][g] = pgd[q][h] => pgd[p][g] = None \/ (p = q /\ g = h)
      BY Zenon DEF PagingInv, FramesExclusive
    <3> QED
      BY <1>2, <1>4, <3>1, <3>2
  <2>3. ASSUME pgd[p][g].in = "ram"
        PROVE  ram'[pgd[p][g].f] = ram[pgd[p][g].f]
    <3>1. pgd[p][g].f \in RamFrame /\ pgd[p][g].f # f
      BY <2>1, <2>2, <2>3, PteFacts, Zenon
    <3> QED
      BY <1>1, <3>1
  <2> QED
    BY <1>1, <2>1, <2>3, PteFacts DEF Cell
<1>5. ASSUME NEW p \in Proc, NEW g \in Page, p = who, g = page
      PROVE  Cell(p, g)' = val
  <2>1. ram'[f] = val
    BY <1>1, <1>2
  <2> QED
    BY <1>1, <1>2, <1>5, <2>1 DEF Cell, f
<1>6. \A p \in Proc, g \in Page :
         Cell(p, g)' = IF p = p0 /\ g = g0 THEN x ELSE Cell(p, g)
  BY <1>3, <1>4, <1>5
<1>7. Content' = [Content EXCEPT ![p0][g0] = x]
  BY <1>6, CellChange
<1> QED
  BY <1>3, <1>7

LEMMA ContentType == PagingInv => Content \in [Proc -> [Page -> Val \cup {NULL}]]
<1> SUFFICES ASSUME PagingInv, NEW p \in Proc, NEW g \in Page
             PROVE  Cell(p, g) \in Val \cup {NULL}
  BY DEF Content
<1>1. pgd[p][g] \in Pte
  BY DEF PagingInv, PagingTypeOK
<1> QED
  BY <1>1, PteFacts DEF Cell, PagingInv, PagingTypeOK

LEMMA OneCell ==
    ASSUME NEW S, NEW C \in [Proc -> [Page -> S]], NEW w, NEW h, NEW x,
           NEW D, D = [C EXCEPT ![w][h] = x], NEW p \in Proc, NEW g \in Page
    PROVE  D[p][g] = IF w = p /\ h = g THEN x ELSE C[p][g]
  OBVIOUS

\* No other step changes what a mapped page of a live process holds.
LEMMA ContentStep ==
    ASSUME PagingInv, Step, at # "io",
           NEW p \in Proc, p \in live, NEW g \in Page, Content[p][g] # NULL
    PROVE  Content'[p][g] = Content[p][g]
<1>1. ASSUME NEW h, NEW x, Content' = [Content EXCEPT ![who][h] = x],
             who # p \/ Content[who][h] = NULL
      PROVE  Content'[p][g] = Content[p][g]
  <2>1. Content'[p][g] = IF who = p /\ h = g THEN x ELSE Content[p][g]
    BY <1>1, ContentType, OneCell
  <2> QED
    BY <1>1, <2>1
<1>2. CASE get_freefp \/ undo_frame \/ no_frame \/ undo_done \/ begin_map \/ map_done
           \/ free_done
  <2>1. UNCHANGED <<pgd, ram, swp>>
    BY <1>2 DEF get_freefp, undo_frame, no_frame, undo_done, begin_map, map_done,
                free_done, memory
  <2> QED
    BY <2>1, SameContent
<1>3. CASE swap_out_page
  BY <1>3, SwapOut
<1>4. CASE load_page
  BY <1>4, LoadPage
<1>5. CASE map_page
  BY <1>1, <1>5, MapPage
<1>6. CASE free_page
  <2>1. who # p
    BY <1>6 DEF free_page, PagingInv, OpOK
  <2> QED
    BY <1>1, <1>6, <2>1, FreePage
<1> QED
  BY <1>2, <1>3, <1>4, <1>5, <1>6 DEF Step, io

LEMMA MemStep == PagingInv /\ [PagingNext]_pvars => [VM!MemNext]_VM!memvars
<1> SUFFICES ASSUME PagingInv, [PagingNext]_pvars
             PROVE  [VM!MemNext]_VM!memvars
  OBVIOUS
<1> USE DEF VM!MemNext
<1>1. CASE get_freefp
  BY <1>1, Internal, SameContent DEF get_freefp, WantsFrame
<1>2. CASE swap_out_page
  <2>1. Content' = Content
    BY <1>2, SwapOut
  <2> QED
    BY <1>2, <2>1, Internal DEF swap_out_page, WantsFrame
<1>3. CASE no_frame
  <2>1. CASE at = "grow" /\ at' = "undo" /\ UNCHANGED <<who, page, need, held, val>>
    BY <1>3, <2>1, Internal, SameContent DEF no_frame, WantsFrame
  <2>2. CASE Unlock
    BY <1>3, <2>2, Ends DEF no_frame, WantsFrame, Unlock, Point
  <2> QED
    BY <1>3, <2>1, <2>2 DEF no_frame
<1>4. CASE undo_frame
  BY <1>4, Internal, SameContent DEF undo_frame
<1>5. CASE undo_done
  BY <1>5, Ends DEF undo_done, Unlock, memory, Point
<1>6. CASE begin_map
  BY <1>6, Internal, SameContent DEF begin_map, memory
<1>7. CASE map_page
  <2>1. at = "map" /\ UNCHANGED <<at, who, data>>
    BY <1>7 DEF map_page
  <2>2. Pending = [kind |-> "grow", proc |-> who] /\ Pending' = Pending
    BY <2>1, PendingAt, PendingNext
  <2>3. \E g \in Page, v \in Val :
           Content[who][g] = NULL /\ Content' = [Content EXCEPT ![who][g] = v]
    BY <1>7, MapPage
  <2> QED
    BY <2>1, <2>2, <2>3, Zenon DEF VM!Map
<1>8. CASE map_done
  BY <1>8, Ends DEF map_done, Unlock, Point
<1>9. CASE load_page
  <2>1. Content' = Content
    BY <1>9, LoadPage
  <2> QED
    BY <1>9, <2>1, Internal DEF load_page
<1>10. CASE io
  <2>1. at = "io" /\ at' = "idle" /\ (val # NULL => UNCHANGED data)
    BY <1>10 DEF io, Unlock
  <2>2. Pending = [kind |-> "access", proc |-> who, page |-> page, val |-> val]
    BY <2>1, PendingAt
  <2>3. Pending' = VM!Idle
    BY <2>1, PendingNext
  <2>4. CASE val = NULL
    BY <1>10, <2>2, <2>3, <2>4, ReadContent, Zenon DEF VM!Read
  <2>5. CASE val # NULL
    BY <1>10, <2>1, <2>2, <2>3, <2>5, WriteContent DEF VM!Write
  <2> QED
    BY <2>4, <2>5
<1>11. CASE free_page
  <2>1. at = "reap" /\ UNCHANGED <<at, who, data>>
    BY <1>11 DEF free_page
  <2>2. Pending = [kind |-> "exit", proc |-> who] /\ Pending' = Pending
    BY <2>1, PendingAt, PendingNext
  <2>3. \E g \in Page : Content' = [Content EXCEPT ![who][g] = NULL]
    BY <1>11, FreePage
  <2> QED
    BY <2>1, <2>2, <2>3, Zenon DEF VM!Unmap
<1>12. CASE free_done
  BY <1>12, Ends DEF free_done, Unlock, Point
<1>13. ASSUME NEW p \in Proc, NEW n \in 1 .. NPage, inc_vma_limit(p, n)
       PROVE  VM!Begin
  <2> DEFINE r == [kind |-> "grow", proc |-> p]
  <2>1. r \in VM!Request /\ r.kind # "access"
    BY DEF VM!Request
  <2>2. /\ at = "idle" /\ at' = "grow" /\ who' = p
        /\ UNCHANGED <<pgd, ram, swp, data>>
    BY <1>13 DEF inc_vma_limit, Lock, memory
  <2>3. Pending' = r
    BY <2>2, PendingNext
  <2> HIDE DEF r
  <2> QED
    BY <2>1, <2>2, <2>3, Begins
<1>14. ASSUME NEW p \in Proc, NEW g \in Page, NEW v \in Val \cup {NULL}, access(p, g, v)
       PROVE  VM!Begin
  <2> DEFINE r == [kind |-> "access", proc |-> p, page |-> g, val |-> v]
  <2>1. r \in VM!Request /\ r.proc = p /\ r.page = g
    BY DEF VM!Request
  <2>2. /\ at = "idle" /\ at' \in {"fault", "io"} /\ who' = p /\ page' = g /\ val' = v
        /\ UNCHANGED <<pgd, ram, swp, data>> /\ pgd[p][g] # None
    BY <1>14 DEF access, Lock, memory
  <2>3. Pending' = r
    BY <2>2, PendingNext, Zenon
  <2>4. Content[p][g] # NULL
    <3>1. pgd[p][g] \in Pte /\ pgd[p][g].in \in {"ram", "swp"}
      BY <2>2, PteFacts DEF PagingInv, PagingTypeOK
    <3>2. Cell(p, g) \in Val
      BY <3>1, PteFacts DEF Cell, PagingInv, PagingTypeOK
    <3> QED
      BY <3>2, PagingAssumption DEF Content
  <2> HIDE DEF r
  <2> QED
    BY <2>1, <2>2, <2>3, <2>4, Begins
<1>15. ASSUME NEW p \in Proc, free_pcb(p)
       PROVE  VM!Begin
  <2> DEFINE r == [kind |-> "exit", proc |-> p]
  <2>1. r \in VM!Request /\ r.kind # "access"
    BY DEF VM!Request
  <2>2. /\ at = "idle" /\ at' = "reap" /\ who' = p
        /\ UNCHANGED <<pgd, ram, swp, data>>
    BY <1>15 DEF free_pcb, Lock
  <2>3. Pending' = r
    BY <2>2, PendingNext
  <2> HIDE DEF r
  <2> QED
    BY <2>1, <2>2, <2>3, Begins
<1>16. CASE UNCHANGED pvars
  BY <1>16 DEF pvars, memory, opvars, VM!memvars, Content, Cell, Pending
<1>17. CASE Step
  BY <1>17, <1>1, <1>2, <1>3, <1>4, <1>5, <1>6, <1>7, <1>8, <1>9, <1>10, <1>11, <1>12
  DEF Step
<1> QED
  BY <1>13, <1>14, <1>15, <1>16, <1>17 DEF PagingNext

\* For any number of processes, pages, frames and values: each process reads from a
\* page what it last wrote there, through every swap-out and swap-in.
THEOREM SwappingIsInvisible == PagingSpec => ValuesSurvive
<1>1. PagingInit => VM!MemInit
  BY ContentInit
<1>2. PagingInv /\ [PagingNext]_pvars => [VM!MemNext]_VM!memvars
  BY MemStep
<1> QED
  BY <1>1, <1>2, PagingInvariance, PTL DEF PagingSpec, ValuesSurvive, VM!MemSpec
=============================================================================
