---------------------------- MODULE MemoryProofs ----------------------------
(***************************************************************************)
(* Proofs about an address space: its regions, and the words of its page   *)
(* table.                                                                  *)
(***************************************************************************)
EXTENDS Memory, FiniteSetTheorems, TLAPS

-----------------------------------------------------------------------------
(* What holds of the regions of an area that ends at brk                   *)

Rg == [start : Nat, end : Nat]
In(b, r) == r.start <= b /\ b < r.end
InList(b, list) == \E k \in 1 .. Len(list) : In(b, list[k])
InTable(b, tbl) == \E i \in RgId : In(b, tbl[i])

\* A region of the area; the only empty one is at 0, as in init_mm().
Fits(r, brk) == /\ r \in Rg /\ r.start <= r.end /\ r.end <= brk
                /\ r.start < r.end \/ r.end = 0

\* Two regions without a byte in common, and two that do not touch either.
Disjoint(r, s) == r.end <= s.start \/ s.end <= r.start
Apart(r, s) == r.end < s.start \/ s.end < r.start

FreeList(list, brk) ==
    /\ list \in Seq(Rg)
    /\ \A k \in 1 .. Len(list) : Fits(list[k], brk)
    /\ \A k, l \in 1 .. Len(list) : k # l => Apart(list[k], list[l])

\* The regions of the IDs; b is in one place and no more.
Table(tbl, brk) ==
    /\ tbl \in [RgId -> Rg]
    /\ \A i \in RgId : Fits(tbl[i], brk)
    /\ \A i, j \in RgId : i # j => Disjoint(tbl[i], tbl[j])

Placed(list, tbl, gone, brk) ==
    /\ brk \in Nat
    /\ FreeList(list, brk)
    /\ Table(tbl, brk)
    /\ gone \subseteq 0 .. brk - 1
    /\ \A b \in 0 .. brk - 1 :
          /\ InList(b, list) \/ InTable(b, tbl) \/ b \in gone
          /\ ~ (InList(b, list) /\ InTable(b, tbl))
          /\ b \in gone => ~ InList(b, list) /\ ~ InTable(b, tbl)

\* The inductive invariant of Regions.
RegInv ==
    /\ Placed(freerg_list, symrgtbl, lost, sbrk)
    /\ sbrk <= MaxBrk /\ sbrk % PAGESZ = 0
    /\ starved = FALSE

-----------------------------------------------------------------------------
(* Induction over the regions of a list goes by the least counterexample.  *)

\* A set of natural numbers that is not empty has a least element.
LEMMA Least ==
    ASSUME NEW T \in SUBSET Nat, T # {}
    PROVE  \E n \in T : \A m \in T : n <= m
<1>1. PICK n \in T : \A m \in T : ~ (<<m, n>> \in OpToRel(<, Nat))
  BY WFMin, NatLessThanWellFounded, Zenon
<1>2. ASSUME NEW m \in T PROVE n <= m
  <2>1. ~ (<<m, n>> \in OpToRel(<, Nat))
    BY <1>1
  <2>2. ~ (m < n)
    BY <2>1 DEF OpToRel
  <2> QED
    BY <2>2
<1> QED
  BY <1>2

\* first_fit() finds a region that is large enough, if the list has one.
LEMMA FirstFit ==
    ASSUME NEW list, NEW size
    PROVE  LET k == first_fit(list, size)
           IN  \/ /\ k = 0
                  /\ \A i \in 1 .. Len(list) : ~ (list[i].start + size <= list[i].end)
               \/ k \in 1 .. Len(list) /\ list[k].start + size <= list[k].end
<1> DEFINE I == {i \in 1 .. Len(list) : list[i].start + size <= list[i].end}
<1>1. CASE I = {}
  BY <1>1 DEF first_fit
<1>2. CASE I # {}
  <2>1. I \in SUBSET Nat
    OBVIOUS
  <2>2. \E i \in I : \A j \in I : i <= j
    BY <1>2, <2>1, Least
  <2>3. Min(I) \in I
    BY <2>2 DEF Min
  <2>4. first_fit(list, size) = Min(I)
    BY <1>2 DEF first_fit
  <2> QED
    BY <2>3, <2>4
<1> QED
  BY <1>1, <1>2

-----------------------------------------------------------------------------
(* enlist_vm_freerg_list() *)

\* What the loop makes of the new region and of the list after k + 1 regions.
LEMMA VisitedStep ==
    ASSUME NEW list, Len(list) \in Nat, NEW e
    PROVE  /\ visited(list, e)[0] = [elmt |-> e, kept |-> <<>>]
           /\ \A k \in 0 .. Len(list) - 1 :
                 visited(list, e)[k + 1] = visit(visited(list, e)[k], list[k + 1])
<1> DEFINE n == Len(list)
           first == [elmt |-> e, kept |-> <<>>]
           Loop(f, m) == f = [k \in 0 .. m |-> IF k = 0 THEN first
                                               ELSE visit(f[k - 1], list[k])]
           Stuck == {m \in Nat : ~ \E f : Loop(f, m)}
<1>1. ASSUME NEW m \in Nat, NEW f, Loop(f, m)
      PROVE  \E g : Loop(g, m + 1)
  <2> DEFINE g == [k \in 0 .. m + 1 |-> IF k = m + 1 THEN visit(f[m], list[m + 1])
                                        ELSE f[k]]
  <2> HIDE DEF first
  <2>1. ASSUME NEW k \in 0 .. m + 1
        PROVE  g[k] = IF k = 0 THEN first ELSE visit(g[k - 1], list[k])
    <3>1. CASE k = m + 1
      <4>1. g[k] = visit(f[m], list[m + 1]) /\ k # 0
        BY <3>1
      <4>2. m \in 0 .. m + 1 /\ m # m + 1 /\ k - 1 = m
        BY <3>1
      <4>3. g[m] = f[m]
        BY <4>2
      <4> QED
        BY <4>1, <4>2, <4>3, <3>1
    <3>2. CASE k # m + 1
      <4>1. k \in 0 .. m /\ g[k] = f[k]
        BY <3>2
      <4>2. CASE k = 0
        BY <1>1, <4>1, <4>2
      <4>3. CASE k # 0
        <5>1. k - 1 \in 0 .. m + 1 /\ k - 1 # m + 1
          BY <4>1, <4>3
        <5>2. g[k - 1] = f[k - 1]
          BY <5>1
        <5>3. f[k] = visit(f[k - 1], list[k])
          BY <1>1, <4>1, <4>3
        <5> QED
          BY <4>1, <5>2, <5>3, <4>3
      <4> QED
        BY <4>2, <4>3
    <3> QED
      BY <3>1, <3>2
  <2>2. g = [k \in 0 .. m + 1 |-> g[k]]
    OBVIOUS
  <2> HIDE DEF g
  <2>3. Loop(g, m + 1)
    BY <2>1, <2>2
  <2> QED
    BY <2>3
<1>2. \E f : Loop(f, 0)
  <2>1. Loop([k \in 0 .. 0 |-> first], 0)
    OBVIOUS
  <2> QED
    BY <2>1
<1> HIDE DEF Loop
<1>3. Stuck = {}
  <2>1. SUFFICES ASSUME Stuck # {} PROVE FALSE
    OBVIOUS
  <2>2. PICK m \in Stuck : \A j \in Stuck : m <= j
    BY <2>1, Least
  <2>3. m # 0
    BY <1>2
  <2>4. m - 1 \in Nat /\ m - 1 \notin Stuck
    BY <2>2, <2>3
  <2>5. PICK f : Loop(f, m - 1)
    BY <2>4
  <2>6. \E g : Loop(g, m - 1 + 1)
    BY <2>4, <2>5, <1>1
  <2> QED
    BY <2>2, <2>6
<1>4. \E f : Loop(f, n)
  BY <1>3
<1>5. visited(list, e) = CHOOSE f : Loop(f, n)
  BY DEF visited, Loop
<1>6. Loop(visited(list, e), n)
  BY <1>4, <1>5, Zenon
<1> DEFINE v == visited(list, e)
<1> HIDE DEF v, first
<1>7. v = [k \in 0 .. n |-> IF k = 0 THEN first ELSE visit(v[k - 1], list[k])]
  BY <1>6 DEF Loop, v
<1>8. v[0] = first
  BY <1>7
<1>9. ASSUME NEW k \in 0 .. n - 1 PROVE v[k + 1] = visit(v[k], list[k + 1])
  BY <1>7
<1> QED
  BY <1>8, <1>9 DEF v, first

\* The invariant of the loop: the region that came in has grown by the neighbours
\* it met, touches nothing the loop has passed, and overlaps nothing before it.
LoopInv(seen, list, e, brk, k) ==
    /\ seen \in [elmt : Rg, kept : Seq(Rg)]
    /\ seen.elmt.start < seen.elmt.end /\ seen.elmt.end <= brk
    /\ seen.elmt.start <= e.start /\ e.end <= seen.elmt.end
    /\ \A j \in 1 .. Len(seen.kept) : \E i \in 1 .. k : seen.kept[j] = list[i]
    /\ \A j, l \in 1 .. Len(seen.kept) : j # l => Apart(seen.kept[j], seen.kept[l])
    /\ \A j \in 1 .. Len(seen.kept) : Apart(seen.kept[j], seen.elmt)
    /\ \A i \in k + 1 .. Len(list) : Disjoint(list[i], seen.elmt)
    /\ \A b \in Nat : In(b, seen.elmt) \/ InList(b, seen.kept)
                         <=> In(b, e) \/ \E i \in 1 .. k : In(b, list[i])

\* A neighbour is merged.
LEMMA VisitNeighbour ==
    ASSUME NEW brk \in Nat, NEW list, FreeList(list, brk), NEW e \in Rg,
           NEW k \in 0 .. Len(list) - 1, NEW seen, LoopInv(seen, list, e, brk, k),
           adjacent(list[k + 1], seen.elmt)
    PROVE  LoopInv(visit(seen, list[k + 1]), list, e, brk, k + 1)
<1> DEFINE r == list[k + 1]
           m == seen.elmt
           new == visit(seen, r)
           all == merge(r, m)
<1>1. new = [elmt |-> all, kept |-> seen.kept]
  BY DEF visit, LoopInv
<1>2. k \in Nat /\ k + 1 \in 1 .. Len(list) /\ Len(list) \in Nat
  BY DEF FreeList
<1>3. /\ r \in Rg /\ r.start \in Nat /\ r.end \in Nat /\ r.start <= r.end /\ r.end <= brk
      /\ r.start < r.end \/ r.end = 0
  BY <1>2 DEF FreeList, Fits, Rg
<1>4. m \in Rg /\ m.start \in Nat /\ m.end \in Nat /\ m.start < m.end /\ m.end <= brk
  BY DEF LoopInv, Rg
<1>5. e.start \in Nat /\ e.end \in Nat /\ m.start <= e.start /\ e.end <= m.end
  BY DEF LoopInv, Rg
<1>6. Disjoint(r, m)
  BY <1>2 DEF LoopInv
<1>7. r.end = m.start \/ m.end = r.start
  BY DEF adjacent
<1>8. all = [start |-> IF r.start < m.start THEN r.start ELSE m.start,
            end |-> IF r.end > m.end THEN r.end ELSE m.end]
  BY DEF merge, Region
<1>9. \/ r.end = m.start /\ all = [start |-> r.start, end |-> m.end]
      \/ m.end = r.start /\ all = [start |-> m.start, end |-> r.end]
  BY <1>3, <1>4, <1>6, <1>7, <1>8 DEF Disjoint
<1>10. seen.kept \in Seq(Rg)
  BY DEF LoopInv
<1> HIDE DEF r, m, all, new
<1>11. /\ all \in Rg /\ all.start \in Nat /\ all.end \in Nat
       /\ all.start < all.end /\ all.end <= brk
       /\ all.start <= e.start /\ e.end <= all.end
  BY <1>3, <1>4, <1>5, <1>9 DEF Rg
<1>12. \A j \in 1 .. Len(seen.kept) : \E i \in 1 .. k : seen.kept[j] = list[i]
  BY DEF LoopInv
<1>13. ASSUME NEW j \in 1 .. Len(seen.kept) PROVE Apart(seen.kept[j], all)
  <2> DEFINE s == seen.kept[j]
  <2>1. PICK i \in 1 .. k : s = list[i]
    BY <1>12
  <2>2. i \in 1 .. Len(list) /\ i # k + 1
    BY <1>2
  <2>3. s.start \in Nat /\ s.end \in Nat /\ s.start <= s.end
    BY <2>1, <2>2 DEF FreeList, Fits, Rg
  <2>4. Apart(s, r)
    BY <2>1, <2>2, <1>2 DEF FreeList, r
  <2>5. Apart(s, m)
    BY DEF LoopInv, m
  <2> HIDE DEF s
  <2>6. Apart(s, all)
    BY <2>3, <2>4, <2>5, <1>3, <1>4, <1>9 DEF Apart
  <2> QED
    BY <2>6 DEF s
<1>14. ASSUME NEW i \in k + 2 .. Len(list) PROVE Disjoint(list[i], all)
  <2> DEFINE s == list[i]
  <2>1. i \in 1 .. Len(list) /\ i # k + 1 /\ i \in k + 1 .. Len(list)
    BY <1>2
  <2>2. s.start \in Nat /\ s.end \in Nat /\ s.start <= s.end
    BY <2>1 DEF FreeList, Fits, Rg
  <2>3. Apart(s, r)
    BY <2>1, <1>2 DEF FreeList, r
  <2>4. Disjoint(s, m)
    BY <2>1 DEF LoopInv, m
  <2> HIDE DEF s
  <2>5. Disjoint(s, all)
    BY <2>2, <2>3, <2>4, <1>3, <1>4, <1>9 DEF Apart, Disjoint
  <2> QED
    BY <2>5 DEF s
<1>15. ASSUME NEW b \in Nat
       PROVE  In(b, all) \/ InList(b, seen.kept)
                 <=> In(b, e) \/ \E i \in 1 .. k + 1 : In(b, list[i])
  <2>1. In(b, m) \/ InList(b, seen.kept)
           <=> In(b, e) \/ \E i \in 1 .. k : In(b, list[i])
    BY DEF LoopInv, m
  <2>2. In(b, all) <=> In(b, m) \/ In(b, r)
    BY <1>3, <1>4, <1>9 DEF In
  <2>3. (\E i \in 1 .. k + 1 : In(b, list[i]))
           <=> (\E i \in 1 .. k : In(b, list[i])) \/ In(b, r)
    <3>1. 1 .. k + 1 = 1 .. k \cup {k + 1}
      BY <1>2
    <3> QED
      BY <3>1, Zenon DEF r
  <2> QED
    BY <2>1, <2>2, <2>3, Zenon
<1>16. \A j, l \in 1 .. Len(seen.kept) : j # l => Apart(seen.kept[j], seen.kept[l])
  BY DEF LoopInv
<1>17. \A j \in 1 .. Len(seen.kept) : \E i \in 1 .. k + 1 : seen.kept[j] = list[i]
  <2>1. 1 .. k \subseteq 1 .. k + 1
    BY <1>2
  <2> QED
    BY <2>1, <1>12, Zenon
<1>18. new.elmt = all /\ new.kept = seen.kept /\ new \in [elmt : Rg, kept : Seq(Rg)]
  BY <1>1, <1>10, <1>11
<1>19. k + 1 + 1 = k + 2
  BY <1>2
<1>20. LoopInv(new, list, e, brk, k + 1)
  BY <1>11, <1>13, <1>14, <1>15, <1>16, <1>17, <1>18, <1>19, Zenon DEF LoopInv
<1> QED
  BY <1>20 DEF new, r

\* Any other region is passed.
LEMMA VisitOther ==
    ASSUME NEW brk \in Nat, NEW list, FreeList(list, brk), NEW e \in Rg,
           NEW k \in 0 .. Len(list) - 1, NEW seen, LoopInv(seen, list, e, brk, k),
           ~ adjacent(list[k + 1], seen.elmt)
    PROVE  LoopInv(visit(seen, list[k + 1]), list, e, brk, k + 1)
<1> DEFINE r == list[k + 1]
           m == seen.elmt
           new == visit(seen, r)
           n == Len(seen.kept)
           kept1 == Append(seen.kept, r)
<1>1. new = [elmt |-> m, kept |-> kept1]
  BY DEF visit, LoopInv
<1>2. k \in Nat /\ k + 1 \in 1 .. Len(list) /\ Len(list) \in Nat
  BY DEF FreeList
<1>3. r \in Rg /\ r.start \in Nat /\ r.end \in Nat
  BY <1>2 DEF FreeList, Fits, Rg
<1>4. m \in Rg /\ m.start \in Nat /\ m.end \in Nat
  BY DEF LoopInv, Rg
<1>5. Apart(r, m)
  <2>1. Disjoint(r, m)
    BY <1>2 DEF LoopInv
  <2>2. r.end # m.start /\ m.end # r.start
    BY DEF adjacent
  <2> HIDE DEF r, m
  <2> QED
    BY <2>1, <2>2, <1>3, <1>4 DEF Disjoint, Apart
<1>6. seen.kept \in Seq(Rg) /\ n \in Nat
  BY DEF LoopInv
<1>7. /\ kept1 \in Seq(Rg) /\ Len(kept1) = n + 1
      /\ \A j \in 1 .. n : kept1[j] = seen.kept[j]
      /\ kept1[n + 1] = r
  <2> HIDE DEF r
  <2> QED
    BY <1>3, <1>6
<1>8. 1 .. n + 1 = 1 .. n \cup {n + 1} /\ n + 1 \notin 1 .. n
  BY <1>6
<1>9. 1 .. k + 1 = 1 .. k \cup {k + 1}
  BY <1>2
<1> HIDE DEF kept1, new, n
<1>10. \A j \in 1 .. n : \E i \in 1 .. k : seen.kept[j] = list[i]
  BY DEF LoopInv, n
<1>11. \A j \in 1 .. n + 1 : \E i \in 1 .. k + 1 : kept1[j] = list[i]
  BY <1>7, <1>8, <1>9, <1>10, Zenon
<1>12. ASSUME NEW j \in 1 .. n PROVE Apart(kept1[j], r) /\ Apart(r, kept1[j])
  <2>1. PICK i \in 1 .. k : kept1[j] = list[i]
    BY <1>7, <1>10
  <2>2. i \in 1 .. Len(list) /\ i # k + 1
    BY <1>2
  <2> QED
    BY <2>1, <2>2, <1>2, Zenon DEF FreeList
<1>13. \A j, l \in 1 .. n : j # l => Apart(kept1[j], kept1[l])
  BY <1>7 DEF LoopInv, n
<1>14. \A j, l \in 1 .. n + 1 : j # l => Apart(kept1[j], kept1[l])
  BY <1>7, <1>8, <1>12, <1>13, Zenon
<1>15. \A j \in 1 .. n : Apart(kept1[j], m)
  BY <1>7 DEF LoopInv, n
<1>16. \A j \in 1 .. n + 1 : Apart(kept1[j], m)
  BY <1>5, <1>7, <1>8, <1>15, Zenon
<1>17. \A i \in k + 1 + 1 .. Len(list) : Disjoint(list[i], m)
  BY <1>2 DEF LoopInv
<1>18. ASSUME NEW b \in Nat
       PROVE  In(b, m) \/ InList(b, kept1)
                 <=> In(b, e) \/ \E i \in 1 .. k + 1 : In(b, list[i])
  <2>1. In(b, m) \/ InList(b, seen.kept)
           <=> In(b, e) \/ \E i \in 1 .. k : In(b, list[i])
    BY DEF LoopInv
  <2>2. InList(b, kept1) <=> InList(b, seen.kept) \/ In(b, r)
    BY <1>7, <1>8, Zenon DEF InList, n
  <2>3. (\E i \in 1 .. k + 1 : In(b, list[i]))
           <=> (\E i \in 1 .. k : In(b, list[i])) \/ In(b, r)
    BY <1>9, Zenon
  <2> QED
    BY <2>1, <2>2, <2>3, Zenon
<1>19. new.elmt = m /\ new.kept = kept1 /\ new \in [elmt : Rg, kept : Seq(Rg)]
  <2> HIDE DEF m
  <2> QED
    BY <1>1, <1>4, <1>7
<1>20. /\ m.start < m.end /\ m.end <= brk
       /\ m.start <= e.start /\ e.end <= m.end
  BY DEF LoopInv
<1> HIDE DEF r, m
<1>21. LoopInv(new, list, e, brk, k + 1)
  BY <1>7, <1>11, <1>14, <1>16, <1>17, <1>18, <1>19, <1>20, Zenon DEF LoopInv
<1> QED
  BY <1>21 DEF new, r

\* The list after enlist_vm_freerg_list() is a free list again, has the bytes of the
\* old one and of the new region, and has one region with all of the latter.
LEMMA Enlisted ==
    ASSUME NEW brk \in Nat, NEW list, FreeList(list, brk), NEW e \in Rg,
           e.start < e.end, e.end <= brk,
           \A i \in 1 .. Len(list) : Disjoint(list[i], e)
    PROVE  LET new == enlist_vm_freerg_list(list, e)
           IN  /\ FreeList(new, brk)
               /\ \A b \in Nat : InList(b, new) <=> InList(b, list) \/ In(b, e)
               /\ \E k \in 1 .. Len(new) :
                     new[k].start <= e.start /\ e.end <= new[k].end
<1> DEFINE n == Len(list)
           v == visited(list, e)
           Failed == {k \in 0 .. n : ~ LoopInv(v[k], list, e, brk, k)}
<1>1. n \in Nat
  BY DEF FreeList
<1>2. e.start \in Nat /\ e.end \in Nat
  BY DEF Rg
<1>3. v[0] = [elmt |-> e, kept |-> <<>>]
  BY <1>1, VisitedStep
<1>4. \A k \in 0 .. n - 1 : v[k + 1] = visit(v[k], list[k + 1])
  BY <1>1, VisitedStep
<1> HIDE DEF v
<1>5. LoopInv(v[0], list, e, brk, 0)
  BY <1>1, <1>2, <1>3 DEF LoopInv, InList
<1>6. ASSUME NEW k \in 0 .. n - 1, LoopInv(v[k], list, e, brk, k)
      PROVE  LoopInv(v[k + 1], list, e, brk, k + 1)
  <2>1. LoopInv(visit(v[k], list[k + 1]), list, e, brk, k + 1)
    BY <1>6, VisitNeighbour, VisitOther
  <2> QED
    BY <2>1, <1>4
<1>7. Failed = {}
  <2>1. SUFFICES ASSUME Failed # {} PROVE FALSE
    OBVIOUS
  <2>2. Failed \in SUBSET Nat
    BY <1>1
  <2>3. PICK k \in Failed : \A j \in Failed : k <= j
    BY <2>1, <2>2, Least
  <2>4. k \in 0 .. n /\ ~ LoopInv(v[k], list, e, brk, k)
    BY <2>3
  <2>5. k # 0
    BY <1>5, <2>4
  <2>6. k - 1 \in 0 .. n - 1 /\ k - 1 \in 0 .. n /\ k - 1 + 1 = k /\ ~ (k <= k - 1)
    BY <1>1, <2>4, <2>5
  <2>7. LoopInv(v[k - 1], list, e, brk, k - 1)
    BY <2>3, <2>6
  <2>8. LoopInv(v[k - 1 + 1], list, e, brk, k - 1 + 1)
    BY <1>6, <2>6, <2>7
  <2> QED
    BY <2>4, <2>6, <2>8
<1> DEFINE m == v[n].elmt
           kept == v[n].kept
           new == <<m>> \o kept
<1>8. LoopInv(v[n], list, e, brk, n)
  BY <1>1, <1>7
<1>9. enlist_vm_freerg_list(list, e) = new
  <2>1. ~ (e.start >= e.end)
    BY <1>2
  <2> QED
    BY <2>1 DEF enlist_vm_freerg_list, v
<1>10. m \in Rg /\ kept \in Seq(Rg) /\ Len(kept) \in Nat
  BY <1>8 DEF LoopInv
<1>11. /\ m.start < m.end /\ m.end <= brk
       /\ m.start <= e.start /\ e.end <= m.end
       /\ \A j \in 1 .. Len(kept) : \E i \in 1 .. n : kept[j] = list[i]
       /\ \A j, l \in 1 .. Len(kept) : j # l => Apart(kept[j], kept[l])
       /\ \A j \in 1 .. Len(kept) : Apart(kept[j], m)
       /\ \A b \in Nat : In(b, m) \/ InList(b, kept)
                            <=> In(b, e) \/ \E i \in 1 .. n : In(b, list[i])
  BY <1>8 DEF LoopInv
<1> HIDE DEF m, kept
<1>12. /\ new \in Seq(Rg) /\ Len(new) = Len(kept) + 1
       /\ new[1] = m
       /\ \A j \in 1 .. Len(kept) : new[j + 1] = kept[j]
  BY <1>10
<1> HIDE DEF new
<1>13. \A k \in 1 .. Len(new) : k = 1 \/ \E j \in 1 .. Len(kept) : k = j + 1
  <2> SUFFICES ASSUME NEW k \in 1 .. Len(new), k # 1
               PROVE  \E j \in 1 .. Len(kept) : k = j + 1
    OBVIOUS
  <2>1. k - 1 \in 1 .. Len(kept) /\ k = k - 1 + 1
    BY <1>10, <1>12
  <2> QED
    BY <2>1
<1>14. \A k \in 1 .. Len(new) : new[k] = m \/ \E j \in 1 .. Len(kept) : new[k] = kept[j]
  BY <1>12, <1>13, Zenon
<1>15. Fits(m, brk)
  BY <1>10, <1>11 DEF Fits, Rg
<1>16. \A j \in 1 .. Len(kept) : Fits(kept[j], brk)
  BY <1>11, Zenon DEF FreeList
<1>17. \A k \in 1 .. Len(new) : Fits(new[k], brk)
  BY <1>14, <1>15, <1>16, Zenon
<1>18. \A j \in 1 .. Len(kept) : Apart(m, kept[j])
  BY <1>11, Zenon DEF Apart
<1>19. \A k, l \in 1 .. Len(new) : k # l => Apart(new[k], new[l])
  <2> SUFFICES ASSUME NEW k \in 1 .. Len(new), NEW l \in 1 .. Len(new), k # l
               PROVE  Apart(new[k], new[l])
    OBVIOUS
  <2>1. CASE k = 1
    <3>1. PICK j \in 1 .. Len(kept) : l = j + 1
      BY <1>13, <2>1
    <3> QED
      BY <2>1, <3>1, <1>12, <1>18
  <2>2. CASE l = 1
    <3>1. PICK j \in 1 .. Len(kept) : k = j + 1
      BY <1>13, <2>2
    <3> QED
      BY <2>2, <3>1, <1>11, <1>12
  <2>3. CASE k # 1 /\ l # 1
    <3>1. PICK j \in 1 .. Len(kept) : k = j + 1
      BY <1>13, <2>3
    <3>2. PICK i \in 1 .. Len(kept) : l = i + 1
      BY <1>13, <2>3
    <3>3. i # j
      BY <3>1, <3>2
    <3> QED
      BY <3>1, <3>2, <3>3, <1>11, <1>12
  <2> QED
    BY <2>1, <2>2, <2>3
<1>20. FreeList(new, brk)
  BY <1>12, <1>17, <1>19, Zenon DEF FreeList
<1>21. 1 \in 1 .. Len(new) /\ \A j \in 1 .. Len(kept) : j + 1 \in 1 .. Len(new)
  BY <1>10, <1>12
<1>22. ASSUME NEW b \in Nat PROVE InList(b, new) <=> InList(b, list) \/ In(b, e)
  <2>1. InList(b, new) <=> In(b, m) \/ InList(b, kept)
    BY <1>12, <1>14, <1>21, Zenon DEF InList
  <2> QED
    BY <2>1, <1>11, Zenon DEF InList
<1>23. \E k \in 1 .. Len(new) : new[k].start <= e.start /\ e.end <= new[k].end
  BY <1>11, <1>12, <1>21
<1> QED
  BY <1>9, <1>20, <1>22, <1>23

\* A list without its k-th region.
LEMMA RemoveFacts ==
    ASSUME NEW S, NEW list \in Seq(S), NEW k \in 1 .. Len(list)
    PROVE  LET new == SubSeq(list, 1, k - 1) \o SubSeq(list, k + 1, Len(list))
           IN  /\ new \in Seq(S) /\ Len(new) = Len(list) - 1
               /\ \A j \in 1 .. Len(list) - 1 :
                     new[j] = list[IF j < k THEN j ELSE j + 1]
<1> DEFINE n == Len(list)
           low == SubSeq(list, 1, k - 1)
           high == SubSeq(list, k + 1, n)
           new == low \o high
<1>1. n \in Nat /\ k \in Nat /\ 1 <= k /\ k <= n
  OBVIOUS
<1>2. low \in Seq(S) /\ Len(low) = k - 1 /\ \A j \in 1 .. k - 1 : low[j] = list[j]
  OBVIOUS
<1>3. /\ high \in Seq(S) /\ Len(high) = n - k
      /\ \A j \in 1 .. n - k : high[j] = list[j + k]
  OBVIOUS
<1> HIDE DEF low, high
<1>5. new \in Seq(S) /\ Len(new) = n - 1
  <2>1. low \in Seq(S) /\ high \in Seq(S)
    BY <1>2, <1>3
  <2>2. new \in Seq(S) /\ Len(new) = Len(low) + Len(high)
    BY ONLY <2>1
  <2> QED
    BY <1>1, <1>2, <1>3, <2>2
<1>6. ASSUME NEW j \in 1 .. n - 1 PROVE new[j] = list[IF j < k THEN j ELSE j + 1]
  <2>1. CASE j < k
    BY <1>1, <1>2, <1>3, <2>1
  <2>2. CASE ~ (j < k)
    <3>1. new[j] = high[j - (k - 1)]
      BY <1>1, <1>2, <1>3, <2>2
    <3>2. j - (k - 1) \in 1 .. n - k /\ (j - (k - 1)) + k = j + 1
      BY <1>1, <2>2
    <3> QED
      BY <1>3, <2>2, <3>1, <3>2
  <2> QED
    BY <2>1, <2>2
<1> HIDE DEF n, new
<1> QED
  BY <1>5, <1>6 DEF n, new, low, high

\* The list after take() is a free list again, without the bytes taken.
LEMMA Taken ==
    ASSUME NEW brk \in Nat, NEW list, FreeList(list, brk), NEW size \in Nat \ {0},
           NEW k \in 1 .. Len(list), list[k].start + size <= list[k].end
    PROVE  LET new == take(list, k, size)
               rg == Region(list[k].start, list[k].start + size)
           IN  /\ Fits(rg, brk) /\ rg.start < rg.end
               /\ FreeList(new, brk)
               /\ \A b \in Nat : InList(b, new) <=> InList(b, list) /\ ~ In(b, rg)
               /\ \A b \in Nat : In(b, rg) => InList(b, list)
<1> DEFINE n == Len(list)
           r == list[k]
           rg == Region(r.start, r.start + size)
           new == take(list, k, size)
<1>1. n \in Nat /\ list \in Seq(Rg) /\ k \in Nat /\ 1 <= k /\ k <= n
  BY DEF FreeList
<1>2. r \in Rg /\ r.start \in Nat /\ r.end \in Nat /\ r.end <= brk
  BY DEF FreeList, Fits, Rg
<1>3. /\ rg \in Rg /\ rg.start = r.start /\ rg.end = r.start + size
      /\ rg.start \in Nat /\ rg.end \in Nat /\ rg.end <= r.end
  <2> HIDE DEF r
  <2> QED
    BY <1>2 DEF Region, Rg, r
<1>4. Fits(rg, brk) /\ rg.start < rg.end
  <2> HIDE DEF r, rg
  <2> QED
    BY <1>2, <1>3 DEF Fits
<1>5. ASSUME NEW b \in Nat, In(b, rg) PROVE InList(b, list)
  <2>1. In(b, r)
    <3> HIDE DEF r, rg
    <3> QED
      BY <1>2, <1>3, <1>5 DEF In
  <2> QED
    BY <2>1 DEF InList
\* No other region of the list has a byte of it.
<1>6. ASSUME NEW b \in Nat, In(b, rg), NEW j \in 1 .. n, j # k PROVE ~ In(b, list[j])
  <2> DEFINE s == list[j]
  <2>1. s.start \in Nat /\ s.end \in Nat
    BY DEF FreeList, Fits, Rg
  <2>2. Apart(s, r)
    BY <1>6 DEF FreeList
  <2> HIDE DEF s, r, rg
  <2>3. ~ In(b, s)
    BY <2>1, <2>2, <1>2, <1>3, <1>6 DEF Apart, In
  <2> QED
    BY <2>3 DEF s
<1>7. \A j \in 1 .. n : list[j] \in Rg /\ Fits(list[j], brk)
  BY DEF FreeList, Fits
<1>8. \A j, l \in 1 .. n : j # l => Apart(list[j], list[l])
  BY DEF FreeList
<1>9. CASE r.start + size = r.end
  <2> DEFINE old(j) == IF j < k THEN j ELSE j + 1
  <2>1. new = SubSeq(list, 1, k - 1) \o SubSeq(list, k + 1, n)
    BY <1>9 DEF take
  <2>2. /\ new \in Seq(Rg) /\ Len(new) = n - 1
        /\ \A j \in 1 .. n - 1 : new[j] = list[old(j)]
    BY <1>1, <2>1, RemoveFacts
  <2> HIDE DEF new
  <2>3. \A j \in 1 .. n - 1 : old(j) \in 1 .. n /\ old(j) # k
    BY <1>1
  <2>4. \A j, l \in 1 .. n - 1 : j # l => old(j) # old(l)
    BY <1>1
  <2>5. ASSUME NEW i \in 1 .. n, i # k PROVE \E j \in 1 .. n - 1 : old(j) = i
    <3>1. CASE i < k
      <4>1. i \in 1 .. n - 1 /\ old(i) = i
        BY <1>1, <3>1
      <4> QED
        BY <4>1, Zenon
    <3>2. CASE i > k
      <4>1. i - 1 \in 1 .. n - 1 /\ old(i - 1) = i
        BY <1>1, <3>2
      <4> QED
        BY <4>1, Zenon
    <3> QED
      BY <1>1, <2>5, <3>1, <3>2
  <2> HIDE DEF old
  <2>6. \A j \in 1 .. n - 1 : Fits(new[j], brk)
    BY <2>2, <2>3, <1>7, Zenon
  <2>7. \A j, l \in 1 .. n - 1 : j # l => Apart(new[j], new[l])
    BY <2>2, <2>3, <2>4, <1>8, Zenon
  <2>8. FreeList(new, brk)
    BY <2>2, <2>6, <2>7, Zenon DEF FreeList
  <2>9. ASSUME NEW b \in Nat PROVE InList(b, new) <=> InList(b, list) /\ ~ In(b, rg)
    <3>1. In(b, rg) <=> In(b, r)
      <4> HIDE DEF r, rg
      <4> QED
        BY <1>3, <1>9 DEF In
    <3>2. InList(b, new) => \E i \in 1 .. n : i # k /\ In(b, list[i])
      BY <2>2, <2>3, Zenon DEF InList
    <3>3. (\E i \in 1 .. n : i # k /\ In(b, list[i])) => InList(b, new)
      BY <2>2, <2>5, Zenon DEF InList
    <3> QED
      BY <3>1, <3>2, <3>3, <1>6, Zenon DEF InList
  <2> QED
    BY <1>4, <1>5, <2>8, <2>9 DEF new
<1>10. CASE r.start + size # r.end
  <2> DEFINE rest == [start |-> r.start + size, end |-> r.end]
  <2>1. r = [start |-> r.start, end |-> r.end]
    BY <1>2 DEF Rg
  <2>2. [r EXCEPT !.start = @ + size] = rest
    <3> HIDE DEF r
    <3> QED
      BY <2>1
  <2>3. new = [list EXCEPT ![k] = rest]
    BY <2>2, <1>10 DEF take
  <2>4. /\ rest \in Rg /\ rest.start = r.start + size /\ rest.end = r.end
        /\ rest.start < rest.end /\ rest.start \in Nat /\ rest.end \in Nat
    <3> HIDE DEF r
    <3> QED
      BY <1>2, <1>10 DEF Rg, r
  <2> HIDE DEF rest, new
  <2>5. /\ new \in Seq(Rg) /\ Len(new) = n /\ new[k] = rest
        /\ \A j \in 1 .. n : j # k => new[j] = list[j]
    BY <1>1, <2>3, <2>4
  <2>6. Fits(rest, brk)
    <3> HIDE DEF r
    <3> QED
      BY <1>2, <2>4 DEF Fits
  <2>7. \A j \in 1 .. n : Fits(new[j], brk)
    BY <2>5, <2>6, <1>7, Zenon
  <2>8. ASSUME NEW j \in 1 .. n, j # k PROVE Apart(list[j], rest) /\ Apart(rest, list[j])
    <3> DEFINE s == list[j]
    <3>1. s.start \in Nat /\ s.end \in Nat
      BY <1>7 DEF Rg
    <3>2. Apart(s, r)
      BY <1>8, <2>8
    <3> HIDE DEF s, r
    <3>3. Apart(s, rest) /\ Apart(rest, s)
      BY <3>1, <3>2, <1>2, <2>4 DEF Apart
    <3> QED
      BY <3>3 DEF s
  <2>9. \A j, l \in 1 .. n : j # l => Apart(new[j], new[l])
    BY <2>5, <2>8, <1>8, Zenon
  <2>10. FreeList(new, brk)
    BY <2>5, <2>7, <2>9, Zenon DEF FreeList
  <2>11. ASSUME NEW b \in Nat PROVE InList(b, new) <=> InList(b, list) /\ ~ In(b, rg)
    <3>1. In(b, rest) <=> In(b, r) /\ ~ In(b, rg)
      <4> HIDE DEF r, rg
      <4> QED
        BY <1>2, <1>3, <2>4 DEF In
    <3>2. InList(b, new) <=> In(b, rest) \/ \E i \in 1 .. n : i # k /\ In(b, list[i])
      BY <2>5, Zenon DEF InList
    <3>3. InList(b, list) <=> In(b, r) \/ \E i \in 1 .. n : i # k /\ In(b, list[i])
      BY Zenon DEF InList
    <3> QED
      BY <3>1, <3>2, <3>3, <1>6, Zenon
  <2> QED
    BY <1>4, <1>5, <2>10, <2>11 DEF new
<1> QED
  BY <1>9, <1>10

-----------------------------------------------------------------------------
(* The operations of libmem.c keep each byte in one place                  *)

\* Two regions without a common byte do not overlap.
LEMMA NoCommonByte ==
    ASSUME NEW brk \in Nat, NEW r, Fits(r, brk), NEW s, Fits(s, brk),
           \A b \in 0 .. brk - 1 : ~ (In(b, r) /\ In(b, s))
    PROVE  Disjoint(r, s)
<1> DEFINE b == IF r.start < s.start THEN s.start ELSE r.start
<1>1. /\ r.start \in Nat /\ r.end \in Nat /\ r.start <= r.end /\ r.end <= brk
      /\ r.start < r.end \/ r.end = 0
  BY DEF Fits, Rg
<1>2. /\ s.start \in Nat /\ s.end \in Nat /\ s.start <= s.end /\ s.end <= brk
      /\ s.start < s.end \/ s.end = 0
  BY DEF Fits, Rg
<1>3. SUFFICES ASSUME ~ Disjoint(r, s) PROVE FALSE
  OBVIOUS
<1>4. r.end > s.start /\ s.end > r.start
  BY <1>1, <1>2, <1>3 DEF Disjoint
<1>5. b \in 0 .. brk - 1 /\ In(b, r) /\ In(b, s)
  BY <1>1, <1>2, <1>4 DEF In
<1> QED
  BY <1>5

\* ... and the other way round.
LEMMA DisjointBytes ==
    ASSUME NEW brk, NEW r, Fits(r, brk), NEW s, Fits(s, brk), Disjoint(r, s),
           NEW b \in Nat
    PROVE  ~ (In(b, r) /\ In(b, s))
  BY DEF Fits, Rg, Disjoint, In

\* A region of the area has bytes of the area only.
LEMMA InArea ==
    ASSUME NEW brk \in Nat, NEW r, Fits(r, brk), NEW b \in Nat, In(b, r)
    PROVE  b \in 0 .. brk - 1
  BY DEF Fits, Rg, In

\* So has the free list,
LEMMA ListInArea ==
    ASSUME NEW brk \in Nat, NEW list, FreeList(list, brk), NEW b \in Nat, InList(b, list)
    PROVE  b \in 0 .. brk - 1
  BY InArea DEF FreeList, InList

\* and the table of the regions of the IDs.
LEMMA TableInArea ==
    ASSUME NEW brk \in Nat, NEW tbl, Table(tbl, brk), NEW b \in Nat, InTable(b, tbl)
    PROVE  b \in 0 .. brk - 1
  BY InArea DEF Table, InTable

\* inc_vma_limit(): the new pages are one free region, perhaps with the old one
\* before them.
LEMMA GrowPlaced ==
    ASSUME NEW list, NEW tbl, NEW gone, NEW brk, Placed(list, tbl, gone, brk),
           NEW inc \in Nat \ {0}
    PROVE  LET new == enlist_vm_freerg_list(list, Region(brk, brk + inc))
           IN  /\ Placed(new, tbl, gone, brk + inc)
               /\ \E k \in 1 .. Len(new) :
                     new[k].start <= brk /\ brk + inc <= new[k].end
<1> DEFINE e == Region(brk, brk + inc)
           end == brk + inc
           new == enlist_vm_freerg_list(list, e)
<1>1. brk \in Nat /\ end \in Nat /\ brk < end
  BY DEF Placed
<1>2. e \in Rg /\ e.start = brk /\ e.end = end
  BY <1>1 DEF Region, Rg
<1>3. ASSUME NEW r, Fits(r, brk) PROVE Fits(r, end)
  BY <1>1, <1>3 DEF Fits, Rg
<1>4. FreeList(list, brk) /\ Table(tbl, brk)
  BY DEF Placed
<1>5. FreeList(list, end)
  BY <1>3, <1>4 DEF FreeList
<1>6. Table(tbl, end)
  BY <1>3, <1>4 DEF Table
<1> HIDE DEF e, end
<1>7. ASSUME NEW i \in 1 .. Len(list) PROVE Disjoint(list[i], e)
  <2>1. Fits(list[i], brk)
    BY <1>4 DEF FreeList
  <2> QED
    BY <2>1, <1>2 DEF Fits, Disjoint
<1>8. /\ FreeList(new, end)
      /\ \A b \in Nat : InList(b, new) <=> InList(b, list) \/ In(b, e)
      /\ \E k \in 1 .. Len(new) : new[k].start <= brk /\ end <= new[k].end
  <2>1. e.start < e.end /\ e.end <= end
    BY <1>1, <1>2
  <2> QED
    BY <2>1, <1>1, <1>2, <1>5, <1>7, Enlisted
<1> HIDE DEF new
<1>9. ASSUME NEW b \in 0 .. end - 1
      PROVE  /\ InList(b, new) \/ InTable(b, tbl) \/ b \in gone
             /\ ~ (InList(b, new) /\ InTable(b, tbl))
             /\ b \in gone => ~ InList(b, new) /\ ~ InTable(b, tbl)
  <2>1. b \in Nat
    BY <1>1
  <2>2. InList(b, new) <=> InList(b, list) \/ In(b, e)
    BY <2>1, <1>8
  <2>3. In(b, e) <=> b \notin 0 .. brk - 1
    BY <1>1, <1>2, <2>1 DEF In
  <2>4. InList(b, list) \/ InTable(b, tbl) \/ b \in gone => b \in 0 .. brk - 1
    BY <1>1, <1>4, <2>1, ListInArea, TableInArea DEF Placed
  <2>5. b \in 0 .. brk - 1 =>
           /\ InList(b, list) \/ InTable(b, tbl) \/ b \in gone
           /\ ~ (InList(b, list) /\ InTable(b, tbl))
           /\ b \in gone => ~ InList(b, list) /\ ~ InTable(b, tbl)
    BY DEF Placed
  <2> QED
    BY <2>2, <2>3, <2>4, <2>5, Zenon
<1>10. gone \subseteq 0 .. end - 1
  <2>1. gone \subseteq 0 .. brk - 1
    BY DEF Placed
  <2>2. 0 .. brk - 1 \subseteq 0 .. end - 1
    BY <1>1
  <2> QED
    BY <2>1, <2>2
<1>11. Placed(new, tbl, gone, end)
  BY <1>1, <1>6, <1>8, <1>9, <1>10, Zenon DEF Placed
<1> QED
  BY <1>8, <1>11 DEF new, e, end

\* The bytes of the table after the region of an ID has changed.
LEMMA TableExcept ==
    ASSUME NEW tbl \in [RgId -> Rg], NEW rgid \in RgId, NEW rg \in Rg, NEW b
    PROVE  /\ InTable(b, tbl)
                 <=> In(b, tbl[rgid]) \/ \E i \in RgId : i # rgid /\ In(b, tbl[i])
           /\ InTable(b, [tbl EXCEPT ![rgid] = rg])
                 <=> In(b, rg) \/ \E i \in RgId : i # rgid /\ In(b, tbl[i])
<1> DEFINE new == [tbl EXCEPT ![rgid] = rg]
<1>1. InTable(b, tbl) <=> In(b, tbl[rgid]) \/ \E i \in RgId : i # rgid /\ In(b, tbl[i])
  BY Zenon DEF InTable
<1>2. new[rgid] = rg /\ \A i \in RgId : i # rgid => new[i] = tbl[i]
  OBVIOUS
<1> HIDE DEF new
<1>3. InTable(b, new) <=> In(b, rg) \/ \E i \in RgId : i # rgid /\ In(b, tbl[i])
  BY <1>2, Zenon DEF InTable
<1> QED
  BY <1>1, <1>3 DEF new

\* __alloc(): the region found goes from the list to rgid, and what rgid had before
\* is lost.
LEMMA TakePlaced ==
    ASSUME NEW list, NEW tbl, NEW gone, NEW brk, Placed(list, tbl, gone, brk),
           NEW rgid \in RgId, NEW size \in Nat \ {0},
           NEW k \in 1 .. Len(list), list[k].start + size <= list[k].end
    PROVE  Placed(take(list, k, size),
                  [tbl EXCEPT ![rgid] = Region(list[k].start, list[k].start + size)],
                  gone \cup Bytes(tbl[rgid]), brk)
<1> DEFINE rg == Region(list[k].start, list[k].start + size)
           new == take(list, k, size)
           tbl1 == [tbl EXCEPT ![rgid] = rg]
           gone1 == gone \cup Bytes(tbl[rgid])
           Other(b) == \E i \in RgId : i # rgid /\ In(b, tbl[i])
<1>1. brk \in Nat /\ FreeList(list, brk) /\ Table(tbl, brk) /\ gone \subseteq 0 .. brk - 1
  BY DEF Placed
<1>2. /\ Fits(rg, brk) /\ rg.start < rg.end
      /\ FreeList(new, brk)
      /\ \A b \in Nat : InList(b, new) <=> InList(b, list) /\ ~ In(b, rg)
      /\ \A b \in Nat : In(b, rg) => InList(b, list)
  BY <1>1, Taken
<1>3. tbl \in [RgId -> Rg] /\ rg \in Rg
  BY <1>1, <1>2 DEF Table, Fits
<1>4. /\ tbl1 \in [RgId -> Rg] /\ tbl1[rgid] = rg
      /\ \A i \in RgId : i # rgid => tbl1[i] = tbl[i]
  BY <1>3
<1>5. \A i \in RgId : Fits(tbl[i], brk)
  BY <1>1 DEF Table
<1>6. \A b \in 0 .. brk - 1 : b \in Nat
  BY <1>1
<1>7. \A b \in 0 .. brk - 1 :
         /\ InList(b, list) \/ InTable(b, tbl) \/ b \in gone
         /\ ~ (InList(b, list) /\ InTable(b, tbl))
         /\ b \in gone => ~ InList(b, list) /\ ~ InTable(b, tbl)
  BY DEF Placed
<1>8. \A b : /\ InTable(b, tbl) <=> In(b, tbl[rgid]) \/ Other(b)
             /\ InTable(b, tbl1) <=> In(b, rg) \/ Other(b)
  BY <1>3, TableExcept
<1> HIDE DEF rg, new, tbl1, gone1
<1>9. ASSUME NEW i \in RgId PROVE Disjoint(rg, tbl[i]) /\ Disjoint(tbl[i], rg)
  <2>1. \A b \in 0 .. brk - 1 : In(b, tbl[i]) => InTable(b, tbl)
    BY DEF InTable
  <2>2. \A b \in 0 .. brk - 1 : ~ (In(b, rg) /\ In(b, tbl[i]))
    BY <2>1, <1>2, <1>6, <1>7, Zenon
  <2>3. Disjoint(rg, tbl[i])
    BY <2>2, <1>1, <1>2, <1>5, NoCommonByte
  <2> QED
    BY <2>3, Zenon DEF Disjoint
<1>10. Table(tbl1, brk)
  <2>1. \A i \in RgId : Fits(tbl1[i], brk)
    BY <1>2, <1>4, <1>5, Zenon
  <2>2. \A i, j \in RgId : i # j => Disjoint(tbl[i], tbl[j])
    BY <1>1 DEF Table
  <2>3. \A i, j \in RgId : i # j => Disjoint(tbl1[i], tbl1[j])
    BY <2>2, <1>4, <1>9, Zenon
  <2> QED
    BY <2>1, <2>3, <1>4, Zenon DEF Table
<1>11. \A b \in 0 .. brk - 1 : b \in gone1 <=> b \in gone \/ In(b, tbl[rgid])
  <2>1. tbl[rgid].start \in Nat /\ tbl[rgid].end \in Nat
    BY <1>3 DEF Rg
  <2>2. \A b \in 0 .. brk - 1 : b \in Bytes(tbl[rgid]) <=> In(b, tbl[rgid])
    BY <2>1, <1>1 DEF Bytes, In
  <2> QED
    BY <2>2 DEF gone1
<1>12. gone1 \subseteq 0 .. brk - 1
  <2>1. Bytes(tbl[rgid]) \subseteq 0 .. brk - 1
    BY <1>1, <1>5 DEF Fits, Rg, Bytes
  <2> QED
    BY <2>1, <1>1 DEF gone1
<1>13. ASSUME NEW b \in 0 .. brk - 1, In(b, tbl[rgid]) PROVE ~ Other(b)
  <2>1. ASSUME NEW i \in RgId, i # rgid PROVE ~ In(b, tbl[i])
    <3>1. Disjoint(tbl[rgid], tbl[i])
      BY <1>1, <2>1 DEF Table
    <3>2. ~ (In(b, tbl[rgid]) /\ In(b, tbl[i]))
      BY <3>1, <1>5, <1>6, DisjointBytes, Zenon
    <3> QED
      BY <3>2, <1>13
  <2> QED
    BY <2>1
<1>14. \A b \in 0 .. brk - 1 :
          /\ InList(b, new) <=> InList(b, list) /\ ~ In(b, rg)
          /\ In(b, rg) => InList(b, list)
  BY <1>2, <1>6, Zenon
<1> HIDE DEF Other
<1>15. \A b \in 0 .. brk - 1 :
          /\ InList(b, new) \/ InTable(b, tbl1) \/ b \in gone1
          /\ ~ (InList(b, new) /\ InTable(b, tbl1))
          /\ b \in gone1 => ~ InList(b, new) /\ ~ InTable(b, tbl1)
  BY <1>7, <1>8, <1>11, <1>13, <1>14, Zenon
<1>16. Placed(new, tbl1, gone1, brk)
  BY <1>1, <1>2, <1>10, <1>12, <1>15, Zenon DEF Placed
<1> QED
  BY <1>16 DEF new, tbl1, gone1, rg

\* __free(): the region of rgid goes back to the list.
LEMMA FreePlaced ==
    ASSUME NEW list, NEW tbl, NEW gone, NEW brk, Placed(list, tbl, gone, brk),
           NEW rgid \in RgId, tbl[rgid].start < tbl[rgid].end
    PROVE  Placed(enlist_vm_freerg_list(list, tbl[rgid]),
                  [tbl EXCEPT ![rgid] = Empty], gone, brk)
<1> DEFINE e == tbl[rgid]
           new == enlist_vm_freerg_list(list, e)
           tbl1 == [tbl EXCEPT ![rgid] = Empty]
           Other(b) == \E i \in RgId : i # rgid /\ In(b, tbl[i])
<1>1. brk \in Nat /\ FreeList(list, brk) /\ Table(tbl, brk) /\ gone \subseteq 0 .. brk - 1
  BY DEF Placed
<1>2. tbl \in [RgId -> Rg] /\ \A i \in RgId : Fits(tbl[i], brk)
  BY <1>1 DEF Table
<1>3. e \in Rg /\ e.end <= brk
  BY <1>2 DEF Fits
<1>4. Empty \in Rg /\ Fits(Empty, brk) /\ Empty.end = 0 /\ Empty.start = 0
  BY <1>1 DEF Empty, Region, Rg, Fits
<1>5. /\ tbl1 \in [RgId -> Rg] /\ tbl1[rgid] = Empty
      /\ \A i \in RgId : i # rgid => tbl1[i] = tbl[i]
  BY <1>2, <1>4
<1>6. \A b \in 0 .. brk - 1 : b \in Nat
  BY <1>1
<1>7. \A b \in 0 .. brk - 1 :
         /\ InList(b, list) \/ InTable(b, tbl) \/ b \in gone
         /\ ~ (InList(b, list) /\ InTable(b, tbl))
         /\ b \in gone => ~ InList(b, list) /\ ~ InTable(b, tbl)
  BY DEF Placed
<1>8. \A b : /\ InTable(b, tbl) <=> In(b, e) \/ Other(b)
             /\ InTable(b, tbl1) <=> In(b, Empty) \/ Other(b)
  BY <1>2, <1>4, TableExcept
<1>9. \A b \in 0 .. brk - 1 : ~ In(b, Empty)
  BY <1>1, <1>4 DEF In
<1> HIDE DEF tbl1
<1>10. ASSUME NEW k \in 1 .. Len(list) PROVE Disjoint(list[k], e)
  <2>1. Fits(list[k], brk)
    BY <1>1 DEF FreeList
  <2>2. \A b \in 0 .. brk - 1 : In(b, list[k]) => InList(b, list)
    BY DEF InList
  <2>3. \A b \in 0 .. brk - 1 : In(b, e) => InTable(b, tbl)
    BY DEF InTable
  <2>4. \A b \in 0 .. brk - 1 : ~ (In(b, list[k]) /\ In(b, e))
    BY <2>2, <2>3, <1>7, Zenon
  <2> QED
    BY <2>1, <2>4, <1>1, <1>2, NoCommonByte
<1>11. /\ FreeList(new, brk)
       /\ \A b \in Nat : InList(b, new) <=> InList(b, list) \/ In(b, e)
  BY <1>1, <1>3, <1>10, Enlisted
<1>12. Table(tbl1, brk)
  <2>1. \A i \in RgId : Fits(tbl1[i], brk)
    BY <1>2, <1>4, <1>5, Zenon
  <2>2. \A i, j \in RgId : i # j => Disjoint(tbl[i], tbl[j])
    BY <1>1 DEF Table
  <2>3. ASSUME NEW i \in RgId PROVE Disjoint(Empty, tbl[i]) /\ Disjoint(tbl[i], Empty)
    <3>1. tbl[i].start \in Nat
      BY <1>2 DEF Rg
    <3> QED
      BY <3>1, <1>4 DEF Disjoint
  <2>4. \A i, j \in RgId : i # j => Disjoint(tbl1[i], tbl1[j])
    BY <2>2, <2>3, <1>5, Zenon
  <2> QED
    BY <2>1, <2>4, <1>5, Zenon DEF Table
<1>13. ASSUME NEW b \in 0 .. brk - 1, In(b, e) PROVE ~ Other(b)
  <2>1. ASSUME NEW i \in RgId, i # rgid PROVE ~ In(b, tbl[i])
    <3>1. Disjoint(e, tbl[i])
      BY <1>1, <2>1 DEF Table
    <3>2. ~ (In(b, e) /\ In(b, tbl[i]))
      BY <3>1, <1>2, <1>6, DisjointBytes, Zenon
    <3> QED
      BY <3>2, <1>13
  <2> QED
    BY <2>1
<1> HIDE DEF e, new, Other
<1>14. \A b \in 0 .. brk - 1 :
          /\ InList(b, new) \/ InTable(b, tbl1) \/ b \in gone
          /\ ~ (InList(b, new) /\ InTable(b, tbl1))
          /\ b \in gone => ~ InList(b, new) /\ ~ InTable(b, tbl1)
  BY <1>6, <1>7, <1>8, <1>9, <1>11, <1>13, Zenon
<1>15. Placed(new, tbl1, gone, brk)
  BY <1>1, <1>11, <1>12, <1>14, Zenon DEF Placed
<1> QED
  BY <1>15 DEF new, tbl1, e

\* PAGING_PAGE_ALIGNSZ rounds up to whole pages.
LEMMA AlignFacts ==
    ASSUME NEW P \in Nat \ {0}, NEW sz \in Nat
    PROVE  LET a == ((sz + P - 1) \div P) * P
           IN  /\ a \in Nat /\ sz <= a
               /\ \A s \in Nat : s % P = 0 => (s + a) % P = 0
<1> DEFINE q == (sz + P - 1) \div P
           t == (sz + P - 1) % P
<1>1. sz + P - 1 \in Nat
  OBVIOUS
<1>2. q \in Nat /\ t \in 0 .. P - 1 /\ sz + P - 1 = P * q + t
  BY <1>1
<1> HIDE DEF q, t
<1>3. q * P \in Nat /\ P * q = q * P
  BY <1>2
<1>4. sz <= q * P
  BY <1>2, <1>3
<1>5. ASSUME NEW s \in Nat, s % P = 0 PROVE (s + q * P) % P = 0
  <2>1. PICK d \in Nat : s = d * P
    <3>1. s \div P \in Nat /\ s = P * (s \div P) + (s % P)
      OBVIOUS
    <3>2. s = (s \div P) * P
      BY <3>1, <1>5
    <3> QED
      BY <3>1, <3>2
  <2>2. s + q * P = (d + q) * P
    BY <1>2, <2>1
  <2>3. d + q \in Nat
    BY <1>2, <2>1
  <2>4. \A c \in Nat : (c * P) % P = 0
    OBVIOUS
  <2> QED
    BY <2>2, <2>3, <2>4
<1> QED
  BY <1>3, <1>4, <1>5 DEF q

-----------------------------------------------------------------------------
(* The inductive invariant *)

\* init_mm(): an area without a byte.
LEMMA RegionsInitInv == RegionsInit => RegInv
<1> SUFFICES ASSUME RegionsInit PROVE RegInv
  OBVIOUS
<1> DEFINE tbl == [i \in RgId |-> Empty]
<1>1. Empty \in Rg /\ Empty.start = 0 /\ Empty.end = 0 /\ Fits(Empty, 0)
  BY DEF Empty, Region, Rg, Fits
<1>2. FreeList(<<Empty>>, 0)
  BY <1>1 DEF FreeList
<1>3. Table(tbl, 0)
  BY <1>1 DEF Table, Disjoint
<1>4. Placed(<<Empty>>, tbl, {}, 0)
  BY <1>2, <1>3 DEF Placed
<1>5. 0 <= MaxBrk /\ 0 % PAGESZ = 0
  BY RegionsAssumption
<1> QED
  BY <1>4, <1>5 DEF RegInv, RegionsInit

\* __alloc() with the free list as it is.
LEMMA AllocFoundInv ==
    ASSUME RegInv, NEW rgid \in RgId, NEW size \in Nat \ {0}, alloc_found(rgid, size)
    PROVE  RegInv'
<1> DEFINE k == first_fit(freerg_list, size)
<1>1. k \in 1 .. Len(freerg_list) /\ freerg_list[k].start + size <= freerg_list[k].end
  BY FirstFit DEF alloc_found
<1>2. Placed(freerg_list, symrgtbl, lost, sbrk)
  BY DEF RegInv
<1> HIDE DEF k
<1>3. Placed(take(freerg_list, k, size),
             [symrgtbl EXCEPT ![rgid] = Region(freerg_list[k].start,
                                               freerg_list[k].start + size)],
             lost \cup Bytes(symrgtbl[rgid]), sbrk)
  BY <1>1, <1>2, TakePlaced
<1>4. Placed(freerg_list', symrgtbl', lost', sbrk')
  BY <1>3 DEF alloc_found, commit, k
<1> QED
  BY <1>4 DEF RegInv, alloc_found

\* The second search cannot fail: the new pages are in one region of the list, and
\* are at least as large as the request.
LEMMA AllocGrownInv ==
    ASSUME RegInv, NEW rgid \in RgId, NEW size \in Nat \ {0}, alloc_grown(rgid, size)
    PROVE  RegInv'
<1> DEFINE inc == align(size)
           list == enlist_vm_freerg_list(freerg_list, Region(sbrk, sbrk + inc))
           k == first_fit(list, size)
<1>1. Placed(freerg_list, symrgtbl, lost, sbrk) /\ sbrk \in Nat
  BY DEF RegInv, Placed
<1>2. inc \in Nat /\ size <= inc /\ (sbrk + inc) % PAGESZ = 0
  <2>1. PAGESZ \in Nat \ {0} /\ size \in Nat
    BY RegionsAssumption
  <2>2. sbrk % PAGESZ = 0
    BY DEF RegInv
  <2> QED
    BY <2>1, <2>2, <1>1, AlignFacts DEF align
<1> HIDE DEF inc
<1>3. inc \in Nat \ {0}
  BY <1>2
<1>4. /\ Placed(list, symrgtbl, lost, sbrk + inc)
      /\ \E j \in 1 .. Len(list) : list[j].start <= sbrk /\ sbrk + inc <= list[j].end
  BY <1>1, <1>3, GrowPlaced
<1> HIDE DEF list
<1>5. PICK j \in 1 .. Len(list) : list[j].start <= sbrk /\ sbrk + inc <= list[j].end
  BY <1>4
<1>6. list[j].start + size <= list[j].end
  <2>1. list[j].start \in Nat /\ list[j].end \in Nat
    BY <1>4 DEF Placed, FreeList, Fits, Rg
  <2> QED
    BY <2>1, <1>1, <1>2, <1>5
<1>7. k \in 1 .. Len(list) /\ list[k].start + size <= list[k].end
  BY <1>5, <1>6, FirstFit
<1>8. k # 0
  <2>1. Len(list) \in Nat
    BY <1>4 DEF Placed, FreeList
  <2> QED
    BY <1>7, <2>1
<1> HIDE DEF k
<1>9. /\ sbrk + inc <= MaxBrk /\ sbrk' = sbrk + inc
      /\ commit(rgid, list, k, size)
      /\ starved' = starved
  BY <1>8 DEF alloc_grown, inc, list, k, RegInv
<1>10. Placed(take(list, k, size),
              [symrgtbl EXCEPT ![rgid] = Region(list[k].start, list[k].start + size)],
              lost \cup Bytes(symrgtbl[rgid]), sbrk + inc)
  BY <1>4, <1>7, TakePlaced
<1>11. Placed(freerg_list', symrgtbl', lost', sbrk')
  BY <1>9, <1>10 DEF commit
<1> QED
  BY <1>2, <1>9, <1>11 DEF RegInv

\* __free().
LEMMA FreeInv ==
    ASSUME RegInv, NEW rgid \in RgId, free(rgid)
    PROVE  RegInv'
<1>1. Placed(freerg_list', symrgtbl', lost', sbrk')
  BY FreePlaced DEF RegInv, free, allocated
<1> QED
  BY <1>1 DEF RegInv, free

\* RegInv is about the regions only.
LEMMA RegionsFrame == RegInv /\ UNCHANGED rvars => RegInv'
<1> SUFFICES ASSUME RegInv, UNCHANGED rvars PROVE RegInv'
  OBVIOUS
<1>1. Placed(freerg_list', symrgtbl', lost', sbrk')
  BY DEF RegInv, rvars
<1> QED
  BY <1>1 DEF RegInv, rvars

\* The regions of one process.
THEOREM RegionsInvariant == RegionsSpec => []RegInv
<1>1. ASSUME RegInv, [RegionsNext]_rvars PROVE RegInv'
  <2>1. CASE UNCHANGED rvars
    BY <1>1, <2>1, RegionsFrame
  <2>2. ASSUME NEW rgid \in RgId, free(rgid) PROVE RegInv'
    BY <1>1, <2>2, FreeInv
  <2>3. ASSUME NEW rgid \in RgId, NEW size \in 1 .. MaxSize,
               alloc_found(rgid, size) \/ alloc_grown(rgid, size)
        PROVE  RegInv'
    <3>1. size \in Nat \ {0}
      BY RegionsAssumption
    <3> QED
      BY <1>1, <2>3, <3>1, AllocFoundInv, AllocGrownInv
  <2> QED
    BY <1>1, <2>1, <2>2, <2>3 DEF RegionsNext
<1> QED
  BY <1>1, RegionsInitInv, PTL DEF RegionsSpec

-----------------------------------------------------------------------------
(* What the invariant implies *)

\* RegInv gives the types,
LEMMA InvTypes == RegInv => RegionsTypeOK
<1> SUFFICES ASSUME RegInv PROVE RegionsTypeOK
  OBVIOUS
<1>1. /\ sbrk \in Nat /\ FreeList(freerg_list, sbrk) /\ Table(symrgtbl, sbrk)
      /\ lost \subseteq 0 .. sbrk - 1
  BY DEF RegInv, Placed
<1>2. MaxBrk \in Nat
  BY RegionsAssumption
<1>3. sbrk \in 0 .. MaxBrk /\ sbrk % PAGESZ = 0
  BY <1>1, <1>2 DEF RegInv
<1>7. starved \in BOOLEAN
  BY Zenon DEF RegInv
<1>4. DOMAIN symrgtbl = RgId /\ DOMAIN freerg_list = 1 .. Len(freerg_list)
  BY <1>1 DEF Table, FreeList
<1>5. \A rg \in Range(freerg_list) \cup Range(symrgtbl) : Fits(rg, sbrk)
  BY <1>1, <1>4 DEF Range, FreeList, Table
<1>6. \A rg \in Range(freerg_list) \cup Range(symrgtbl) :
         rg.start \in 0 .. sbrk /\ rg.end \in rg.start .. sbrk
  BY <1>1, <1>5 DEF Fits, Rg
<1> QED
  BY <1>1, <1>3, <1>4, <1>6, <1>7, Zenon DEF RegionsTypeOK

\* one place for each byte: of the three sets at most one has an element, and no two,
LEMMA InvOnce == RegInv => EachByteOnce
<1> SUFFICES ASSUME RegInv, NEW b \in 0 .. sbrk - 1
             PROVE  Cardinality({k \in DOMAIN freerg_list : b \in Bytes(freerg_list[k])})
                      + Cardinality({i \in RgId : b \in Bytes(symrgtbl[i])})
                      + (IF b \in lost THEN 1 ELSE 0) = 1
  BY DEF EachByteOnce
<1> DEFINE K == {k \in DOMAIN freerg_list : b \in Bytes(freerg_list[k])}
           I == {i \in RgId : b \in Bytes(symrgtbl[i])}
           n == Len(freerg_list)
<1>1. /\ sbrk \in Nat /\ FreeList(freerg_list, sbrk) /\ Table(symrgtbl, sbrk)
      /\ InList(b, freerg_list) \/ InTable(b, symrgtbl) \/ b \in lost
      /\ ~ (InList(b, freerg_list) /\ InTable(b, symrgtbl))
      /\ b \in lost => ~ InList(b, freerg_list) /\ ~ InTable(b, symrgtbl)
  BY DEF RegInv, Placed
<1>2. b \in Nat
  BY <1>1
<1>3. \A r \in Rg : b \in Bytes(r) <=> In(b, r)
  BY <1>2 DEF Bytes, In, Rg
<1>4. DOMAIN freerg_list = 1 .. n /\ \A k \in 1 .. n : freerg_list[k] \in Rg
  BY <1>1 DEF FreeList
<1>5. \A i \in RgId : symrgtbl[i] \in Rg
  BY <1>1 DEF Table
<1>6. K = {k \in 1 .. n : In(b, freerg_list[k])}
  BY <1>3, <1>4
<1>7. I = {i \in RgId : In(b, symrgtbl[i])}
  BY <1>3, <1>5
<1> HIDE DEF K, I
<1>8. ASSUME NEW k \in K, NEW l \in K PROVE k = l
  <2>1. SUFFICES ASSUME k # l PROVE FALSE
    OBVIOUS
  <2>2. Apart(freerg_list[k], freerg_list[l])
    BY <1>1, <1>6, <2>1 DEF FreeList
  <2>3. In(b, freerg_list[k]) /\ In(b, freerg_list[l])
    BY <1>6
  <2>4. freerg_list[k] \in Rg /\ freerg_list[l] \in Rg
    BY <1>4, <1>6
  <2> QED
    BY <1>2, <2>2, <2>3, <2>4 DEF Apart, In, Rg
<1>9. ASSUME NEW i \in I, NEW j \in I PROVE i = j
  <2>1. SUFFICES ASSUME i # j PROVE FALSE
    OBVIOUS
  <2>2. Disjoint(symrgtbl[i], symrgtbl[j])
    BY <1>1, <1>7, <2>1 DEF Table
  <2>3. In(b, symrgtbl[i]) /\ In(b, symrgtbl[j])
    BY <1>7
  <2>4. symrgtbl[i] \in Rg /\ symrgtbl[j] \in Rg
    BY <1>5, <1>7
  <2> QED
    BY <1>2, <2>2, <2>3, <2>4 DEF Disjoint, In, Rg
<1>10. InList(b, freerg_list) <=> K # {}
  BY <1>6 DEF InList
<1>11. InTable(b, symrgtbl) <=> I # {}
  BY <1>7 DEF InTable
<1>12. Cardinality(K) = IF K = {} THEN 0 ELSE 1
  <2>1. CASE K = {}
    BY <2>1, FS_EmptySet
  <2>2. CASE K # {}
    <3>1. PICK k \in K : TRUE
      BY <2>2
    <3>2. K = {k}
      BY <1>8, <3>1
    <3>3. Cardinality({k}) = 1
      BY FS_Singleton, Zenon
    <3> QED
      BY <2>2, <3>2, <3>3
  <2> QED
    BY <2>1, <2>2
<1>13. Cardinality(I) = IF I = {} THEN 0 ELSE 1
  <2>1. CASE I = {}
    BY <2>1, FS_EmptySet
  <2>2. CASE I # {}
    <3>1. PICK i \in I : TRUE
      BY <2>2
    <3>2. I = {i}
      BY <1>9, <3>1
    <3>3. Cardinality({i}) = 1
      BY FS_Singleton, Zenon
    <3> QED
      BY <2>2, <3>2, <3>3
  <2> QED
    BY <2>1, <2>2
<1>14. Cardinality(K) + Cardinality(I) + (IF b \in lost THEN 1 ELSE 0) = 1
  BY <1>1, <1>10, <1>11, <1>12, <1>13
<1> QED
  BY <1>14 DEF K, I

\* free regions that do not touch,
LEMMA InvCoalesced == RegInv => Coalesced
<1> SUFFICES ASSUME RegInv, NEW k \in DOMAIN freerg_list, NEW l \in DOMAIN freerg_list,
                    k # l
             PROVE  freerg_list[k].end # freerg_list[l].start
  BY DEF Coalesced
<1> DEFINE r == freerg_list[k]
           s == freerg_list[l]
<1>1. FreeList(freerg_list, sbrk)
  BY DEF RegInv, Placed
<1>2. k \in 1 .. Len(freerg_list) /\ l \in 1 .. Len(freerg_list)
  BY <1>1 DEF FreeList
<1>3. Apart(r, s) /\ Fits(r, sbrk) /\ Fits(s, sbrk)
  BY <1>1, <1>2 DEF FreeList
<1> HIDE DEF r, s
<1>4. r.end # s.start
  BY <1>3 DEF Apart, Fits, Rg
<1> QED
  BY <1>4 DEF r, s

\* and a bounds check that is tight.
LEMMA InvAccess == RegInv => AccessStaysInside
<1> SUFFICES ASSUME RegInv, NEW i \in RgId, NEW offset \in -1 .. MaxBrk,
                    in_region(symrgtbl[i], offset)
             PROVE  LET addr == symrgtbl[i].start + offset
                    IN  /\ addr \in 0 .. sbrk - 1
                        /\ \A j \in RgId \ {i} : addr \notin Bytes(symrgtbl[j])
                        /\ \A k \in DOMAIN freerg_list :
                              addr \notin Bytes(freerg_list[k])
  BY DEF AccessStaysInside
<1> DEFINE addr == symrgtbl[i].start + offset
<1>1. /\ sbrk \in Nat /\ FreeList(freerg_list, sbrk) /\ Table(symrgtbl, sbrk)
      /\ \A b \in 0 .. sbrk - 1 : ~ (InList(b, freerg_list) /\ InTable(b, symrgtbl))
  BY DEF RegInv, Placed
<1>2. MaxBrk \in Nat
  BY RegionsAssumption
<1>3. \A j \in RgId : symrgtbl[j] \in Rg /\ Fits(symrgtbl[j], sbrk)
  BY <1>1 DEF Table, Fits
<1>4. addr \in Nat /\ In(addr, symrgtbl[i])
  BY <1>2, <1>3 DEF in_region, In, Rg
<1> HIDE DEF addr
<1>5. addr \in 0 .. sbrk - 1
  BY <1>1, <1>3, <1>4, InArea
<1>6. \A r \in Rg : addr \in Bytes(r) => In(addr, r)
  BY <1>4 DEF Bytes, In, Rg
<1>7. ASSUME NEW j \in RgId \ {i} PROVE addr \notin Bytes(symrgtbl[j])
  <2>1. Disjoint(symrgtbl[i], symrgtbl[j])
    BY <1>1 DEF Table
  <2>2. ~ In(addr, symrgtbl[j])
    BY <2>1, <1>3, <1>4, DisjointBytes
  <2> QED
    BY <2>2, <1>3, <1>6
<1>8. ASSUME NEW k \in DOMAIN freerg_list PROVE addr \notin Bytes(freerg_list[k])
  <2>1. k \in 1 .. Len(freerg_list) /\ freerg_list[k] \in Rg
    BY <1>1 DEF FreeList
  <2>2. InTable(addr, symrgtbl)
    BY <1>4 DEF InTable
  <2>3. ~ InList(addr, freerg_list)
    BY <2>2, <1>1, <1>5
  <2>4. ~ In(addr, freerg_list[k])
    BY <2>1, <2>3 DEF InList
  <2> QED
    BY <2>1, <2>4, <1>6
<1> QED
  BY <1>5, <1>7, <1>8 DEF addr

\* Regions lie within the area and are not inverted; the area is whole pages.
THEOREM RegionsTypes == RegionsSpec => []RegionsTypeOK
  BY RegionsInvariant, InvTypes, PTL

\* However __alloc splits regions and __free merges them, each byte of the area is in
\* exactly one place.
THEOREM ByteOnce == RegionsSpec => []EachByteOnce
  BY RegionsInvariant, InvOnce, PTL

\* One pass of enlist_vm_freerg_list leaves no two free regions that touch.
THEOREM FreeIsCoalesced == RegionsSpec => []Coalesced
  BY RegionsInvariant, InvCoalesced, PTL

\* An allocation for which inc_vma_limit got frames finds room.
THEOREM GrowthIsEnough == RegionsSpec => []GrowthSuffices
<1>1. RegInv => GrowthSuffices
  BY DEF RegInv, GrowthSuffices
<1> QED
  BY <1>1, RegionsInvariant, PTL

\* What passes the bounds check of __read and __write is a byte of that region only.
THEOREM AccessIsInside == RegionsSpec => []AccessStaysInside
  BY RegionsInvariant, InvAccess, PTL

-----------------------------------------------------------------------------
(* The regions of an address space with its page table and devices         *)

\* All of this holds of every process in the whole address space, on the devices
\* that earlier processes have left: there an area grows only if there are frames.
THEOREM MemoryRegions ==
    MemorySpec => [](/\ RegionsTypeOK /\ EachByteOnce /\ Coalesced
                     /\ GrowthSuffices /\ AccessStaysInside)
<1>1. MemoryInit => RegInv
  BY RegionsInitInv DEF MemoryInit
<1>2. ASSUME RegInv, [MemoryNext]_mvars PROVE RegInv'
  <2>1. CASE UNCHANGED mvars
    BY <1>2, <2>1, RegionsFrame DEF mvars
  <2>2. CASE free_pcb
    <3>1. /\ freerg_list' = <<Empty>> /\ symrgtbl' = [i \in RgId |-> Empty]
          /\ sbrk' = 0 /\ lost' = {} /\ starved' = FALSE
      BY <1>2, <2>2 DEF free_pcb, RegInv
    <3>2. RegionsInit'
      BY <3>1 DEF RegionsInit
    <3>3. RegionsInit' => RegInv'
      BY RegionsInitInv, PTL
    <3> QED
      BY <3>2, <3>3
  <2>3. ASSUME NEW rgid \in RgId, free_region(rgid) PROVE RegInv'
    BY <1>2, <2>3, FreeInv DEF free_region
  <2>4. ASSUME NEW rgid \in RgId, NEW size \in Sizes,
               \/ alloc_from_list(rgid, size)
               \/ alloc_with_frames(rgid, size)
               \/ alloc_without_frames(rgid, size)
        PROVE  RegInv'
    <3>1. size \in Nat \ {0}
      BY MemoryAssumption, RegionsAssumption
    <3>2. CASE alloc_from_list(rgid, size)
      BY <1>2, <3>1, <3>2, AllocFoundInv DEF alloc_from_list
    <3>3. CASE alloc_with_frames(rgid, size)
      BY <1>2, <3>1, <3>3, AllocGrownInv DEF alloc_with_frames
    <3>4. CASE alloc_without_frames(rgid, size)
      BY <1>2, <3>4, RegionsFrame DEF alloc_without_frames
    <3> QED
      BY <2>4, <3>2, <3>3, <3>4
  <2>5. ASSUME NEW rgid \in RgId, NEW offset \in 0 .. MaxSize - 1,
               read(rgid, offset) \/ write(rgid, offset, writes + 1)
        PROVE  RegInv'
    BY <1>2, <2>5, RegionsFrame DEF read, write
  <2> QED
    BY <1>2, <2>1, <2>2, <2>3, <2>4, <2>5 DEF MemoryNext
<1>3. RegInv => /\ RegionsTypeOK /\ EachByteOnce /\ Coalesced
                /\ GrowthSuffices /\ AccessStaysInside
  BY InvTypes, InvOnce, InvCoalesced, InvAccess DEF RegInv, GrowthSuffices
<1> QED
  BY <1>1, <1>2, <1>3, PTL DEF MemorySpec

-----------------------------------------------------------------------------
(* What the fields of a page table entry hold after it has been set.       *)

\* The bits pte_set_fpn and pte_set_swap ever set; an entry starts as 0 in init_mm.
UsedBits == (0 .. 25) \cup {30, 31}

\* pte_set_fpn: the entry says online, and holds the frame number as far as its 13
\* bits go, whatever the entry was before.
THEOREM FpnRoundTrip ==
    ASSUME NEW pte \in Word, NEW fpn \in Word
    PROVE  LET e == pte_set_fpn(pte, fpn)
           IN  /\ e \in Word
               /\ PAGE_PRESENT(e) /\ ~ PAGE_SWAPPED(e)
               /\ PAGING_FPN(e) = fpn \cap 0 .. 12
<1> DEFINE e == pte_set_fpn(pte, fpn)
<1> USE DEF pte_set_fpn, SETVAL, SETBIT, CLRBIT, Shl, Word, BitPos, GENMASK,
            PRESENT_MASK, SWAPPED_MASK, FPN_MASK, SWPOFF_MASK
<1>1. e \in Word
  <2>1. ASSUME NEW b \in e PROVE b \in 0 .. 31
    BY <2>1
  <2> HIDE DEF e
  <2> QED
    BY <2>1 DEF Word, BitPos
<1>2. PAGE_PRESENT(e)
  BY DEF PAGE_PRESENT
<1>3. ~ PAGE_SWAPPED(e)
  BY DEF PAGE_SWAPPED
<1>4. PAGING_FPN(e) = fpn \cap 0 .. 12
  BY DEF PAGING_FPN, GETVAL, Shr
<1> QED
  BY <1>1, <1>2, <1>3, <1>4

\* pte_set_swap: the entry says swapped, and holds the number of the swap device
\* and of the frame on it as far as their 5 and 21 bits go, although the two fields
\* lie over the field of the frame in RAM.
THEOREM SwapRoundTrip ==
    ASSUME NEW pte \in Word, NEW swptyp \in Word, NEW swpoff \in Word
    PROVE  LET e == pte_set_swap(pte, swptyp, swpoff)
           IN  /\ e \in Word
               /\ PAGE_PRESENT(e) /\ PAGE_SWAPPED(e)
               /\ PAGING_PTE_SWPTYP(e) = swptyp \cap 0 .. 4
               /\ PAGING_PTE_SWP(e) = swpoff \cap 0 .. 20
<1> DEFINE e == pte_set_swap(pte, swptyp, swpoff)
<1> USE DEF pte_set_swap, SETVAL, SETBIT, Shl, Word, BitPos, GENMASK,
            PRESENT_MASK, SWAPPED_MASK, SWPTYP_MASK, SWPOFF_MASK
<1>1. e \in Word
  <2>1. ASSUME NEW b \in e PROVE b \in 0 .. 31
    BY <2>1
  <2> HIDE DEF e
  <2> QED
    BY <2>1 DEF Word, BitPos
<1>2. PAGE_PRESENT(e)
  BY DEF PAGE_PRESENT
<1>3. PAGE_SWAPPED(e)
  BY DEF PAGE_SWAPPED
<1>4. PAGING_PTE_SWPTYP(e) = swptyp \cap 0 .. 4
  BY DEF PAGING_PTE_SWPTYP, GETVAL, Shr
<1>5. PAGING_PTE_SWP(e) = swpoff \cap 0 .. 20
  BY DEF PAGING_PTE_SWP, GETVAL, Shr
<1> QED
  BY <1>1, <1>2, <1>3, <1>4, <1>5

\* No bit of an earlier state survives: a page that went to swap and came back has
\* the entry of a page that was never away, and the other way round.
THEOREM NoStaleBits ==
    ASSUME NEW pte \in SUBSET UsedBits, NEW fpn \in Word,
           NEW swptyp \in Word, NEW swpoff \in Word
    PROVE  /\ pte_set_fpn(pte, fpn) = {31} \cup (fpn \cap 0 .. 12)
           /\ pte_set_swap(pte, swptyp, swpoff)
                 = {30, 31} \cup (swptyp \cap 0 .. 4)
                      \cup {b \in 5 .. 25 : b - 5 \in swpoff}
<1> USE DEF SETVAL, SETBIT, CLRBIT, Shl, Word, BitPos, GENMASK,
            PRESENT_MASK, SWAPPED_MASK, SWPTYP_MASK, SWPOFF_MASK, FPN_MASK
<1>1. \A b \in pte : b \in 0 .. 25 \/ b = 30 \/ b = 31
  BY DEF UsedBits
<1>2. pte_set_fpn(pte, fpn) = {31} \cup (fpn \cap 0 .. 12)
  <2>1. ASSUME NEW b \in pte_set_fpn(pte, fpn) PROVE b \in {31} \cup (fpn \cap 0 .. 12)
    BY <1>1, <2>1 DEF pte_set_fpn
  <2>2. ASSUME NEW b \in {31} \cup (fpn \cap 0 .. 12) PROVE b \in pte_set_fpn(pte, fpn)
    BY <2>2 DEF pte_set_fpn
  <2> QED
    BY ONLY <2>1, <2>2
<1>3. pte_set_swap(pte, swptyp, swpoff)
         = {30, 31} \cup (swptyp \cap 0 .. 4) \cup {b \in 5 .. 25 : b - 5 \in swpoff}
  <2> DEFINE old == pte_set_swap(pte, swptyp, swpoff)
             new == {30, 31} \cup (swptyp \cap 0 .. 4)
                       \cup {b \in 5 .. 25 : b - 5 \in swpoff}
  <2>1. ASSUME NEW b \in old PROVE b \in new
    BY <1>1, <2>1 DEF pte_set_swap
  <2>2. ASSUME NEW b \in new PROVE b \in old
    BY <2>2 DEF pte_set_swap
  <2> HIDE DEF old, new
  <2>3. old = new
    BY ONLY <2>1, <2>2
  <2> QED
    BY ONLY <2>3 DEF old, new
<1> QED
  BY <1>2, <1>3
=============================================================================
