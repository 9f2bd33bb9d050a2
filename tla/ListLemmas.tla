---------------------------- MODULE ListLemmas ----------------------------
(* What taking an element out of a list or putting one in does to it.      *)
EXTENDS Lists, Integers, TLAPS

LEMMA NothingInEmpty == \A p : ~ InQueue(<<>>, p)
  BY DEF InQueue

\* Taking the head out of a queue without duplicates.
LEMMA TailFacts ==
    ASSUME NEW S, NEW q \in Seq(S), q # <<>>, NoDuplicates(q)
    PROVE  /\ Head(q) \in S
           /\ InQueue(q, Head(q))
           /\ Tail(q) \in Seq(S)
           /\ Len(Tail(q)) = Len(q) - 1
           /\ NoDuplicates(Tail(q))
           /\ \A x : InQueue(Tail(q), x) => InQueue(q, x) /\ x # Head(q)
<1>1. Len(q) \in Nat /\ Len(q) >= 1 /\ Head(q) = q[1] /\ Head(q) \in S
  OBVIOUS
<1>2. /\ Tail(q) \in Seq(S)
      /\ Len(Tail(q)) = Len(q) - 1
      /\ \A k \in 1 .. Len(Tail(q)) : Tail(q)[k] = q[k + 1]
  OBVIOUS
<1> QED
  BY <1>1, <1>2 DEF InQueue, NoDuplicates

\* The tail holds all the others.
LEMMA TailRest ==
    ASSUME NEW S, NEW q \in Seq(S), q # <<>>, NEW x, InQueue(q, x), x # Head(q)
    PROVE  InQueue(Tail(q), x)
<1>1. Len(q) \in Nat /\ Len(q) >= 1 /\ Head(q) = q[1]
  OBVIOUS
<1>2. /\ Len(Tail(q)) = Len(q) - 1
      /\ \A k \in 1 .. Len(Tail(q)) : Tail(q)[k] = q[k + 1]
  OBVIOUS
<1>3. PICK k \in 1 .. Len(q) : q[k] = x
  BY DEF InQueue
<1>4. k - 1 \in 1 .. Len(Tail(q)) /\ (k - 1) + 1 = k
  BY <1>1, <1>2, <1>3
<1> QED
  BY <1>2, <1>3, <1>4 DEF InQueue

\* Putting an element behind the others.
LEMMA AppendFacts ==
    ASSUME NEW S, NEW q \in Seq(S), NEW p \in S
    PROVE  /\ Append(q, p) \in Seq(S)
           /\ Len(Append(q, p)) = Len(q) + 1
           /\ \A x : InQueue(Append(q, p), x) => x = p \/ InQueue(q, x)
           /\ NoDuplicates(q) /\ ~ InQueue(q, p) => NoDuplicates(Append(q, p))
<1>1. /\ Append(q, p) \in Seq(S)
      /\ Len(Append(q, p)) = Len(q) + 1
      /\ \A k \in 1 .. Len(q) : Append(q, p)[k] = q[k]
      /\ Append(q, p)[Len(q) + 1] = p
  OBVIOUS
<1> QED
  BY <1>1 DEF InQueue, NoDuplicates

\* Putting one list behind another.
LEMMA ConcatFacts ==
    ASSUME NEW S, NEW a \in Seq(S), NEW b \in Seq(S)
    PROVE  a \o b \in Seq(S) /\ Len(a \o b) = Len(a) + Len(b)
  OBVIOUS

\* Putting an element at the head, as put_freefp and enlist_pgn_node do.
LEMMA ConsFacts ==
    ASSUME NEW S, NEW q \in Seq(S), NEW e \in S
    PROVE  /\ <<e>> \o q \in Seq(S)
           /\ Len(<<e>> \o q) = Len(q) + 1
           /\ <<e>> \o q # <<>> /\ Head(<<e>> \o q) = e
           /\ \A x : InQueue(<<e>> \o q, x) <=> x = e \/ InQueue(q, x)
           /\ NoDuplicates(q) /\ ~ InQueue(q, e) => NoDuplicates(<<e>> \o q)
<1> DEFINE r == <<e>> \o q
<1>1. /\ r \in Seq(S) /\ Len(r) = Len(q) + 1 /\ r[1] = e
      /\ \A k \in 1 .. Len(q) : r[k + 1] = q[k]
  OBVIOUS
<1>2. \A k \in 2 .. Len(r) : k - 1 \in 1 .. Len(q) /\ r[k] = q[k - 1]
  BY <1>1
<1>3. Len(q) \in Nat
  OBVIOUS
<1>4. r # <<>> /\ Head(r) = e
  BY <1>1, <1>3
<1> HIDE DEF r
<1>5. \A x : InQueue(r, x) <=> x = e \/ InQueue(q, x)
  <2>1. ASSUME NEW x, InQueue(r, x) PROVE x = e \/ InQueue(q, x)
    <3>1. PICK k \in 1 .. Len(r) : r[k] = x
      BY <2>1 DEF InQueue
    <3>2. k = 1 \/ k \in 2 .. Len(r)
      BY <1>1, <1>3
    <3> QED
      BY <1>1, <1>2, <3>1, <3>2 DEF InQueue
  <2>2. InQueue(r, e)
    BY <1>1, <1>3 DEF InQueue
  <2>3. ASSUME NEW x, InQueue(q, x) PROVE InQueue(r, x)
    <3>1. PICK k \in 1 .. Len(q) : q[k] = x
      BY <2>3 DEF InQueue
    <3>2. k + 1 \in 1 .. Len(r) /\ r[k + 1] = x
      BY <1>1, <1>3, <3>1
    <3> QED
      BY <3>2 DEF InQueue
  <2> QED
    BY <2>1, <2>2, <2>3
<1>6. ASSUME NoDuplicates(q), ~ InQueue(q, e) PROVE NoDuplicates(r)
  <2>1. SUFFICES ASSUME NEW k \in 1 .. Len(r), NEW l \in 1 .. Len(r), r[k] = r[l]
                 PROVE  k = l
    BY DEF NoDuplicates
  <2>2. (k = 1 \/ k \in 2 .. Len(r)) /\ (l = 1 \/ l \in 2 .. Len(r))
    BY <1>1, <1>3
  <2>3. \A i \in 1 .. Len(q) : q[i] # e
    BY <1>6 DEF InQueue
  <2>4. CASE k \in 2 .. Len(r) /\ l \in 2 .. Len(r)
    <3>1. q[k - 1] = q[l - 1] /\ k - 1 \in 1 .. Len(q) /\ l - 1 \in 1 .. Len(q)
      BY <1>2, <2>1, <2>4
    <3>2. k - 1 = l - 1
      BY <1>6, <3>1 DEF NoDuplicates
    <3> QED
      BY <1>1, <1>3, <3>2
  <2> QED
    BY <1>1, <1>2, <2>1, <2>2, <2>3, <2>4
<1> QED
  BY <1>1, <1>4, <1>5, <1>6 DEF r

\* Taking the last element out, as find_victim_page does.
LEMMA FrontFacts ==
    ASSUME NEW S, NEW q \in Seq(S), q # <<>>, NoDuplicates(q)
    PROVE  /\ q[Len(q)] \in S /\ InQueue(q, q[Len(q)])
           /\ SubSeq(q, 1, Len(q) - 1) \in Seq(S)
           /\ NoDuplicates(SubSeq(q, 1, Len(q) - 1))
           /\ \A x : InQueue(SubSeq(q, 1, Len(q) - 1), x)
                        <=> InQueue(q, x) /\ x # q[Len(q)]
<1> DEFINE n == Len(q)
           r == SubSeq(q, 1, n - 1)
<1>1. n \in Nat \ {0}
  OBVIOUS
<1>2. /\ r \in Seq(S) /\ Len(r) = n - 1
      /\ \A k \in 1 .. n - 1 : r[k] = q[k]
  <2>1. 1 \in Int /\ n - 1 \in Int /\ \A k \in 1 .. n - 1 : q[k] \in S
    BY <1>1
  <2>2. /\ r \in Seq(S)
        /\ Len(r) = IF 1 <= n - 1 THEN (n - 1) - 1 + 1 ELSE 0
        /\ \A k \in 1 .. (n - 1) - 1 + 1 : r[k] = q[1 + k - 1]
    BY <2>1
  <2> HIDE DEF n, r
  <2> QED
    BY <1>1, <2>2
<1>3. n \in 1 .. n /\ q[n] \in S /\ \A k \in 1 .. n : k = n \/ k \in 1 .. n - 1
  BY <1>1
<1> HIDE DEF r
<1>4. InQueue(q, q[n])
  BY <1>3 DEF InQueue
<1>5. NoDuplicates(r)
  <2>1. SUFFICES ASSUME NEW k \in 1 .. n - 1, NEW l \in 1 .. n - 1, q[k] = q[l]
                 PROVE  k = l
    BY <1>2 DEF NoDuplicates
  <2>2. k \in 1 .. n /\ l \in 1 .. n
    BY <1>1
  <2> QED
    BY <2>1, <2>2 DEF NoDuplicates
<1>6. ASSUME NEW x PROVE InQueue(r, x) <=> InQueue(q, x) /\ x # q[n]
  <2>1. ASSUME InQueue(r, x) PROVE InQueue(q, x) /\ x # q[n]
    <3>1. PICK k \in 1 .. n - 1 : r[k] = x
      BY <1>2, <2>1 DEF InQueue
    <3>2. q[k] = x /\ k \in 1 .. n /\ k # n
      BY <1>1, <1>2, <3>1
    <3> QED
      BY <1>3, <3>2 DEF InQueue, NoDuplicates
  <2>2. ASSUME InQueue(q, x), x # q[n] PROVE InQueue(r, x)
    BY <1>2, <1>3, <2>2 DEF InQueue
  <2> QED
    BY <2>1, <2>2
<1> QED
  BY <1>2, <1>3, <1>4, <1>5, <1>6 DEF r
=============================================================================
