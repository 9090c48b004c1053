--------------------------- MODULE PageWalkProofs ---------------------------
(***************************************************************************)
(* What get_page_entry(), map_page() and unmap_page() do to the tables,    *)
(* the heap the tables come from and the translation cache, for any page   *)
(* and any tables.                                                         *)
(***************************************************************************)
EXTENDS PageTableProofs

(* The heap.                                                               *)
End == (HHDM + HeapEnd) * UNIT

(* The frame kmalloc_az() finds for a table.                               *)
NextFrame(pa) == virt_to_phys(PageAlign(pa) \div UNIT)

(* Multiplying by the size of a page.                                      *)
LEMMA Multiples ==
  ASSUME NEW a \in Int, NEW b \in Int, NEW u \in Nat \ {0}
  PROVE  /\ a * u <= b * u <=> a <= b
         /\ (a + b) * u = a * u + b * u
         /\ (a + 1) * u = a * u + u
         /\ a * u \in Int
OBVIOUS

(* Rounding up to a page (kheap.c:14-17).                                  *)
LEMMA Aligned ==
  ASSUME NEW pa \in Nat
  PROVE  /\ PageAlign(pa) \in Nat /\ pa <= PageAlign(pa) /\ PageAlign(pa) < pa + UNIT
         /\ PageAlign(pa) = (PageAlign(pa) \div UNIT) * UNIT /\ PageAlign(pa) \div UNIT \in Nat
         /\ PageAlign(pa) % UNIT = 0
         /\ \A b \in Nat : pa <= b * UNIT => PageAlign(pa) <= b * UNIT
<1> DEFINE q == pa \div UNIT
           r == pa % UNIT
           z == IF r # 0 THEN q + 1 ELSE q
<1>0. UNIT \in Nat \ {0}
  BY PagingAssumption, Zenon
<1>1. pa = UNIT * q + r /\ r \in 0 .. UNIT - 1 /\ q \in Nat
  BY <1>0, DivMod, Zenon
<1>2. PageAlign(pa) = IF r # 0 THEN (q + 1) * UNIT ELSE pa
  BY Zenon DEF PageAlign
<1> HIDE DEF q, r
<1>3. z \in Nat /\ PageAlign(pa) = UNIT * z + 0 /\ UNIT * z = z * UNIT /\ UNIT * (q + 1) = UNIT * q + UNIT
  BY <1>0, <1>1, <1>2
<1>4. 0 \in 0 .. UNIT - 1
  BY <1>0
<1>5. (UNIT * z + 0) \div UNIT = z /\ (UNIT * z + 0) % UNIT = 0
  <2> HIDE DEF z
  <2> QED
    BY <1>0, <1>3, <1>4, DivUnique, Zenon
<1>6. PageAlign(pa) \div UNIT = z /\ PageAlign(pa) % UNIT = 0 /\ PageAlign(pa) = z * UNIT
  <2> HIDE DEF z
  <2>1. UNIT * z \in Nat
    BY <1>0, <1>3
  <2> QED
    BY <1>3, <1>5, <2>1
<1>7. PageAlign(pa) \in Nat /\ pa <= PageAlign(pa) /\ PageAlign(pa) < pa + UNIT
  BY <1>0, <1>1, <1>2, <1>3
<1>8. ASSUME NEW b \in Nat, pa <= b * UNIT PROVE PageAlign(pa) <= b * UNIT
  <2>1. CASE r = 0
    BY <1>2, <1>8, <2>1, Zenon
  <2>2. CASE r # 0
    <3>1. q * UNIT < b * UNIT /\ q * UNIT = UNIT * q /\ q * UNIT \in Nat /\ b * UNIT \in Nat
      BY <1>0, <1>1, <1>8, <2>2
    <3>2. ~(b * UNIT <= q * UNIT)
      BY <3>1
    <3>3. ~(b <= q)
      BY <1>0, <1>1, <3>2, Multiples
    <3>4. q + 1 <= b /\ q + 1 \in Int
      BY <1>1, <3>3
    <3>5. (q + 1) * UNIT <= b * UNIT
      BY <1>0, <3>4, Multiples
    <3> QED
      BY <1>2, <2>2, <3>5, Zenon
  <2> QED
    BY <2>1, <2>2, Zenon
<1> QED
  BY <1>3, <1>6, <1>7, <1>8, Zenon

(* A table's frame lies in the heap, and its page after all that was       *)
(* handed out.                                                             *)
LEMMA FrameIs ==
  ASSUME NEW pa \in Nat, (HHDM + 1) * UNIT <= pa, PageAlign(pa) + UNIT <= End
  PROVE  /\ NextFrame(pa) \in 1 .. HeapEnd - 1 /\ NextFrame(pa) < NFrames
         /\ (HHDM + NextFrame(pa)) * UNIT = PageAlign(pa)
         /\ (HHDM + NextFrame(pa) + 1) * UNIT = PageAlign(pa) + UNIT
         /\ pa <= (HHDM + NextFrame(pa)) * UNIT
<1> DEFINE q == PageAlign(pa) \div UNIT
           f == NextFrame(pa)
<1>0. /\ UNIT \in Nat \ {0} /\ HHDM \in Nat /\ HeapEnd \in Nat /\ HeapEnd <= NFrames /\ NFrames \in Nat
      /\ HHDM + NFrames <= KVIRT /\ KVIRT \in Nat
  BY PagingAssumption
<1>1. PageAlign(pa) = q * UNIT /\ q \in Nat /\ pa <= PageAlign(pa) /\ PageAlign(pa) \in Nat
  BY Aligned, Zenon
<1> HIDE DEF q
<1>2. (HHDM + 1) * UNIT <= q * UNIT
  <2>1. (HHDM + 1) * UNIT \in Nat
    BY <1>0
  <2> QED
    BY <1>1, <2>1
<1>3. HHDM + 1 <= q
  BY <1>0, <1>1, <1>2, Multiples
<1>4. (q + 1) * UNIT <= (HHDM + HeapEnd) * UNIT
  <2>1. (q + 1) * UNIT = q * UNIT + UNIT
    BY <1>0, <1>1, Multiples
  <2> QED
    BY <1>1, <2>1, Zenon DEF End
<1>5. q + 1 <= HHDM + HeapEnd
  <2>1. q + 1 \in Int /\ HHDM + HeapEnd \in Int
    BY <1>0, <1>1
  <2> QED
    BY <1>0, <1>4, <2>1, Multiples, Zenon
<1>6. q < KVIRT
  BY <1>0, <1>1, <1>5
<1>7. f = q - HHDM
  BY <1>0, <1>1, <1>6 DEF NextFrame, virt_to_phys, q
<1> HIDE DEF f
<1>8. f \in 1 .. HeapEnd - 1 /\ f < NFrames /\ HHDM + f = q
  BY <1>0, <1>1, <1>3, <1>5, <1>7
<1>9. (q + 1) * UNIT = PageAlign(pa) + UNIT
  BY <1>0, <1>1, Multiples
<1> QED
  BY <1>1, <1>8, <1>9, Zenon DEF f
-----------------------------------------------------------------------------
(* The states get_page_entry() threads.                                    *)
Walking(m, pa, t, at) == [m |-> m, pa |-> pa, t |-> t, at |-> at]

StepOf(l) == IF l = 2 THEN 1 ELSE 4

(* split_huge_entry() makes a table of the pieces.                         *)
LEMMA SplitIs ==
  ASSUME NEW s, NEW h, NEW l \in 2 .. 3
  PROVE  split_huge_entry(s, h, StepOf(l)) = NewTable(s, Pieces(h, l))
<1>1. /\ (IF StepOf(l) = 1 THEN 4 ELSE NFrames \div 8) = (IF l = 2 THEN 4 ELSE NFrames \div 8)
      /\ (StepOf(l) # 1) = (l # 2)
  BY DEF StepOf
<1> QED
  BY <1>1, Zenon DEF split_huge_entry, Pieces, StepOf

(* One level of the walk, by cases (paging.c:76-104).                      *)
LEMMA DownNull ==
  ASSUME NEW m, NEW pa, NEW t, NEW at, NEW i, NEW create, NEW step,
         at = NULL_TABLE \/ (~m[at][i].present /\ ~create)
  PROVE  Down(Walking(m, pa, t, at), i, create, step, cr3) = Walking(m, pa, t, NULL_TABLE)
<1> DEFINE s == Walking(m, pa, t, at)
<1>1. s.m = m /\ s.pa = pa /\ s.t = t /\ s.at = at
  BY Zenon DEF Walking
<1>2. Down(s, i, create, step, cr3) = [s EXCEPT !.at = NULL_TABLE]
  <2> HIDE DEF s
  <2> QED
    BY <1>1, Zenon DEF Down
<1> QED
  BY <1>2, Zenon DEF Walking

(* One level of get_page_entry() (vmm.c): a table is there.                *)
LEMMA DownOver ==
  ASSUME NEW m, NEW pa, NEW t, NEW at, NEW i, NEW create, NEW step,
         at # NULL_TABLE, m[at][i].present, ~m[at][i].ps
  PROVE  Down(Walking(m, pa, t, at), i, create, step, cr3) = Walking(m, pa, t, m[at][i].f)
<1> DEFINE s == Walking(m, pa, t, at)
<1>1. s.m = m /\ s.pa = pa /\ s.t = t /\ s.at = at
  BY Zenon DEF Walking
<1>2. Down(s, i, create, step, cr3) = [s EXCEPT !.at = m[at][i].f]
  <2> HIDE DEF s
  <2> QED
    BY <1>1, Zenon DEF Down
<1> QED
  BY <1>2, Zenon DEF Walking

(* A new table.                                                            *)
LEMMA NewTableIs ==
  ASSUME NEW m, NEW pa, NEW t, NEW at, NEW ents
  PROVE  NewTable(Walking(m, pa, t, at), ents) =
           Walking(Bigger(m, NextFrame(pa), ents), PageAlign(pa) + UNIT, t, NextFrame(pa))
BY Zenon DEF NewTable, Bigger, kmalloc_az, kmalloc_a, kmalloc, Walking, NextFrame

(* None is there, and one is made: a frame from the heap, linked to the    *)
(* entry.                                                                  *)
LEMMA DownNew ==
  ASSUME NEW m, NEW pa, NEW t, NEW at, NEW i, NEW create, NEW step,
         at # NULL_TABLE, ~m[at][i].present, create
  PROVE  Down(Walking(m, pa, t, at), i, create, step, cr3) =
           Walking(Link(m, at, i, NextFrame(pa), EmptyTable, Entry(NextFrame(pa), FALSE, TRUE, FALSE)),
                   PageAlign(pa) + UNIT, t, NextFrame(pa))
<1> DEFINE s == Walking(m, pa, t, at)
           f == NextFrame(pa)
           e == Entry(f, FALSE, TRUE, FALSE)
           b == Bigger(m, f, EmptyTable)
           new == NewTable(s, EmptyTable)
<1>1. s.m = m /\ s.pa = pa /\ s.t = t /\ s.at = at
  BY Zenon DEF Walking
<1>2. new = Walking(b, PageAlign(pa) + UNIT, t, f)
  BY NewTableIs
<1>3. new.at = f
  BY <1>2 DEF Walking
<1>4. Down(s, i, create, step, cr3) = [new EXCEPT !.m[at][i] = e]
  <2>1. Down(s, i, create, step, cr3) = [new EXCEPT !.m[s.at][i] = Entry(new.at, FALSE, TRUE, FALSE)]
    <3> HIDE DEF s
    <3> QED
      BY <1>1, Zenon DEF Down
  <2> QED
    BY <1>1, <1>3, <2>1, Zenon
<1> HIDE DEF s, f, e, b, new
<1>5. [new EXCEPT !.m[at][i] = e] = Walking([b EXCEPT ![at][i] = e], PageAlign(pa) + UNIT, t, f)
  BY <1>2 DEF Walking
<1>6. [b EXCEPT ![at][i] = e] = Link(m, at, i, f, EmptyTable, e)
  BY Zenon DEF Link, b
<1> QED
  BY <1>4, <1>5, <1>6, Zenon DEF s, f, e

(* A huge page is there, and is split: the pieces go into a frame from the *)
(* heap, and everything cached is flushed.                                 *)
LEMMA DownSplit ==
  ASSUME NEW m, NEW pa, NEW t, NEW at, NEW i, NEW create, NEW l \in 2 .. 3,
         at # NULL_TABLE, NEW h, IsHuge(h, m, at, i)
  PROVE  Down(Walking(m, pa, t, at), i, create, StepOf(l), cr3) =
           Walking(Link(m, at, i, NextFrame(pa), Pieces(h, l), ForPieces(h, NextFrame(pa))),
                   PageAlign(pa) + UNIT, FlushAll, NextFrame(pa))
<1> DEFINE s == Walking(m, pa, t, at)
           f == NextFrame(pa)
           p == Pieces(h, l)
           e == ForPieces(h, f)
           b == Bigger(m, f, p)
           half == split_huge_entry(s, h, StepOf(l))
<1>1. s.m = m /\ s.pa = pa /\ s.t = t /\ s.at = at
  BY Zenon DEF Walking
<1>2. half = Walking(b, PageAlign(pa) + UNIT, t, f)
  <2>1. half = NewTable(s, p)
    BY SplitIs, Zenon
  <2> QED
    BY <2>1, NewTableIs
<1>3. half.at = f
  BY <1>2 DEF Walking
<1>4. Down(s, i, create, StepOf(l), cr3) = [half EXCEPT !.m[at][i] = e, !.t = FlushAll]
  <2>1. Down(s, i, create, StepOf(l), cr3) =
          [half EXCEPT !.m[s.at][i] = Entry(half.at, FALSE, TRUE, h.user), !.t = FlushAll]
    <3> HIDE DEF s
    <3> QED
      BY <1>1, Zenon DEF Down, IsHuge
  <2> QED
    BY <1>1, <1>3, <2>1, Zenon DEF ForPieces
<1> HIDE DEF s, f, e, b, half, p
<1>5. [half EXCEPT !.m[at][i] = e, !.t = FlushAll]
        = Walking([b EXCEPT ![at][i] = e], PageAlign(pa) + UNIT, FlushAll, f)
  <2> DEFINE x == [b EXCEPT ![at][i] = e]
             y == PageAlign(pa) + UNIT
  <2>1. [half EXCEPT !.m[at][i] = e] = Walking(x, y, t, f)
    BY <1>2 DEF Walking
  <2> HIDE DEF x, y
  <2>2. [Walking(x, y, t, f) EXCEPT !.t = FlushAll] = Walking(x, y, FlushAll, f)
    BY DEF Walking
  <2> QED
    BY <2>1, <2>2, Zenon DEF x, y
<1>6. [b EXCEPT ![at][i] = e] = Link(m, at, i, f, p, e)
  BY Zenon DEF Link, b
<1> QED
  BY <1>4, <1>5, <1>6, Zenon DEF s, f, e, p
-----------------------------------------------------------------------------
(* Tables in frames below placement_address.                               *)
FramesBelow(m, pa) ==
    \A f \in DOMAIN m : f < NFrames => f >= 1 /\ (HHDM + f + 1) * UNIT <= pa

SoundHeap(own, m, pa, c) ==
    /\ Tables(own, m, c) /\ FramesBelow(m, pa)
    /\ pa \in Nat /\ (HHDM + 1) * UNIT <= pa

(* Nothing a walk finds has changed, and new tables are new memory.        *)
Kept(m, pa, t, n, qa, u) ==
    /\ \A w \in Pages : Translate(n, cr3, w) = Translate(m, cr3, w)
    /\ DOMAIN m \subseteq DOMAIN n
    /\ \A f \in DOMAIN n \ DOMAIN m : f \in 1 .. HeapEnd - 1 /\ pa <= (HHDM + f) * UNIT
    /\ u = t \/ u = FlushAll
    /\ qa \in Nat /\ pa <= qa

(* The walk is at level l, or has found nothing.                           *)
WalkAt(m, l, v, at, create) ==
    \/ OnWalk(m, cr3, l, v, at)
    \/ at = NULL_TABLE /\ Translate(m, cr3, v) = None /\ ~create

Stepped(m, pa, t, d, l, v, create) ==
    /\ d = Walking(d.m, d.pa, d.t, d.at)
    /\ \E o : SoundHeap(o, d.m, d.pa, cr3)
    /\ Kept(m, pa, t, d.m, d.pa, d.t)
    /\ d.pa \in {pa, PageAlign(pa) + UNIT}
    /\ WalkAt(d.m, l, v, d.at, create)

(* The fields of a state of the walk.                                      *)
LEMMA Fields ==
  ASSUME NEW m, NEW pa, NEW t, NEW at, NEW d, d = Walking(m, pa, t, at)
  PROVE  d.m = m /\ d.pa = pa /\ d.t = t /\ d.at = at
BY Zenon DEF Walking

(* A walk that meets an absent entry finds nothing.                        *)
LEMMA NotMapped ==
  ASSUME NEW own, NEW m, NEW c, Tables(own, m, c), NEW l \in 1 .. 3, NEW v \in Pages, NEW at,
         OnWalk(m, c, l, v, at), ~m[at][Idx(l, v)].present
  PROVE  Translate(m, c, v) = None
<1>1. E4(m, c, v).present
  BY WalkDown, Zenon
<1>2. CASE l = 3
  <2>1. ~E3(m, c, v).present
    BY <1>2, Zenon DEF OnWalk, E3
  <2> QED
    BY <1>1, <2>1, TranslateIs, Zenon
<1>3. CASE l = 2
  <2>1. Mid(m, c, v) /\ ~E2(m, c, v).present
    BY <1>3, Zenon DEF OnWalk, E2
  <2> QED
    BY <1>1, <2>1, TranslateIs, Zenon DEF Mid
<1>4. CASE l = 1
  <2>1. Low(m, c, v) /\ ~E1(m, c, v).present
    BY <1>4, Zenon DEF OnWalk, E1
  <2> QED
    BY <1>1, <2>1, TranslateIs, Zenon DEF Mid, Low
<1> QED
  BY <1>2, <1>3, <1>4

(* A table on a walk is owned by the pages of that walk, and its entries   *)
(* are typed.                                                              *)
LEMMA OnWalkIn ==
  ASSUME NEW own, NEW m, NEW c, Tables(own, m, c), NEW l \in 1 .. 3, NEW v \in Pages, NEW at,
         OnWalk(m, c, l, v, at)
  PROVE  at \in DOMAIN m /\ at # NULL_TABLE /\ own[at] = Label(l, v) /\ m[at][Idx(l, v)] \in Entries
<1>1. l = 1 \/ l = 2 \/ l = 3
  OBVIOUS
<1>2. at \in DOMAIN m /\ own[at] = Label(l, v)
  BY <1>1, WalkDown DEF OnWalk
<1> QED
  BY <1>2, IndexInTable DEF Tables

(* A new table is new memory.                                              *)
LEMMA GrownHeap ==
  ASSUME NEW own, NEW m, NEW pa, SoundHeap(own, m, pa, cr3), PageAlign(pa) + UNIT <= End
  PROVE  /\ NextFrame(pa) \in 1 .. HeapEnd - 1 /\ pa <= (HHDM + NextFrame(pa)) * UNIT
         /\ NextFrame(pa) \in Nat /\ NextFrame(pa) \notin DOMAIN m /\ NextFrame(pa) # NULL_TABLE
         /\ \A n : DOMAIN n = DOMAIN m \cup {NextFrame(pa)} => FramesBelow(n, PageAlign(pa) + UNIT)
         /\ PageAlign(pa) + UNIT \in Nat /\ pa <= PageAlign(pa) + UNIT
         /\ (HHDM + 1) * UNIT <= PageAlign(pa) + UNIT
<1> DEFINE f == NextFrame(pa)
           qa == PageAlign(pa) + UNIT
<1>0. /\ UNIT \in Nat \ {0} /\ HHDM \in Nat /\ HeapEnd \in Nat /\ HeapEnd <= NFrames /\ NFrames \in Nat
  BY PagingAssumption
<1>1. pa \in Nat /\ (HHDM + 1) * UNIT <= pa /\ FramesBelow(m, pa) /\ DOMAIN m \subseteq Nat
  BY Zenon DEF SoundHeap, Tables
<1>2. /\ f \in 1 .. HeapEnd - 1 /\ f < NFrames
      /\ (HHDM + f) * UNIT = PageAlign(pa)
      /\ (HHDM + f + 1) * UNIT = PageAlign(pa) + UNIT
      /\ pa <= (HHDM + f) * UNIT
  BY <1>1, FrameIs, Zenon
<1>3. PageAlign(pa) \in Nat /\ pa <= PageAlign(pa)
  BY <1>1, Aligned, Zenon
<1> HIDE DEF f
<1>4. f \in Nat /\ f # NULL_TABLE
  BY <1>0, <1>2 DEF NULL_TABLE
<1>5. f \notin DOMAIN m
  <2> SUFFICES ASSUME f \in DOMAIN m PROVE FALSE
    BY Zenon
  <2>1. (HHDM + f + 1) * UNIT <= pa
    BY <1>1, <1>2, Zenon DEF FramesBelow
  <2> QED
    BY <1>0, <1>1, <1>2, <1>3, <2>1
<1>6. qa \in Nat /\ pa <= qa
  BY <1>0, <1>1, <1>3
<1> DEFINE k == (HHDM + 1) * UNIT
<1>7. k \in Nat /\ k <= pa
  BY <1>0, <1>1
<1>8. k <= qa
  <2> HIDE DEF k, qa
  <2> QED
    BY <1>1, <1>6, <1>7
<1>9. ASSUME NEW n, DOMAIN n = DOMAIN m \cup {f} PROVE FramesBelow(n, qa)
  <2> SUFFICES ASSUME NEW g \in DOMAIN n, g < NFrames PROVE g >= 1 /\ (HHDM + g + 1) * UNIT <= qa
    BY Zenon DEF FramesBelow
  <2>1. CASE g = f
    BY <1>0, <1>2, <1>3, <2>1
  <2>2. CASE g \in DOMAIN m
    <3>1. g >= 1 /\ (HHDM + g + 1) * UNIT <= pa /\ g \in Nat
      BY <1>1, <2>2, Zenon DEF FramesBelow
    <3> DEFINE x == (HHDM + g + 1) * UNIT
    <3>2. x \in Nat /\ x <= pa
      BY <1>0, <3>1
    <3>3. x <= qa
      <4> HIDE DEF x, qa
      <4> QED
        BY <1>1, <1>6, <3>2
    <3> QED
      BY <3>1, <3>3, Zenon
  <2> QED
    BY <1>9, <2>1, <2>2, Zenon
<1> QED
  BY <1>2, <1>4, <1>5, <1>6, <1>8, <1>9, Zenon DEF f

(* One level of get_page_entry() keeps what every walk finds.              *)
LEMMA DownStep ==
  ASSUME NEW own, NEW m, NEW pa, NEW t, NEW at, SoundHeap(own, m, pa, cr3),
         NEW l \in 2 .. 3, NEW v \in Pages, NEW create, WalkAt(m, l, v, at, create),
         NEW d, d = Down(Walking(m, pa, t, at), Idx(l, v), create, StepOf(l), cr3), d.pa <= End
  PROVE  Stepped(m, pa, t, d, l - 1, v, create)
<1> DEFINE i == Idx(l, v)
           f == NextFrame(pa)
           e == m[at][i]
<1>0. Tables(own, m, cr3) /\ pa \in Nat /\ l \in 1 .. 3
  BY DEF SoundHeap
<1>1. ASSUME NEW b, d = Walking(m, pa, t, b), WalkAt(m, l - 1, v, b, create)
      PROVE  Stepped(m, pa, t, d, l - 1, v, create)
  <2>1. d.m = m /\ d.pa = pa /\ d.t = t /\ d.at = b
    BY <1>1, Fields
  <2>2. Kept(m, pa, t, m, pa, t)
    BY <1>0 DEF Kept
  <2> QED
    BY <1>1, <2>1, <2>2, Zenon DEF Stepped
<1>2. CASE at = NULL_TABLE /\ Translate(m, cr3, v) = None /\ ~create
  <2>1. d = Walking(m, pa, t, NULL_TABLE)
    BY <1>2, DownNull, Zenon
  <2>2. WalkAt(m, l - 1, v, NULL_TABLE, create)
    BY <1>2, Zenon DEF WalkAt
  <2> QED
    BY <1>1, <2>1, <2>2, Zenon
<1>3. CASE OnWalk(m, cr3, l, v, at)
  <2>0. /\ at \in DOMAIN m /\ at # NULL_TABLE /\ e \in Entries
        /\ i \in Slots
    BY <1>0, <1>3, OnWalkIn, IndexInTable
  <2>1. CASE ~e.present /\ ~create
    <3>1. d = Walking(m, pa, t, NULL_TABLE)
      BY <2>1, DownNull, Zenon
    <3>2. Translate(m, cr3, v) = None
      BY <1>0, <1>3, <2>1, NotMapped, Zenon
    <3>3. WalkAt(m, l - 1, v, NULL_TABLE, create)
      BY <2>1, <3>2, Zenon DEF WalkAt
    <3> QED
      BY <1>1, <3>1, <3>3, Zenon
  <2>2. CASE e.present /\ ~e.ps
    <3>1. d = Walking(m, pa, t, e.f)
      BY <2>0, <2>2, DownOver
    <3>2. OnWalk(m, cr3, l - 1, v, e.f)
      <4>1. CASE l = 3
        <5>1. e = E3(m, cr3, v)
          BY <1>3, <4>1, Zenon DEF OnWalk, E3
        <5>2. OnWalk(m, cr3, 2, v, e.f)
          BY <2>2, <5>1 DEF OnWalk, Mid
        <5> QED
          BY <4>1, <5>2
      <4>2. CASE l = 2
        <5>1. e = E2(m, cr3, v) /\ Mid(m, cr3, v)
          BY <1>3, <4>2, Zenon DEF OnWalk, E2
        <5>2. OnWalk(m, cr3, 1, v, e.f)
          BY <2>2, <5>1 DEF OnWalk, Low
        <5> QED
          BY <4>2, <5>2
      <4> QED
        BY <4>1, <4>2
    <3>3. WalkAt(m, l - 1, v, e.f, create)
      BY <3>2, Zenon DEF WalkAt
    <3> QED
      BY <1>1, <3>1, <3>3, Zenon
  <2>3. ASSUME NEW n, NEW ents, NEW k, NEW u, d = Walking(n, PageAlign(pa) + UNIT, u, f),
               n = Link(m, at, i, f, ents, k), Leaves(l, ents), Points(k, f),
               u = t \/ u = FlushAll,
               \A w \in Pages : Grown(m, n, at, i, f, ents, k) => Translate(n, cr3, w) = Translate(m, cr3, w)
        PROVE  Stepped(m, pa, t, d, l - 1, v, create)
    <3>1. d.m = n /\ d.pa = PageAlign(pa) + UNIT /\ d.t = u /\ d.at = f
      BY <2>3, Fields
    <3>2. PageAlign(pa) + UNIT <= End
      BY <3>1, Zenon
    <3>3. /\ f \in 1 .. HeapEnd - 1 /\ pa <= (HHDM + f) * UNIT
          /\ f \in Nat /\ f \notin DOMAIN m /\ f # NULL_TABLE
          /\ DOMAIN n = DOMAIN m \cup {f} => FramesBelow(n, PageAlign(pa) + UNIT)
          /\ PageAlign(pa) + UNIT \in Nat /\ pa <= PageAlign(pa) + UNIT
          /\ (HHDM + 1) * UNIT <= PageAlign(pa) + UNIT
      BY <3>2, GrownHeap, Zenon
    <3> HIDE DEF f, i
    <3>4. Grown(m, n, at, i, f, ents, k)
      <4>1. Linkable(m, at, i, f, ents, k)
        BY <1>0, <2>0, <2>3, <3>3, Zenon DEF Linkable, Tables, Points, Leaves
      <4> QED
        BY <2>3, <4>1, LinkIs, Zenon
    <3>5. DOMAIN n = DOMAIN m \cup {f}
      BY <3>4, Zenon DEF Grown
    <3>6. (\E o : Tables(o, n, cr3)) /\ OnWalk(n, cr3, l - 1, v, f)
      BY <1>0, <1>3, <2>3, <3>3, Linked DEF i
    <3>7. \E o : SoundHeap(o, n, PageAlign(pa) + UNIT, cr3)
      BY <3>3, <3>5, <3>6, Zenon DEF SoundHeap
    <3>8. Kept(m, pa, t, n, PageAlign(pa) + UNIT, u)
      BY <2>3, <3>3, <3>4, <3>5, Zenon DEF Kept
    <3>9. WalkAt(n, l - 1, v, f, create)
      BY <3>6, Zenon DEF WalkAt
    <3> QED
      BY <2>3, <3>1, <3>7, <3>8, <3>9, Zenon DEF Stepped
  <2>4. CASE ~e.present /\ create
    <3> DEFINE k == Entry(f, FALSE, TRUE, FALSE)
               n == Link(m, at, i, f, EmptyTable, k)
    <3>1. d = Walking(n, PageAlign(pa) + UNIT, t, f)
      BY <2>0, <2>4, DownNew, ZenonT(30)
    <3>2. PageAlign(pa) + UNIT <= End
      <4> HIDE DEF n
      <4>1. d.pa = PageAlign(pa) + UNIT
        BY <3>1, Fields
      <4> QED
        BY <4>1, Zenon
    <3>3. f \in Nat
      BY <3>2, GrownHeap, Zenon
    <3>4. Points(k, f)
      BY <3>3, Zenon DEF Points, Entry, Entries
    <3>5. Leaves(l, EmptyTable)
      BY Zenon DEF Leaves, EmptyTable, NoEntry, Entries
    <3> HIDE DEF n, k, f
    <3>6. \A w \in Pages : Grown(m, n, at, i, f, EmptyTable, k) => Translate(n, cr3, w) = Translate(m, cr3, w)
      <4> SUFFICES ASSUME NEW w \in Pages, Grown(m, n, at, i, f, EmptyTable, k)
                   PROVE  Translate(n, cr3, w) = Translate(m, cr3, w)
        BY Zenon
      <4> QED
        BY <1>0, <1>3, <2>4, <3>4, EmptyBelow, SMTT(30)
    <3> QED
      BY <2>3, <3>1, <3>4, <3>5, <3>6, Zenon DEF n
  <2>5. CASE e.present /\ e.ps
    <3> DEFINE k == ForPieces(e, f)
               p == Pieces(e, l)
               n == Link(m, at, i, f, p, k)
    <3>0. IsHuge(e, m, at, i) /\ IsHuge(e, m, at, Idx(l, v))
      BY <2>5, Zenon DEF IsHuge
    <3> HIDE DEF e
    <3>1. d = Walking(n, PageAlign(pa) + UNIT, FlushAll, f)
      <4>1. Down(Walking(m, pa, t, at), i, create, StepOf(l), cr3) =
              Walking(n, PageAlign(pa) + UNIT, FlushAll, f)
        BY <2>0, <3>0, DownSplit
      <4> QED
        BY <4>1, Zenon
    <3>2. PageAlign(pa) + UNIT <= End
      <4> HIDE DEF n
      <4>1. d.pa = PageAlign(pa) + UNIT
        BY <3>1, Fields
      <4> QED
        BY <4>1, Zenon
    <3>3. f \in Nat
      BY <3>2, GrownHeap, Zenon
    <3>4. Points(k, f)
      BY <2>0, <3>3, Zenon DEF Points, Entry, Entries, ForPieces
    <3>5. Leaves(l, p)
      BY <2>0, PiecesAre, Zenon
    <3> HIDE DEF n, f
    <3>6. \A w \in Pages : Grown(m, n, at, i, f, p, k) => Translate(n, cr3, w) = Translate(m, cr3, w)
      <4> SUFFICES ASSUME NEW w \in Pages, Grown(m, n, at, i, f, p, k)
                   PROVE  Translate(n, cr3, w) = Translate(m, cr3, w)
        BY Zenon
      <4> QED
        BY <1>0, <1>3, <2>0, <3>0, <3>3, SplitBelow
    <3> HIDE DEF k, p
    <3> QED
      BY <2>3, <3>1, <3>4, <3>5, <3>6, Zenon DEF n
  <2> QED
    BY <2>1, <2>2, <2>4, <2>5, Zenon
<1> QED
  BY <1>2, <1>3, Zenon DEF WalkAt

(* A level takes at most one page.                                         *)
LEMMA DownGrows ==
  ASSUME NEW m, NEW pa, NEW t, NEW at, NEW i, NEW create, NEW step,
         NEW d, d = Down(Walking(m, pa, t, at), i, create, step, cr3)
  PROVE  d = Walking(d.m, d.pa, d.t, d.at) /\ (d.pa = pa \/ d.pa = PageAlign(pa) + UNIT)
<1> DEFINE s == Walking(m, pa, t, at)
           e == m[at][i]
<1>0. ASSUME NEW n, NEW qa, NEW u, NEW b, d = Walking(n, qa, u, b), qa = pa \/ qa = PageAlign(pa) + UNIT
      PROVE  d = Walking(d.m, d.pa, d.t, d.at) /\ (d.pa = pa \/ d.pa = PageAlign(pa) + UNIT)
  <2>1. d.m = n /\ d.pa = qa /\ d.t = u /\ d.at = b
    BY <1>0, Fields
  <2> QED
    BY <1>0, <2>1, Zenon
<1>1. CASE at = NULL_TABLE \/ (~e.present /\ ~create)
  BY <1>0, <1>1, DownNull
<1>2. CASE at # NULL_TABLE /\ e.present /\ ~e.ps
  BY <1>0, <1>2, DownOver
<1>3. CASE at # NULL_TABLE /\ e.present /\ e.ps
  <2> DEFINE f == NextFrame(pa)
             p == [k \in Slots |-> IF k < (IF step = 1 THEN 4 ELSE NFrames \div 8)
                                   THEN [e EXCEPT !.f = @ + k * step, !.ps = step # 1] ELSE NoEntry]
             b == Bigger(m, f, p)
             half == split_huge_entry(s, e, step)
             k == Entry(f, FALSE, TRUE, e.user)
             x == [b EXCEPT ![at][i] = k]
             y == PageAlign(pa) + UNIT
  <2>1. s.m = m /\ s.pa = pa /\ s.t = t /\ s.at = at
    BY Zenon DEF Walking
  <2>2. half = NewTable(s, p)
    BY Zenon DEF split_huge_entry
  <2> HIDE DEF p
  <2>3. half = Walking(b, y, t, f)
    BY <2>2, NewTableIs
  <2>4. half.at = f
    BY <2>3 DEF Walking
  <2>5. d = [half EXCEPT !.m[at][i] = k, !.t = FlushAll]
    <3>1. Down(s, i, create, step, cr3) =
            [half EXCEPT !.m[s.at][i] = Entry(half.at, FALSE, TRUE, e.user), !.t = FlushAll]
      <4> HIDE DEF s
      <4> QED
        BY <1>3, <2>1, Zenon DEF Down
    <3> QED
      BY <2>1, <2>4, <3>1, Zenon
  <2> HIDE DEF s, e, f, b, half, k
  <2>6. [half EXCEPT !.m[at][i] = k] = Walking(x, y, t, f)
    BY <2>3 DEF Walking
  <2> HIDE DEF x, y
  <2>7. [Walking(x, y, t, f) EXCEPT !.t = FlushAll] = Walking(x, y, FlushAll, f)
    BY DEF Walking
  <2>8. d = Walking(x, y, FlushAll, f)
    BY <2>5, <2>6, <2>7, Zenon
  <2> QED
    BY <1>0, <2>8, Zenon DEF y
<1>4. CASE at # NULL_TABLE /\ ~e.present /\ create
  <2> DEFINE n == Link(m, at, i, NextFrame(pa), EmptyTable, Entry(NextFrame(pa), FALSE, TRUE, FALSE))
  <2>1. d = Walking(n, PageAlign(pa) + UNIT, t, NextFrame(pa))
    BY <1>4, DownNew, ZenonT(30)
  <2> HIDE DEF n
  <2> QED
    BY <1>0, <2>1, Zenon
<1> QED
  BY <1>1, <1>2, <1>3, <1>4, Zenon

(* get_page_entry() only moves placement_address up.                       *)
LEMMA EntryGrows ==
  ASSUME NEW m, NEW pa \in Nat, NEW t, NEW at, NEW v, NEW create,
         NEW g, g = get_page_entry(Walking(m, pa, t, at), v, create, cr3)
  PROVE  g = Walking(g.m, g.pa, g.t, g.at) /\ g.pa \in Nat /\ pa <= g.pa
<1>0. UNIT \in Nat
  BY PagingAssumption, Zenon
<1> DEFINE g1 == Down(Walking(m, pa, t, cr3), PML4_INDEX(v), create, 0, cr3)
           g2 == Down(g1, PDPT_INDEX(v), create, 4, cr3)
<1>1. [Walking(m, pa, t, at) EXCEPT !.at = cr3] = Walking(m, pa, t, cr3)
  BY DEF Walking
<1>2. g = Down(g2, PD_INDEX(v), create, 1, cr3)
  BY <1>1, Zenon DEF get_page_entry
<1>3. g1 = Walking(g1.m, g1.pa, g1.t, g1.at) /\ (g1.pa = pa \/ g1.pa = PageAlign(pa) + UNIT)
  BY DownGrows
<1> HIDE DEF g1
<1>4. g2 = Walking(g2.m, g2.pa, g2.t, g2.at) /\ (g2.pa = g1.pa \/ g2.pa = PageAlign(g1.pa) + UNIT)
  BY <1>3, DownGrows
<1> HIDE DEF g2
<1>5. g = Walking(g.m, g.pa, g.t, g.at) /\ (g.pa = g2.pa \/ g.pa = PageAlign(g2.pa) + UNIT)
  BY <1>2, <1>4, DownGrows
<1>6. ASSUME NEW x \in Nat, NEW y, y = x \/ y = PageAlign(x) + UNIT
      PROVE  y \in Nat /\ x <= y
  <2>1. PageAlign(x) \in Nat /\ x <= PageAlign(x)
    BY Aligned, Zenon
  <2> QED
    BY <1>0, <1>6, <2>1
<1>7. g1.pa \in Nat /\ pa <= g1.pa
  BY <1>3, <1>6, Zenon
<1>8. g2.pa \in Nat /\ g1.pa <= g2.pa
  BY <1>4, <1>6, <1>7, Zenon
<1>9. g.pa \in Nat /\ g2.pa <= g.pa
  BY <1>5, <1>6, <1>8, Zenon
<1> QED
  BY <1>5, <1>7, <1>8, <1>9

(* Two changes in a row that keep every translation keep it.               *)
LEMMA KeptTwice ==
  ASSUME NEW m, NEW pa \in Nat, NEW t, NEW n, NEW qa, NEW u, NEW k, NEW ra, NEW x,
         Kept(m, pa, t, n, qa, u), Kept(n, qa, u, k, ra, x)
  PROVE  Kept(m, pa, t, k, ra, x)
<1>1. /\ \A w \in Pages : Translate(n, cr3, w) = Translate(m, cr3, w)
      /\ DOMAIN m \subseteq DOMAIN n
      /\ \A f \in DOMAIN n \ DOMAIN m : f \in 1 .. HeapEnd - 1 /\ pa <= (HHDM + f) * UNIT
      /\ u = t \/ u = FlushAll
      /\ qa \in Nat /\ pa <= qa
  BY Zenon DEF Kept
<1>2. /\ \A w \in Pages : Translate(k, cr3, w) = Translate(n, cr3, w)
      /\ DOMAIN n \subseteq DOMAIN k
      /\ \A f \in DOMAIN k \ DOMAIN n : f \in 1 .. HeapEnd - 1 /\ qa <= (HHDM + f) * UNIT
      /\ x = u \/ x = FlushAll
      /\ ra \in Nat /\ qa <= ra
  BY Zenon DEF Kept
<1>3. ASSUME NEW f \in DOMAIN k \ DOMAIN m PROVE f \in 1 .. HeapEnd - 1 /\ pa <= (HHDM + f) * UNIT
  <2>1. CASE f \in DOMAIN n
    BY <1>1, <2>1, Zenon
  <2>2. CASE f \notin DOMAIN n
    <3>1. f \in 1 .. HeapEnd - 1 /\ qa <= (HHDM + f) * UNIT
      BY <1>2, <2>2, Zenon
    <3> DEFINE y == (HHDM + f) * UNIT
    <3>2. y \in Nat
      BY <3>1, PagingAssumption
    <3> HIDE DEF y
    <3>3. pa <= y
      BY <1>1, <3>1, <3>2 DEF y
    <3> QED
      BY <3>1, <3>3, Zenon DEF y
  <2> QED
    BY <2>1, <2>2, Zenon
<1> QED
  BY <1>1, <1>2, <1>3 DEF Kept

(* get_page_entry() as a whole: what every walk finds is kept, and it ends *)
(* at the last table on the walk of v, or nothing is mapped there          *)
(* (paging.c:61-107).                                                      *)
Walked(m, pa, t, g, v, create) ==
    /\ \E o : SoundHeap(o, g.m, g.pa, cr3)
    /\ Kept(m, pa, t, g.m, g.pa, g.t)
    /\ WalkAt(g.m, 1, v, g.at, create)

(* get_page_entry() keeps every translation, leaves the tables and the     *)
(* heap sound, and ends at the page's table of level 1 or at none; it      *)
(* takes two frames at most.                                               *)
LEMMA GetPageEntry ==
  ASSUME NEW own, NEW m, NEW pa, NEW t, NEW at, SoundHeap(own, m, pa, cr3),
         NEW v \in Pages, NEW create,
         NEW g, g = get_page_entry(Walking(m, pa, t, at), v, create, cr3)
  PROVE  /\ g = Walking(g.m, g.pa, g.t, g.at)
         /\ g.pa <= End => Walked(m, pa, t, g, v, create)
         /\ PageAlign(pa) + 2 * UNIT <= End => g.pa <= End
<1> DEFINE g1 == Walking(m, pa, t, E4(m, cr3, v).f)
           g2 == Down(g1, Idx(3, v), create, StepOf(3), cr3)
<1>0. Tables(own, m, cr3) /\ pa \in Nat /\ cr3 \in DOMAIN m /\ cr3 # NULL_TABLE /\ UNIT \in Nat \ {0}
      /\ End \in Int
  BY PagingAssumption DEF SoundHeap, Tables, End
<1>1. E4(m, cr3, v).present /\ ~E4(m, cr3, v).ps
  BY <1>0, WalkDown, Zenon
<1>2. [Walking(m, pa, t, at) EXCEPT !.at = cr3] = Walking(m, pa, t, cr3)
  BY DEF Walking
<1>3. Down(Walking(m, pa, t, cr3), Idx(4, v), create, 0, cr3) = g1
  BY <1>0, <1>1, DownOver DEF E4
<1>4. StepOf(3) = 4 /\ StepOf(2) = 1
  BY DEF StepOf
<1>5. PML4_INDEX(v) = Idx(4, v) /\ PDPT_INDEX(v) = Idx(3, v) /\ PD_INDEX(v) = Idx(2, v)
  BY DEF Idx
<1>6. g = Down(g2, Idx(2, v), create, StepOf(2), cr3)
  BY <1>2, <1>3, <1>4, <1>5, Zenon DEF get_page_entry
<1>7. g2 = Walking(g2.m, g2.pa, g2.t, g2.at) /\ (g2.pa = pa \/ g2.pa = PageAlign(pa) + UNIT)
  BY DownGrows
<1> HIDE DEF g2
<1>8. g = Walking(g.m, g.pa, g.t, g.at) /\ (g.pa = g2.pa \/ g.pa = PageAlign(g2.pa) + UNIT)
  BY <1>6, <1>7, DownGrows
<1>9. PageAlign(pa) \in Nat /\ pa <= PageAlign(pa) /\ PageAlign(pa) + UNIT \in Nat
  <2>1. PageAlign(pa) \in Nat /\ pa <= PageAlign(pa)
    BY <1>0, Aligned, Zenon
  <2> QED
    BY <1>0, <2>1
<1>10. g2.pa \in Nat /\ pa <= g2.pa
  BY <1>0, <1>7, <1>9
<1>11. PageAlign(g2.pa) \in Nat /\ g2.pa <= PageAlign(g2.pa)
  BY <1>10, Aligned, Zenon
<1>12. ASSUME g.pa <= End PROVE Walked(m, pa, t, g, v, create)
  <2>1. g2.pa <= End
    BY <1>0, <1>8, <1>10, <1>11, <1>12
  <2>2. WalkAt(m, 3, v, E4(m, cr3, v).f, create)
    BY DEF WalkAt, OnWalk
  <2>3. Stepped(m, pa, t, g2, 2, v, create)
    <3>1. 3 \in 2 .. 3 /\ 3 - 1 = 2
      OBVIOUS
    <3>2. g2 = Down(Walking(m, pa, t, E4(m, cr3, v).f), Idx(3, v), create, StepOf(3), cr3)
      BY Zenon DEF g2
    <3>3. Stepped(m, pa, t, g2, 3 - 1, v, create)
      BY <2>1, <2>2, <3>1, <3>2, DownStep, Zenon
    <3> QED
      BY <3>1, <3>3, Zenon
  <2>4. PICK o : SoundHeap(o, g2.m, g2.pa, cr3)
    BY <2>3, Zenon DEF Stepped
  <2>5. Kept(m, pa, t, g2.m, g2.pa, g2.t) /\ WalkAt(g2.m, 2, v, g2.at, create)
    BY <2>3, Zenon DEF Stepped
  <2>6. Stepped(g2.m, g2.pa, g2.t, g, 1, v, create)
    <3>1. 2 \in 2 .. 3 /\ 2 - 1 = 1
      OBVIOUS
    <3>2. g = Down(Walking(g2.m, g2.pa, g2.t, g2.at), Idx(2, v), create, StepOf(2), cr3)
      BY <1>6, <1>7, Zenon
    <3>3. Stepped(g2.m, g2.pa, g2.t, g, 2 - 1, v, create)
      BY <1>12, <2>4, <2>5, <3>1, <3>2, DownStep, Zenon
    <3> QED
      BY <3>1, <3>3, Zenon
  <2>7. Kept(m, pa, t, g.m, g.pa, g.t)
    BY <1>0, <2>5, <2>6, KeptTwice DEF Stepped
  <2> QED
    BY <2>6, <2>7, Zenon DEF Stepped, Walked
<1>13. ASSUME PageAlign(pa) + 2 * UNIT <= End PROVE g.pa <= End
  <2> DEFINE q == PageAlign(pa) \div UNIT
  <2>1. PageAlign(pa) = q * UNIT /\ q \in Nat
    BY <1>0, Aligned, Zenon
  <2> HIDE DEF q
  <2>2. PageAlign(pa) + UNIT = (q + 1) * UNIT /\ q + 1 \in Nat
    BY <1>0, <2>1, Multiples
  <2>3. g2.pa <= (q + 1) * UNIT
    BY <1>0, <1>7, <1>9, <2>2
  <2>4. PageAlign(g2.pa) <= (q + 1) * UNIT
    BY <1>10, <2>2, <2>3, Aligned, Zenon
  <2> DEFINE y == PageAlign(pa)
             z == PageAlign(g2.pa)
  <2>5. z <= y + UNIT /\ g2.pa <= y + UNIT /\ z \in Nat /\ y \in Nat /\ y + 2 * UNIT <= End
    BY <1>9, <1>11, <1>13, <2>2, <2>3, <2>4, Zenon
  <2>6. g.pa = g2.pa \/ g.pa = z + UNIT
    BY <1>8, Zenon
  <2> HIDE DEF y, z
  <2> QED
    BY <1>0, <1>10, <2>5, <2>6
<1> QED
  BY <1>8, <1>12, <1>13, Zenon
-----------------------------------------------------------------------------
(* Writing the last entry on a walk.                                       *)
LEMMA LeafTables ==
  ASSUME NEW own, NEW m, NEW c, Tables(own, m, c), NEW v \in Pages, NEW at, OnWalk(m, c, 1, v, at),
         NEW e \in Entries, NEW n, n = [m EXCEPT ![at][Idx(1, v)] = e]
  PROVE  Tables(own, n, c) /\ DOMAIN n = DOMAIN m /\ Changed(m, n, at, Idx(1, v), e)
<1> DEFINE i == Idx(1, v)
           row == [m[at] EXCEPT ![i] = e]
<1>0. /\ c \in DOMAIN m /\ own[c] = <<4, 0>>
      /\ DOMAIN m \subseteq Nat /\ NULL_TABLE \notin DOMAIN m
      /\ \A f \in DOMAIN m : m[f] \in [Slots -> Entries]
      /\ \A f \in DOMAIN m, l \in 1 .. 4, w \in Pages :
            own[f] = Label(l, w) => EntryOK(own, m, l, w, m[f][Idx(l, w)])
  BY Zenon DEF Tables
<1>1. at \in DOMAIN m /\ own[at] = Label(1, v)
  <2>1. 1 \in 1 .. 3
    OBVIOUS
  <2> QED
    BY <2>1, OnWalkIn
<1>2. i \in Slots
  BY IndexInTable
<1> HIDE DEF i
<1>3. row \in [Slots -> Entries] /\ \A j \in Slots : row[j] = IF j = i THEN e ELSE m[at][j]
  BY <1>0, <1>1, <1>2, Zenon
<1>4. n = [m EXCEPT ![at] = row]
  BY <1>1, Zenon DEF i
<1> HIDE DEF row
<1>5. DOMAIN n = DOMAIN m /\ \A g \in DOMAIN m : n[g] = IF g = at THEN row ELSE m[g]
  BY <1>1, <1>4, Zenon
<1>6. \A g \in DOMAIN n : n[g] \in [Slots -> Entries]
  BY <1>0, <1>3, <1>5, Zenon
<1>7. Changed(m, n, at, i, e)
  BY <1>3, <1>5, Zenon DEF Changed
<1>8. ASSUME NEW g \in DOMAIN n, NEW l \in 1 .. 4, NEW w \in Pages, own[g] = Label(l, w)
      PROVE  EntryOK(own, n, l, w, n[g][Idx(l, w)])
  <2>1. CASE g = at
    <3>1. l = 1
      BY <1>1, <1>8, <2>1 DEF Label
    <3> QED
      BY <3>1 DEF EntryOK
  <2>2. CASE g # at
    <3>1. EntryOK(own, m, l, w, m[g][Idx(l, w)])
      BY <1>0, <1>5, <1>8, Zenon
    <3>2. n[g] = m[g]
      BY <1>5, <2>2, Zenon
    <3> QED
      BY <1>5, <3>1, <3>2, Zenon DEF EntryOK
  <2> QED
    BY <2>1, <2>2, Zenon
<1> QED
  BY <1>0, <1>5, <1>6, <1>7, <1>8, Zenon DEF Tables, i

(* What the walk of v finds there.                                         *)
LEMMA LeafIs ==
  ASSUME NEW own, NEW m, NEW c, Tables(own, m, c), NEW v \in Pages, NEW at, OnWalk(m, c, 1, v, at)
  PROVE  /\ ~m[at][Idx(1, v)].present => Translate(m, c, v) = None
         /\ m[at][Idx(1, v)].present => Translate(m, c, v).f = m[at][Idx(1, v)].f
<1>1. E4(m, c, v).present
  BY WalkDown, Zenon
<1>2. Low(m, c, v) /\ E1(m, c, v) = m[at][Idx(1, v)]
  BY Zenon DEF OnWalk, E1
<1>3. ~E1(m, c, v).present => Translate(m, c, v) = None
  BY <1>1, <1>2, TranslateIs, Zenon DEF Mid, Low
<1>4. E1(m, c, v).present =>
        Translate(m, c, v) = Reached({E4(m, c, v), E3(m, c, v), E2(m, c, v), E1(m, c, v)}, E1(m, c, v).f)
  BY <1>1, <1>2, TranslateIs, Zenon DEF Mid, Low
<1>5. \A es, f : Reached(es, f).f = f
  BY Zenon DEF Reached
<1> QED
  BY <1>2, <1>3, <1>4, <1>5

(* Only what the walk of v finds changes.                                  *)
LEMMA LeafWritten ==
  ASSUME NEW own, NEW m, NEW c, Tables(own, m, c), NEW v \in Pages, NEW at, OnWalk(m, c, 1, v, at),
         NEW e, NEW n, Changed(m, n, at, Idx(1, v), e), Tables(own, n, c), DOMAIN n = DOMAIN m
  PROVE  /\ \A w \in Pages : w # v => Translate(n, c, w) = Translate(m, c, w)
         /\ ~e.present => Translate(n, c, v) = None
         /\ e.present => Translate(n, c, v).f = e.f
<1>1. Changed(m, n, at, Idx(1, v), e) /\ Tables(own, n, c) /\ DOMAIN n = DOMAIN m
  BY Zenon
<1>2. 1 \in 1 .. 3 /\ \A w : Key(1 - 1, w) = w
  <2>1. 1 - 1 = 0 /\ \A w : Key(0, w) = w
    BY DEF Key
  <2> QED
    BY <2>1
<1>3. \A w \in Pages : ReadAfter(m, n, c, 1, v, e, w)
  BY <1>1, <1>2, Replace, Zenon
<1>4. ASSUME NEW w \in Pages, w # v PROVE Translate(n, c, w) = Translate(m, c, w)
  <2>1. /\ E4(n, c, w) = E4(m, c, w) /\ E3(n, c, w) = E3(m, c, w)
        /\ Mid(m, c, w) => E2(n, c, w) = E2(m, c, w)
        /\ Low(m, c, w) => E1(n, c, w) = E1(m, c, w)
    <3>1. ReadAfter(m, n, c, 1, v, e, w) /\ Key(1 - 1, w) = w /\ Key(1 - 1, v) = v
      BY <1>2, <1>3, Zenon
    <3>2. Key(1 - 1, w) # Key(1 - 1, v)
      BY <1>4, <3>1, Zenon
    <3> QED
      BY <3>1, <3>2, Zenon DEF ReadAfter
  <2>2. E4(m, c, w).present
    BY WalkDown, Zenon
  <2> QED
    BY <2>1, <2>2, SameWalk
<1>5. E4(n, c, v) = E4(m, c, v) /\ E3(n, c, v) = E3(m, c, v) /\ E2(n, c, v) = E2(m, c, v)
      /\ Low(m, c, v) /\ E1(n, c, v) = e
  <2>1. ReadAfter(m, n, c, 1, v, e, v) /\ 1 <= 2
    BY <1>3
  <2> QED
    BY <2>1, Zenon DEF ReadAfter
<1>6. OnWalk(n, c, 1, v, at)
  BY <1>5, Zenon DEF OnWalk, Low, Mid
<1>7. n[at][Idx(1, v)] = e
  BY <1>5, <1>6, Zenon DEF OnWalk, E1
<1>8. /\ ~n[at][Idx(1, v)].present => Translate(n, c, v) = None
      /\ n[at][Idx(1, v)].present => Translate(n, c, v).f = n[at][Idx(1, v)].f
  BY <1>1, <1>6, LeafIs, Zenon
<1> QED
  BY <1>4, <1>7, <1>8, Zenon
-----------------------------------------------------------------------------
(* The cached translations are those of the tables m.                      *)
Coherent(t, m) ==
    /\ DOMAIN t = Pages
    /\ \A w \in Pages : t[w] # None => t[w] = Translate(m, cr3, w)

(* The state r follows from m, pa, t by changing the mapping of v only.    *)
Touches(m, pa, t, r, v) ==
    /\ \E o : SoundHeap(o, r.m, r.pa, cr3)
    /\ \A w \in Pages : w # v => Translate(r.m, cr3, w) = Translate(m, cr3, w)
    /\ DOMAIN m \subseteq DOMAIN r.m
    /\ \A f \in DOMAIN r.m \ DOMAIN m : f \in 1 .. HeapEnd - 1 /\ pa <= (HHDM + f) * UNIT
    /\ r.pa \in Nat /\ pa <= r.pa
    /\ Coherent(t, m) => Coherent(r.t, r.m)

(* What keeps every translation keeps the cache coherent.                  *)
LEMMA KeptCoherent ==
  ASSUME NEW m, NEW pa, NEW t, NEW n, NEW qa, NEW u, Kept(m, pa, t, n, qa, u), Coherent(t, m)
  PROVE  Coherent(u, n)
<1>1. /\ \A w \in Pages : Translate(n, cr3, w) = Translate(m, cr3, w)
      /\ u = t \/ u = FlushAll
  BY Zenon DEF Kept
<1>2. DOMAIN FlushAll = Pages /\ \A w \in Pages : FlushAll[w] = None
  BY Zenon DEF FlushAll
<1> QED
  BY <1>1, <1>2, Zenon DEF Coherent

Wrote(g, v, e, x) ==
    Walking([g.m EXCEPT ![g.at][Idx(1, v)] = e], g.pa, [g.t EXCEPT ![v] = None], x)

Written(m, pa, t, r, v, e) ==
    /\ Touches(m, pa, t, r, v)
    /\ ~e.present => Translate(r.m, cr3, v) = None
    /\ e.present => Translate(r.m, cr3, v).f = e.f

Remapped(m, pa, t, r, v, f) ==
    r.pa <= End => Touches(m, pa, t, r, v) /\ Translate(r.m, cr3, v).f = f

(* After a walk to v's last table, its entry is written and its cached     *)
(* translation dropped.                                                    *)
LEMMA LeafTouches ==
  ASSUME NEW m, NEW pa, NEW t, NEW v \in Pages, NEW create, NEW g, Walked(m, pa, t, g, v, create),
         OnWalk(g.m, cr3, 1, v, g.at), NEW e \in Entries, NEW x
  PROVE  \A r : r = Wrote(g, v, e, x) => Written(m, pa, t, r, v, e)
<1> DEFINE n == [g.m EXCEPT ![g.at][Idx(1, v)] = e]
           u == [g.t EXCEPT ![v] = None]
<1>1. PICK o : SoundHeap(o, g.m, g.pa, cr3)
  BY Zenon DEF Walked
<1>2. Kept(m, pa, t, g.m, g.pa, g.t)
  BY Zenon DEF Walked
<1>3. Tables(o, g.m, cr3) /\ FramesBelow(g.m, g.pa) /\ g.pa \in Nat /\ (HHDM + 1) * UNIT <= g.pa
  BY <1>1, Zenon DEF SoundHeap
<1>4. Tables(o, n, cr3) /\ DOMAIN n = DOMAIN g.m /\ Changed(g.m, n, g.at, Idx(1, v), e)
  BY <1>3, LeafTables, ZenonT(30)
<1> HIDE DEF n
<1>5. /\ \A w \in Pages : w # v => Translate(n, cr3, w) = Translate(g.m, cr3, w)
      /\ ~e.present => Translate(n, cr3, v) = None
      /\ e.present => Translate(n, cr3, v).f = e.f
  <2>1. Tables(o, g.m, cr3)
    BY <1>3, Zenon
  <2> HIDE DEF u
  <2> QED
    BY <1>4, <2>1, LeafWritten, SMTT(30)
<1>6. SoundHeap(o, n, g.pa, cr3)
  BY <1>3, <1>4, Zenon DEF SoundHeap, FramesBelow
<1>7. Coherent(t, m) => Coherent(u, n)
  <2> SUFFICES ASSUME Coherent(t, m) PROVE Coherent(u, n)
    BY Zenon
  <2>1. Coherent(g.t, g.m)
    BY <1>2, KeptCoherent, Zenon
  <2>2. DOMAIN g.t = Pages /\ \A w \in Pages : g.t[w] # None => g.t[w] = Translate(g.m, cr3, w)
    BY <2>1, Zenon DEF Coherent
  <2>3. DOMAIN u = Pages /\ \A w \in Pages : u[w] = IF w = v THEN None ELSE g.t[w]
    BY <2>2, ZenonT(30)
  <2> QED
    BY <1>5, <2>2, <2>3, Zenon DEF Coherent
<1> HIDE DEF u
<1> SUFFICES ASSUME NEW r, r = Wrote(g, v, e, x) PROVE Written(m, pa, t, r, v, e)
  BY Zenon
<1>8. r.m = n /\ r.pa = g.pa /\ r.t = u
  <2>1. r = Walking(n, g.pa, u, x)
    BY Zenon DEF n, u, Wrote
  <2> QED
    BY <2>1, Fields
<1>9. Touches(m, pa, t, r, v)
  BY <1>8, <1>2, <1>4, <1>5, <1>6, <1>7, ZenonT(30) DEF Touches, Kept
<1> QED
  BY <1>8, <1>5, <1>9, Zenon DEF Written
-----------------------------------------------------------------------------
(* The operations over the walk.                                           *)
LEMMA LeafIndex == \A v : Idx(1, v) = PT_INDEX(v)
BY DEF Idx

(* Where a walk ends: in the last table, or nowhere.                       *)
LEMMA WalkEnds ==
  ASSUME NEW m, NEW pa, NEW t, NEW v \in Pages, NEW create, NEW g, Walked(m, pa, t, g, v, create)
  PROVE  /\ g.at # NULL_TABLE <=> OnWalk(g.m, cr3, 1, v, g.at)
         /\ create => OnWalk(g.m, cr3, 1, v, g.at)
         /\ g.at = NULL_TABLE \/ ~g.m[g.at][PT_INDEX(v)].present => Translate(m, cr3, v) = None
         /\ g.at # NULL_TABLE /\ g.m[g.at][PT_INDEX(v)].present =>
               Translate(m, cr3, v).f = g.m[g.at][PT_INDEX(v)].f
<1>1. PICK o : SoundHeap(o, g.m, g.pa, cr3)
  BY Zenon DEF Walked
<1>2. Tables(o, g.m, cr3) /\ NULL_TABLE \notin DOMAIN g.m
  BY <1>1, Zenon DEF SoundHeap, Tables
<1>3. OnWalk(g.m, cr3, 1, v, g.at) => g.at \in DOMAIN g.m
  <2>1. 1 \in 1 .. 3
    OBVIOUS
  <2> QED
    BY <1>2, <2>1, OnWalkIn, Zenon
<1>4. OnWalk(g.m, cr3, 1, v, g.at) \/ (g.at = NULL_TABLE /\ Translate(g.m, cr3, v) = None /\ ~create)
  BY Zenon DEF Walked, WalkAt
<1>5. Translate(g.m, cr3, v) = Translate(m, cr3, v)
  BY Zenon DEF Walked, Kept
<1>6. OnWalk(g.m, cr3, 1, v, g.at) =>
        /\ ~g.m[g.at][Idx(1, v)].present => Translate(g.m, cr3, v) = None
        /\ g.m[g.at][Idx(1, v)].present => Translate(g.m, cr3, v).f = g.m[g.at][Idx(1, v)].f
  BY <1>2, LeafIs, SMTT(30)
<1> QED
  BY <1>2, <1>3, <1>4, <1>5, <1>6, LeafIndex, ZenonT(30)

(* map_page() gives the page its frame, leaves every other page alone and  *)
(* nothing stale in the cache.                                             *)
LEMMA MapPage ==
  ASSUME NEW own, NEW m, NEW pa, NEW t, NEW at, SoundHeap(own, m, pa, cr3),
         NEW v \in Pages, NEW f \in Nat, NEW k \in BOOLEAN, NEW wr \in BOOLEAN,
         NEW r, r = map_page(Walking(m, pa, t, at), v, f, k, wr, cr3)
  PROVE  /\ r = Walking(r.m, r.pa, r.t, r.at) /\ r.pa \in Nat /\ pa <= r.pa
         /\ Remapped(m, pa, t, r, v, f)
<1> DEFINE g == get_page_entry(Walking(m, pa, t, at), v, TRUE, cr3)
           e == Entry(f, FALSE, wr, ~k)
<1>1. r = [g EXCEPT !.m[g.at][PT_INDEX(v)] = e, !.t[v] = None]
  BY Zenon DEF map_page
<1>2. pa \in Nat
  BY Zenon DEF SoundHeap
<1>3. g = Walking(g.m, g.pa, g.t, g.at) /\ g.pa \in Nat /\ pa <= g.pa
  BY <1>2, EntryGrows, Zenon
<1>4. g.pa <= End => Walked(m, pa, t, g, v, TRUE)
  BY GetPageEntry, Zenon
<1>5. e \in Entries /\ e.present /\ e.f = f
  BY EntryTyped, ZenonT(30)
<1> HIDE DEF g, e
<1>6. r = Wrote(g, v, e, g.at)
  <2>1. r = [g EXCEPT !.m[g.at][Idx(1, v)] = e, !.t[v] = None]
    BY <1>1, LeafIndex, Zenon
  <2> DEFINE n == [g.m EXCEPT ![g.at][Idx(1, v)] = e]
             u == [g.t EXCEPT ![v] = None]
  <2>2. [g EXCEPT !.m = n] = Walking(n, g.pa, g.t, g.at)
    <3> HIDE DEF n
    <3> QED
      BY <1>3 DEF Walking
  <2>3. [Walking(n, g.pa, g.t, g.at) EXCEPT !.t = u] = Walking(n, g.pa, u, g.at)
    <3> HIDE DEF n, u
    <3> QED
      BY DEF Walking
  <2>4. Walking(n, g.pa, g.t, g.at).t = g.t
    BY Zenon DEF Walking
  <2> QED
    BY <2>1, <2>2, <2>3, <2>4, Zenon DEF Wrote
<1>7. r = Walking(r.m, r.pa, r.t, r.at) /\ r.pa = g.pa
  BY <1>6 DEF Walking, Wrote
<1>8. ASSUME r.pa <= End PROVE Touches(m, pa, t, r, v) /\ Translate(r.m, cr3, v).f = f
  <2>1. Walked(m, pa, t, g, v, TRUE)
    BY <1>4, <1>7, <1>8, Zenon
  <2>2. OnWalk(g.m, cr3, 1, v, g.at)
    BY <2>1, WalkEnds, Zenon
  <2>3. Written(m, pa, t, r, v, e)
    BY <1>5, <1>6, <2>1, <2>2, LeafTouches, Zenon
  <2> QED
    BY <1>5, <2>3, Zenon DEF Written
<1> QED
  BY <1>3, <1>7, <1>8, Zenon DEF Remapped

(* A change of one page's translation after one of none.                   *)
LEMMA KeptTouches ==
  ASSUME NEW m, NEW pa \in Nat, NEW t, NEW n, NEW qa, NEW u, Kept(m, pa, t, n, qa, u),
         NEW r, NEW v, Touches(n, qa, u, r, v)
  PROVE  Touches(m, pa, t, r, v)
<1>1. /\ \A w \in Pages : Translate(n, cr3, w) = Translate(m, cr3, w)
      /\ DOMAIN m \subseteq DOMAIN n
      /\ \A f \in DOMAIN n \ DOMAIN m : f \in 1 .. HeapEnd - 1 /\ pa <= (HHDM + f) * UNIT
      /\ qa \in Nat /\ pa <= qa
  BY Zenon DEF Kept
<1>2. /\ \E o : SoundHeap(o, r.m, r.pa, cr3)
      /\ \A w \in Pages : w # v => Translate(r.m, cr3, w) = Translate(n, cr3, w)
      /\ DOMAIN n \subseteq DOMAIN r.m
      /\ \A f \in DOMAIN r.m \ DOMAIN n : f \in 1 .. HeapEnd - 1 /\ qa <= (HHDM + f) * UNIT
      /\ r.pa \in Nat /\ qa <= r.pa
      /\ Coherent(u, n) => Coherent(r.t, r.m)
  BY Zenon DEF Touches
<1>3. Coherent(t, m) => Coherent(r.t, r.m)
  BY <1>2, KeptCoherent, Zenon
<1>4. ASSUME NEW f \in DOMAIN r.m \ DOMAIN m PROVE f \in 1 .. HeapEnd - 1 /\ pa <= (HHDM + f) * UNIT
  <2>1. CASE f \in DOMAIN n
    BY <1>1, <2>1, Zenon
  <2>2. CASE f \notin DOMAIN n
    <3>1. f \in 1 .. HeapEnd - 1 /\ qa <= (HHDM + f) * UNIT
      BY <1>2, <2>2, Zenon
    <3>2. (HHDM + f) * UNIT \in Int
      BY <3>1, PagingAssumption, SMTT(30)
    <3> QED
      BY <1>1, <3>1, <3>2
  <2> QED
    BY <2>1, <2>2, Zenon
<1>5. r.pa \in Nat /\ pa <= r.pa
  <2>1. \A a, b, c \in Nat : a <= b /\ b <= c => a <= c
    OBVIOUS
  <2> QED
    BY <1>1, <1>2, <2>1, Zenon
<1> QED
  BY <1>1, <1>2, <1>3, <1>4, <1>5, Zenon DEF Touches

(* A walk alone changes no translation.                                    *)
LEMMA WalkTouches ==
  ASSUME NEW m, NEW pa, NEW t, NEW v, NEW create, NEW g, Walked(m, pa, t, g, v, create), NEW r,
         r.m = g.m, r.pa = g.pa, r.t = g.t
  PROVE  Touches(m, pa, t, r, v)
BY KeptCoherent, Zenon DEF Walked, Kept, Touches

(* map_physical_range() on one frame.                                      *)
LEMMA MapFrame ==
  ASSUME NEW own, NEW m, NEW pa, NEW t, NEW at, SoundHeap(own, m, pa, cr3),
         NEW f \in 0 .. NFrames - 1, NEW r, r = map_physical_frame(Walking(m, pa, t, at), f, cr3),
         r.pa <= End
  PROVE  /\ Touches(m, pa, t, r, HHDM + f)
         /\ Translate(r.m, cr3, HHDM + f) # Translate(m, cr3, HHDM + f) =>
              Translate(m, cr3, HHDM + f) = None /\ Translate(r.m, cr3, HHDM + f).f = f
<1> DEFINE v == HHDM + f
           g == get_page_entry(Walking(m, pa, t, at), v, FALSE, cr3)
<1>0. v \in Pages /\ f \in Nat /\ phys_to_virt(f) = v /\ End \in Int
  BY PagingAssumption DEF Pages, phys_to_virt, End
<1>1. pa \in Nat
  BY Zenon DEF SoundHeap
<1> HIDE DEF v
<1>2. r = IF g.at # NULL_TABLE /\ g.m[g.at][PT_INDEX(v)].present
          THEN g ELSE map_page(g, v, f, TRUE, TRUE, cr3)
  BY <1>0, Zenon DEF map_physical_frame
<1>3. g = Walking(g.m, g.pa, g.t, g.at) /\ g.pa \in Nat /\ pa <= g.pa
  BY <1>1, EntryGrows, ZenonT(30)
<1>4. g.pa <= End => Walked(m, pa, t, g, v, FALSE)
  BY <1>0, GetPageEntry, Zenon
<1> HIDE DEF g
<1>5. CASE g.at # NULL_TABLE /\ g.m[g.at][PT_INDEX(v)].present
  <2>1. r = g /\ Walked(m, pa, t, g, v, FALSE)
    BY <1>2, <1>4, <1>5, Zenon
  <2>2. Touches(m, pa, t, r, v)
    BY <2>1, WalkTouches, Zenon
  <2>3. Translate(r.m, cr3, v) = Translate(m, cr3, v)
    BY <1>0, <2>1, Zenon DEF Walked, Kept
  <2> QED
    BY <2>2, <2>3, Zenon DEF v
<1>6. CASE ~(g.at # NULL_TABLE /\ g.m[g.at][PT_INDEX(v)].present)
  <2>1. r = map_page(Walking(g.m, g.pa, g.t, g.at), v, f, TRUE, TRUE, cr3)
    BY <1>2, <1>3, <1>6, Zenon
  <2>2. Walked(m, pa, t, g, v, FALSE)
    <3> DEFINE h == get_page_entry(Walking(g.m, g.pa, g.t, g.at), v, TRUE, cr3)
    <3>1. r = [h EXCEPT !.m[h.at][PT_INDEX(v)] = Entry(f, FALSE, TRUE, ~TRUE), !.t[v] = None]
      BY <2>1, Zenon DEF map_page
    <3>2. h = Walking(h.m, h.pa, h.t, h.at) /\ h.pa \in Nat /\ g.pa <= h.pa
      BY <1>3, EntryGrows, Zenon
    <3> HIDE DEF h
    <3>3. r.pa = h.pa
      BY <3>1, <3>2, Zenon DEF Walking
    <3> QED
      <4>1. g.pa <= End
        BY <1>0, <1>3, <3>2, <3>3
      <4> QED
        BY <1>4, <4>1, Zenon
  <2>3. PICK o : SoundHeap(o, g.m, g.pa, cr3)
    BY <2>2, Zenon DEF Walked
  <2>4. Touches(g.m, g.pa, g.t, r, v) /\ Translate(r.m, cr3, v).f = f
    <3>1. ASSUME NEW k \in BOOLEAN, NEW wr \in BOOLEAN,
                 r = map_page(Walking(g.m, g.pa, g.t, g.at), v, f, k, wr, cr3)
          PROVE  Remapped(g.m, g.pa, g.t, r, v, f)
      BY <1>0, <2>3, <3>1, MapPage, SMTT(30)
    <3>2. Remapped(g.m, g.pa, g.t, r, v, f)
      BY <2>1, <3>1, Zenon
    <3> QED
      BY <3>2, Zenon DEF Remapped
  <2>5. Kept(m, pa, t, g.m, g.pa, g.t)
    BY <2>2, Zenon DEF Walked
  <2>6. Touches(m, pa, t, r, v)
    BY <1>1, <2>4, <2>5, KeptTouches, SMTT(30)
  <2>7. Translate(m, cr3, v) = None
    BY <1>0, <1>6, <2>2, WalkEnds, Zenon
  <2> QED
    BY <2>4, <2>6, <2>7, Zenon DEF v
<1> QED
  BY <1>5, <1>6, Zenon

(* unmap_page() on a page that is mapped.                                  *)
LEMMA UnmapPage ==
  ASSUME NEW own, NEW m, NEW pa, NEW t, NEW at, SoundHeap(own, m, pa, cr3),
         NEW v \in Pages, NEW r, r = unmap_page(Walking(m, pa, t, at), v, cr3),
         PageAlign(pa) + 2 * UNIT <= End, Translate(m, cr3, v) # None
  PROVE  /\ Touches(m, pa, t, r, v) /\ Translate(r.m, cr3, v) = None
         /\ r.at = Translate(m, cr3, v).f
<1> DEFINE g == get_page_entry(Walking(m, pa, t, at), v, FALSE, cr3)
           e == g.m[g.at][PT_INDEX(v)]
<1>1. r = IF g.at = NULL_TABLE \/ ~e.present THEN [g EXCEPT !.at = 0]
          ELSE [g EXCEPT !.m[g.at][PT_INDEX(v)] = NoEntry, !.t[v] = IF cr3 = cr3 THEN None ELSE @,
                         !.at = e.f]
  BY Zenon DEF unmap_page
<1>2. g = Walking(g.m, g.pa, g.t, g.at) /\ Walked(m, pa, t, g, v, FALSE)
  <2>1. g = Walking(g.m, g.pa, g.t, g.at) /\ g.pa <= End
    <3>1. ASSUME NEW create, NEW h, h = get_page_entry(Walking(m, pa, t, at), v, create, cr3)
          PROVE  h = Walking(h.m, h.pa, h.t, h.at) /\ h.pa <= End
      <4>1. PageAlign(pa) + 2 * UNIT <= End => h.pa <= End
        BY <3>1, GetPageEntry, Zenon
      <4>2. h = Walking(h.m, h.pa, h.t, h.at)
        BY <3>1, GetPageEntry
      <4> QED
        BY <4>1, <4>2, Zenon
    <3> QED
      BY <3>1, Zenon
  <2>2. g.pa <= End => Walked(m, pa, t, g, v, FALSE)
    BY GetPageEntry, ZenonT(30)
  <2> QED
    BY <2>1, <2>2, Zenon
<1> HIDE DEF g
<1>3. g.at # NULL_TABLE /\ e.present /\ OnWalk(g.m, cr3, 1, v, g.at) /\ Translate(m, cr3, v).f = e.f
  BY <1>2, WalkEnds, ZenonT(30)
<1> HIDE DEF e
<1>4. r = Wrote(g, v, NoEntry, e.f)
  <2>1. r = [g EXCEPT !.m[g.at][Idx(1, v)] = NoEntry, !.t[v] = None, !.at = e.f]
    BY <1>1, <1>3, LeafIndex, Zenon
  <2> DEFINE n == [g.m EXCEPT ![g.at][Idx(1, v)] = NoEntry]
             u == [g.t EXCEPT ![v] = None]
  <2>2. [g EXCEPT !.m = n] = Walking(n, g.pa, g.t, g.at)
    <3> HIDE DEF n
    <3> QED
      BY <1>2 DEF Walking
  <2>3. [Walking(n, g.pa, g.t, g.at) EXCEPT !.t = u] = Walking(n, g.pa, u, g.at)
    <3> HIDE DEF n, u
    <3> QED
      BY DEF Walking
  <2>4. Walking(n, g.pa, g.t, g.at).t = g.t
    BY Zenon DEF Walking
  <2>5. [Walking(n, g.pa, u, g.at) EXCEPT !.at = e.f] = Walking(n, g.pa, u, e.f)
    <3> HIDE DEF n, u
    <3> QED
      BY DEF Walking
  <2> QED
    BY <2>1, <2>2, <2>3, <2>4, <2>5, Zenon DEF Wrote
<1>5. NoEntry \in Entries /\ ~NoEntry.present
  BY EntryTyped, Zenon
<1>6. r.at = e.f
  BY <1>4 DEF Wrote, Walking
<1>7. Written(m, pa, t, r, v, NoEntry)
  BY <1>2, <1>3, <1>4, <1>5, LeafTouches, Zenon
<1> QED
  BY <1>3, <1>5, <1>6, <1>7, Zenon DEF Written
=============================================================================
