---------------------------- MODULE PagingProofs ----------------------------
(***************************************************************************)
(* Memory is handed out once and stays where it was mapped, and nothing is *)
(* translated by an entry that is no longer there, for any amount of       *)
(* memory, any layout of it and any number of processes.                   *)
(***************************************************************************)
EXTENDS PageWalkProofs

(* The heap below lim: the blocks of S and B and the tables of m.  A stack *)
(* is aligned and lies in the modelled heap.                               *)
Within(b, lim) == /\ b[1] \in Nat /\ b[2] \in Nat
                  /\ (HHDM + 1) * UNIT <= b[1] /\ b[1] < b[2] /\ b[2] <= lim

IsStack(b) == b[1] % UNIT = 0 /\ b[2] = b[1] + KSTACK * UNIT /\ b[2] <= End

Beside(b, f) == b[2] <= (HHDM + f) * UNIT \/ (HHDM + f + 1) * UNIT <= b[1]

HeapAt(S, B, m, lim) ==
    /\ lim \in Nat /\ DOMAIN m \subseteq Nat
    /\ \A f \in DOMAIN m : f < NFrames => f \in 1 .. HeapEnd - 1 /\ (HHDM + f + 1) * UNIT <= lim
    /\ \A b \in S \cup B : Within(b, lim)
    /\ \A a, b \in S \cup B : a # b => ~Overlap(a, b)
    /\ \A b \in S \cup B, f \in DOMAIN m : f < NFrames => Beside(b, f)
    /\ S \cap B = {}
    /\ \A b \in S : IsStack(b)

(* The sizes the heap is laid out with.                                    *)
LEMMA Sizes ==
  /\ UNIT \in Nat \ {0} /\ HHDM \in Nat /\ NFrames \in Nat \ {0} /\ HHDM = NFrames
  /\ HeapEnd \in Nat /\ HeapEnd <= NFrames /\ KSTACK \in Nat /\ KSTACK >= 2
  /\ End \in Nat /\ (HHDM + 1) * UNIT \in Nat
  /\ \A f \in Nat : /\ (HHDM + f) * UNIT \in Nat /\ (HHDM + f + 1) * UNIT \in Nat
                    /\ (HHDM + f + 1) * UNIT = (HHDM + f) * UNIT + UNIT
  /\ KSTACK * UNIT \in Nat /\ KSTACK * UNIT >= 2 * UNIT /\ (KSTACK + 3) * UNIT = KSTACK * UNIT + 3 * UNIT
<1>1. /\ UNIT \in Nat \ {0} /\ HHDM \in Nat /\ NFrames \in Nat \ {0} /\ HHDM = NFrames
      /\ HeapEnd \in Nat /\ HeapEnd <= NFrames /\ KSTACK \in Nat /\ KSTACK >= 2
  BY PagingAssumption
<1>2. \A x, y \in Nat : x * y \in Nat
  OBVIOUS
<1>3. \A x, y \in Nat : (x + 1) * y = x * y + y /\ (x + 3) * y = x * y + 3 * y
  OBVIOUS
<1>4. \A x, y \in Nat : x >= 2 => x * y >= 2 * y
  OBVIOUS
<1>5. End \in Nat /\ (HHDM + 1) * UNIT \in Nat /\ KSTACK * UNIT \in Nat
  BY <1>1, <1>2 DEF End
<1>6. ASSUME NEW f \in Nat
      PROVE  /\ (HHDM + f) * UNIT \in Nat /\ (HHDM + f + 1) * UNIT \in Nat
             /\ (HHDM + f + 1) * UNIT = (HHDM + f) * UNIT + UNIT
  <2>1. HHDM + f \in Nat /\ UNIT \in Nat /\ HHDM + f + 1 \in Nat
    BY <1>1
  <2> QED
    BY <1>2, <1>3, <2>1, Zenon
<1>7. KSTACK * UNIT >= 2 * UNIT /\ (KSTACK + 3) * UNIT = KSTACK * UNIT + 3 * UNIT
  BY <1>1, <1>3, <1>4, Zenon
<1> QED
  BY <1>1, <1>5, <1>6, <1>7, Zenon

(* A heap below one address is below every later one.                      *)
LEMMA HeapMono ==
  ASSUME NEW S, NEW B, NEW m, NEW lim, HeapAt(S, B, m, lim), NEW top \in Nat, lim <= top
  PROVE  HeapAt(S, B, m, top)
<1>1. ASSUME NEW b \in S \cup B PROVE Within(b, top)
  BY Sizes DEF HeapAt, Within
<1>2. ASSUME NEW f \in DOMAIN m, f < NFrames PROVE f \in 1 .. HeapEnd - 1 /\ (HHDM + f + 1) * UNIT <= top
  <2>1. f \in 1 .. HeapEnd - 1 /\ (HHDM + f + 1) * UNIT <= lim /\ lim \in Nat /\ f \in Nat
    BY <1>2, Zenon DEF HeapAt
  <2> QED
    BY <2>1, Sizes
<1> QED
  BY <1>1, <1>2, Zenon DEF HeapAt

(* New tables are taken from above what is there.                          *)
LEMMA HeapTables ==
  ASSUME NEW S, NEW B, NEW m, NEW lim, HeapAt(S, B, m, lim), NEW n, NEW pa, NEW qa \in Nat,
         pa \in Nat, lim <= pa, pa <= qa, DOMAIN n \subseteq Nat, FramesBelow(n, qa),
         \A f \in DOMAIN n \ DOMAIN m : f \in 1 .. HeapEnd - 1 /\ pa <= (HHDM + f) * UNIT
  PROVE  HeapAt(S, B, n, qa)
<1>0. /\ lim \in Nat /\ DOMAIN m \subseteq Nat
      /\ \A f \in DOMAIN m : f < NFrames => f \in 1 .. HeapEnd - 1 /\ (HHDM + f + 1) * UNIT <= lim
      /\ \A b \in S \cup B : Within(b, lim)
      /\ \A a, b \in S \cup B : a # b => ~Overlap(a, b)
      /\ \A b \in S \cup B, f \in DOMAIN m : f < NFrames => Beside(b, f)
      /\ S \cap B = {}
      /\ \A b \in S : IsStack(b)
  BY Zenon DEF HeapAt
<1>1. ASSUME NEW b \in S \cup B PROVE Within(b, qa)
  BY <1>0, Sizes DEF Within
<1>2. ASSUME NEW f \in DOMAIN n, f < NFrames PROVE f \in 1 .. HeapEnd - 1 /\ (HHDM + f + 1) * UNIT <= qa
  BY <1>0, <1>2, Zenon DEF FramesBelow
<1>3. ASSUME NEW b \in S \cup B, NEW f \in DOMAIN n, f < NFrames PROVE Beside(b, f)
  <2>1. CASE f \in DOMAIN m
    BY <1>0, <1>3, <2>1, Zenon
  <2>2. CASE f \notin DOMAIN m
    <3>1. pa <= (HHDM + f) * UNIT /\ b[2] <= lim /\ b[2] \in Nat /\ (HHDM + f) * UNIT \in Nat
      BY <1>0, <2>2, Sizes, Zenon DEF Within
    <3> QED
      BY <1>0, <3>1 DEF Beside
  <2> QED
    BY <2>1, <2>2, Zenon
<1> QED
  BY <1>0, <1>1, <1>2, <1>3, Zenon DEF HeapAt

(* A block handed out above everything else.                               *)
LEMMA AboveAll ==
  ASSUME NEW S, NEW B, NEW m, NEW lim, HeapAt(S, B, m, lim), NEW x, NEW y, x \in Nat, y \in Nat,
         lim <= x, x < y, (HHDM + 1) * UNIT <= x, NEW a, a = <<x, y>>
  PROVE  /\ Within(a, y) /\ a \notin S \cup B
         /\ \A b \in S \cup B : ~Overlap(a, b) /\ ~Overlap(b, a)
         /\ \A f \in DOMAIN m : f < NFrames => Beside(a, f)
<1>0. lim \in Nat /\ a[1] = x /\ a[2] = y
  BY Zenon DEF HeapAt
<1>1. Within(a, y)
  BY <1>0 DEF Within
<1>2. ASSUME NEW b \in S \cup B PROVE ~Overlap(a, b) /\ ~Overlap(b, a) /\ b # a
  <2>1. b[1] \in Nat /\ b[2] \in Nat /\ b[2] <= lim /\ b[1] < b[2]
    BY Zenon DEF HeapAt, Within
  <2>2. ~(a[1] < b[2])
    BY <1>0, <2>1
  <2>3. b # a
    BY <1>0, <2>1
  <2> QED
    BY <2>2, <2>3, Zenon DEF Overlap
<1>3. ASSUME NEW f \in DOMAIN m, f < NFrames PROVE Beside(a, f)
  <2>1. (HHDM + f + 1) * UNIT <= lim /\ f \in Nat
    BY <1>3, Zenon DEF HeapAt
  <2>2. (HHDM + f + 1) * UNIT <= a[1]
    BY <1>0, <2>1, Sizes
  <2> QED
    BY <2>2, Zenon DEF Beside
<1> QED
  BY <1>1, <1>2, <1>3, Zenon

(* A block taken above the heap joins it (kmalloc()).                      *)
LEMMA HeapBlock ==
  ASSUME NEW S, NEW B, NEW m, NEW lim, HeapAt(S, B, m, lim), NEW x, NEW y, x \in Nat, y \in Nat,
         lim <= x, x < y, (HHDM + 1) * UNIT <= x
  PROVE  HeapAt(S, B \cup {<<x, y>>}, m, y)
<1> DEFINE a == <<x, y>>
<1>1. /\ Within(a, y) /\ a \notin S \cup B
      /\ \A b \in S \cup B : ~Overlap(a, b) /\ ~Overlap(b, a)
      /\ \A f \in DOMAIN m : f < NFrames => Beside(a, f)
  BY AboveAll, Zenon
<1>2. HeapAt(S, B, m, y)
  <2>1. lim <= y
    BY DEF HeapAt
  <2> QED
    BY <2>1, HeapMono, Zenon
<1> HIDE DEF a
<1>3. HeapAt(S, B \cup {a}, m, y)
  BY <1>1, <1>2, Zenon DEF HeapAt
<1> QED
  BY <1>3, Zenon DEF a

(* A stack taken above the heap joins it (kmalloc_a()).                    *)
LEMMA HeapStack ==
  ASSUME NEW S, NEW B, NEW m, NEW lim, HeapAt(S, B, m, lim), NEW x, NEW y, x \in Nat, y \in Nat,
         lim <= x, x < y, (HHDM + 1) * UNIT <= x, y = x + KSTACK * UNIT, x % UNIT = 0, y <= End
  PROVE  HeapAt(S \cup {<<x, y>>}, B, m, y)
<1> DEFINE a == <<x, y>>
<1>1. /\ Within(a, y) /\ a \notin S \cup B
      /\ \A b \in S \cup B : ~Overlap(a, b) /\ ~Overlap(b, a)
      /\ \A f \in DOMAIN m : f < NFrames => Beside(a, f)
  BY AboveAll
<1>2. HeapAt(S, B, m, y)
  <2>1. lim <= y
    BY DEF HeapAt
  <2> QED
    BY <2>1, HeapMono, Zenon
<1>4. IsStack(a)
  BY Zenon DEF IsStack
<1> HIDE DEF a
<1>3. HeapAt(S \cup {a}, B, m, y)
  BY <1>1, <1>2, <1>4, Zenon DEF HeapAt
<1> QED
  BY <1>3, Zenon DEF a
-----------------------------------------------------------------------------
(* What the translations of the heap's pages are: their own frame, and     *)
(* nothing for the guard of a stack.                                       *)
Direct(i) == [f |-> i, write |-> TRUE, user |-> FALSE]

Guards(S) == {b[1] \div UNIT : b \in S}

MapAt(S, m, c) ==
    /\ \A i \in 1 .. HeapEnd - 1 : HHDM + i \notin Guards(S) => Translate(m, c, HHDM + i) = Direct(i)
    /\ \A g \in Guards(S) : Translate(m, c, g) = None

(* Where each process is in alloc_process(): only the one on the CPU is in *)
(* it, with interrupts off.                                                *)
Pcs == {"idle", "align", "read", "bump", "vma", "vmabump", "guard", "restore"}

ProcOK ==
    /\ fk \in [Procs \cup {"boot"} -> [pc : Pcs, flags : BOOLEAN, stack : Nat, vma : Nat]]
    /\ intr \in BOOLEAN /\ task \in Procs \cup {"boot"}
    /\ \A p \in Procs : fk[p].pc # "idle" => p = task /\ ~intr
    /\ task # "boot" => fk["boot"].pc = "restore"
    /\ fk["boot"].pc # "restore" => stacks = {}

RangeOK ==
    /\ range[1] \in Nat /\ range[2] \in Int /\ range[2] < NFrames
    /\ range[1] <= range[2] => task = "boot" /\ fk["boot"].pc = "idle"

(* What the process on the CPU has read and not yet handed out, and the    *)
(* room that is left.                                                      *)
StepOK(me, pa) ==
    /\ me.pc \in {"align", "read"} => pa + (KSTACK + 3) * UNIT <= End
    /\ me.pc = "read" => pa % UNIT = 0
    /\ me.pc \in {"bump", "vma", "vmabump", "guard"} =>
          /\ me.stack % UNIT = 0 /\ (HHDM + 1) * UNIT <= me.stack
          /\ me.stack + (KSTACK + 3) * UNIT <= End
    /\ me.pc = "bump" => me.stack = pa
    /\ me.pc \in {"vma", "vmabump"} => me.stack + KSTACK * UNIT = pa
    /\ me.pc = "vmabump" => me.vma = pa
    /\ me.pc = "guard" => me.stack + KSTACK * UNIT = me.vma /\ me.vma + 1 = pa

Limit(me, pa) == IF me.pc \in {"vma", "vmabump", "guard"} THEN me.stack ELSE pa

(* The inductive invariant.                                                *)
MemOK ==
    /\ placement_address \in Nat /\ (HHDM + 1) * UNIT <= placement_address
    /\ \E own : Tables(own, mem, cr3)
    /\ HeapAt(stacks, blocks, mem, Limit(Me, placement_address))
    /\ MapAt(stacks, mem, cr3)

PagingInv == ProcOK /\ RangeOK /\ StepOK(Me, placement_address) /\ MemOK /\ Coherent(tlb, mem)

(* A page of the heap.                                                     *)
LEMMA HeapPage ==
  ASSUME NEW i \in 1 .. HeapEnd - 1
  PROVE  HHDM + i \in Pages /\ Direct(i) # None /\ Direct(i).f = i /\ Direct(i).write
<1>1. i < NFrames /\ i \in Nat
  BY Sizes
<1>2. HHDM + i \in Pages
  BY <1>1, Sizes DEF Pages
<1>3. Direct(i).f = i /\ None.f = NFrames /\ Direct(i).write
  BY Zenon DEF Direct, None
<1> QED
  BY <1>1, <1>2, <1>3, Sizes

(* The page of an aligned address of the heap.                             *)
LEMMA AlignedPage ==
  ASSUME NEW x \in Nat, x % UNIT = 0
  PROVE  x \div UNIT \in Nat /\ x = (x \div UNIT) * UNIT
<1>1. UNIT \in Nat \ {0}
  BY Sizes, Zenon
<1>2. x = UNIT * (x \div UNIT) + (x % UNIT) /\ x \div UNIT \in Nat
  BY <1>1, DivMod, Zenon
<1> DEFINE q == x \div UNIT
<1> HIDE DEF q
<1>3. q \in Nat /\ x = UNIT * q + 0
  BY <1>2, Zenon DEF q
<1> QED
  BY <1>1, <1>3 DEF q

(* A stack is a whole number of pages of the heap.                         *)
LEMMA StackPages ==
  ASSUME NEW S, NEW B, NEW m, NEW lim, HeapAt(S, B, m, lim), NEW s \in S
  PROVE  /\ s[1] \in Nat /\ s[1] % UNIT = 0 /\ s[1] = (s[1] \div UNIT) * UNIT
         /\ s[2] = (s[1] \div UNIT + KSTACK) * UNIT /\ s[2] \div UNIT = s[1] \div UNIT + KSTACK
         /\ s[1] \div UNIT \in Nat
         /\ HHDM + 1 <= s[1] \div UNIT /\ s[1] \div UNIT + KSTACK <= HHDM + HeapEnd
<1> DEFINE g == s[1] \div UNIT
<1>1. Within(s, lim) /\ IsStack(s)
  BY Zenon DEF HeapAt
<1>2. s[1] \in Nat /\ s[1] % UNIT = 0 /\ s[2] = s[1] + KSTACK * UNIT /\ s[2] <= End
      /\ (HHDM + 1) * UNIT <= s[1]
  BY <1>1, Zenon DEF Within, IsStack
<1>3. g \in Nat /\ s[1] = g * UNIT
  BY <1>2, AlignedPage, Zenon
<1> HIDE DEF g
<1>4. s[2] = (g + KSTACK) * UNIT
  <2>1. \A x, y, z \in Nat : x * z + y * z = (x + y) * z
    OBVIOUS
  <2> QED
    BY <1>2, <1>3, <2>1, Sizes
<1>5. s[2] \div UNIT = g + KSTACK
  <2>1. g + KSTACK \in Nat /\ UNIT \in Nat \ {0}
    BY <1>3, Sizes
  <2>2. \A q \in Nat, u \in Nat \ {0} : (q * u) \div u = q
    BY Multiples
  <2> QED
    BY <1>4, <2>1, <2>2, Zenon
<1>6. \A x, y \in Nat, z \in Nat \ {0} : x * z <= y * z => x <= y
  BY Multiples
<1>7. HHDM + 1 <= g
  BY <1>2, <1>3, <1>6, Sizes
<1>8. g + KSTACK <= HHDM + HeapEnd
  <2>1. (g + KSTACK) * UNIT <= (HHDM + HeapEnd) * UNIT
    BY <1>2, <1>4, Zenon DEF End
  <2>2. g + KSTACK \in Nat /\ HHDM + HeapEnd \in Nat
    BY <1>3, Sizes
  <2> QED
    BY <1>6, <2>1, <2>2, Sizes, Zenon
<1> QED
  BY <1>2, <1>3, <1>4, <1>5, <1>7, <1>8, Zenon DEF g

(* Guards lie in the heap, and no other block or table holds one.          *)
LEMMA GuardsApart ==
  ASSUME NEW S, NEW B, NEW m, NEW lim, HeapAt(S, B, m, lim)
  PROVE  /\ \A g \in Guards(S) : g \in Pages
         /\ \A s \in S : \A v \in s[1] \div UNIT + 1 .. s[2] \div UNIT - 1 : v \notin Guards(S)
         /\ \A f \in DOMAIN m : f < NFrames => HHDM + f \notin Guards(S)
<1>1. ASSUME NEW s \in S PROVE s[1] \div UNIT \in Pages
  <2>1. s[1] \div UNIT \in Nat /\ s[1] \div UNIT + KSTACK <= HHDM + HeapEnd
    BY StackPages, Zenon
  <2> QED
    BY <2>1, Sizes DEF Pages
<1>2. ASSUME NEW s \in S, NEW t \in S, t[1] \div UNIT \in s[1] \div UNIT + 1 .. s[2] \div UNIT - 1
      PROVE  FALSE
  <2> DEFINE g == s[1] \div UNIT
             h == t[1] \div UNIT
  <2>1. g \in Nat /\ s[1] = g * UNIT /\ s[2] = (g + KSTACK) * UNIT /\ s[2] \div UNIT = g + KSTACK
    BY StackPages, Zenon
  <2>2. h \in Nat /\ t[1] = h * UNIT /\ t[2] = (h + KSTACK) * UNIT
    BY StackPages, Zenon
  <2>7. h \in g + 1 .. s[2] \div UNIT - 1
    BY <1>2, Zenon
  <2> HIDE DEF g, h
  <2>3. h \in g + 1 .. g + KSTACK - 1
    BY <2>1, <2>2, <2>7, Sizes
  <2>4. \A x, y \in Nat, z \in Nat \ {0} : x < y => x * z < y * z
    BY Multiples
  <2>5. s[1] < t[2] /\ t[1] < s[2]
    <3>1. g < h + KSTACK /\ h < g + KSTACK /\ h + KSTACK \in Nat /\ g + KSTACK \in Nat
      BY <2>1, <2>2, <2>3, Sizes
    <3> QED
      BY <2>1, <2>2, <2>4, <3>1, Sizes
  <2>6. s # t
    BY <2>1, <2>2, <2>3 DEF g, h
  <2> QED
    BY <2>5, <2>6, Zenon DEF HeapAt, Overlap
<1>3. ASSUME NEW s \in S, NEW f \in DOMAIN m, f < NFrames, s[1] \div UNIT = HHDM + f PROVE FALSE
  <2>1. Beside(s, f) /\ f \in Nat /\ Within(s, lim)
    BY <1>3, Zenon DEF HeapAt
  <2>2. s[1] = (HHDM + f) * UNIT /\ s[1] \in Nat
    BY <1>3, StackPages, Zenon
  <2> QED
    BY <2>1, <2>2, Sizes DEF Beside, Within
<1> QED
  BY <1>1, <1>2, <1>3, Zenon DEF Guards
-----------------------------------------------------------------------------
(* The invariant gives the three parts of MemoryApart, and TlbCoherent.    *)
LEMMA ReachedFromInv ==
  ASSUME PagingInv
  PROVE  TablesReached
<1>1. HeapAt(stacks, blocks, mem, Limit(Me, placement_address)) /\ MapAt(stacks, mem, cr3)
  BY Zenon DEF PagingInv, MemOK
<1>2. ASSUME NEW f \in DOMAIN mem, f < NFrames PROVE Seen(phys_to_virt(f)) = Direct(f)
  <2>1. f \in 1 .. HeapEnd - 1 /\ HHDM + f \notin Guards(stacks)
    BY <1>1, <1>2, GuardsApart, Zenon DEF HeapAt
  <2>2. Translate(mem, cr3, HHDM + f) = Direct(f)
    BY <1>1, <2>1, Zenon DEF MapAt
  <2>3. phys_to_virt(f) = HHDM + f
    BY <2>1, Sizes DEF phys_to_virt
  <2> QED
    BY <2>2, <2>3, Zenon DEF Seen
<1> QED
  BY <1>2, Zenon DEF TablesReached, Direct

(* The page below a stack is not mapped, and the pages of the stack are.   *)
LEMMA GuardedFromInv ==
  ASSUME PagingInv
  PROVE  StacksGuarded
<1>1. HeapAt(stacks, blocks, mem, Limit(Me, placement_address)) /\ MapAt(stacks, mem, cr3)
      /\ Coherent(tlb, mem)
  BY Zenon DEF PagingInv, MemOK
<1>2. ASSUME NEW s \in stacks PROVE Seen(s[1] \div UNIT) = None /\ tlb[s[1] \div UNIT] = None
  <2>1. s[1] \div UNIT \in Guards(stacks)
    BY Zenon DEF Guards
  <2>2. s[1] \div UNIT \in Pages
    BY <1>1, <2>1, GuardsApart, Zenon
  <2>3. Seen(s[1] \div UNIT) = None
    BY <1>1, <2>1, Zenon DEF MapAt, Seen
  <2> QED
    BY <1>1, <2>2, <2>3, Zenon DEF Coherent, Seen
<1>3. ASSUME NEW s \in stacks, NEW v \in s[1] \div UNIT + 1 .. s[2] \div UNIT - 1
      PROVE  Seen(v).f = v - HHDM /\ Seen(v).write
  <2> DEFINE g == s[1] \div UNIT
  <2>1. /\ g \in Nat /\ HHDM + 1 <= g /\ g + KSTACK <= HHDM + HeapEnd
        /\ s[2] \div UNIT = g + KSTACK
    BY <1>1, StackPages, Zenon
  <2>2. v \notin Guards(stacks) /\ v \in g + 1 .. s[2] \div UNIT - 1
    BY <1>1, GuardsApart, Zenon
  <2> HIDE DEF g
  <2>3. v - HHDM \in 1 .. HeapEnd - 1 /\ HHDM + (v - HHDM) = v
    BY <2>1, <2>2, Sizes
  <2> DEFINE i == v - HHDM
  <2>4. i \in 1 .. HeapEnd - 1 /\ HHDM + i = v
    BY <2>3, Zenon
  <2> HIDE DEF i
  <2>5. Translate(mem, cr3, v) = Direct(i)
    BY <1>1, <2>2, <2>4, Zenon DEF MapAt
  <2>6. Direct(i).f = i /\ Direct(i).write
    BY <2>4, HeapPage, Zenon
  <2> QED
    BY <2>5, <2>6, Zenon DEF Seen, i
<1> QED
  BY <1>2, <1>3, Zenon DEF StacksGuarded

(* What the heap handed out is apart.                                      *)
LEMMA DisjointFromInv ==
  ASSUME PagingInv
  PROVE  HeapDisjoint
<1> DEFINE lim == Limit(Me, placement_address)
           TB(f) == <<phys_to_virt(f) * UNIT, (phys_to_virt(f) + 1) * UNIT>>
<1>1. HeapAt(stacks, blocks, mem, lim) /\ ProcOK
  BY Zenon DEF PagingInv, MemOK
<1> HIDE DEF lim
<1>2. /\ \A b \in stacks \cup blocks : Within(b, lim)
      /\ \A a, b \in stacks \cup blocks : a # b => ~Overlap(a, b)
      /\ \A b \in stacks \cup blocks, f \in DOMAIN mem : f < NFrames => Beside(b, f)
      /\ stacks \cap blocks = {}
      /\ DOMAIN mem \subseteq Nat
  BY <1>1, Zenon DEF HeapAt
<1>3. ASSUME NEW f \in DOMAIN mem, f < NFrames
      PROVE  TB(f)[1] = (HHDM + f) * UNIT /\ TB(f)[2] = (HHDM + f + 1) * UNIT
  <2>1. phys_to_virt(f) = HHDM + f
    BY <1>2, Sizes DEF phys_to_virt
  <2> QED
    BY <2>1, Zenon
<1> HIDE DEF TB
<1>4. ASSUME NEW b \in stacks \cup blocks, NEW f \in DOMAIN mem, f < NFrames
      PROVE  ~Overlap(b, TB(f)) /\ ~Overlap(TB(f), b) /\ b # TB(f)
  <2>1. Beside(b, f) /\ Within(b, lim) /\ f \in Nat
    BY <1>2, <1>4, Zenon
  <2>2. /\ b[1] \in Nat /\ b[2] \in Nat /\ b[1] < b[2]
        /\ b[2] <= TB(f)[1] \/ TB(f)[2] <= b[1]
        /\ TB(f)[1] \in Nat /\ TB(f)[2] \in Nat /\ TB(f)[1] < TB(f)[2]
    BY <1>3, <1>4, <2>1, Sizes DEF Beside, Within
  <2> QED
    BY <2>2 DEF Overlap
<1>5. ASSUME NEW f \in DOMAIN mem, NEW g \in DOMAIN mem, f < NFrames, g < NFrames, f # g
      PROVE  ~Overlap(TB(f), TB(g))
  <2>1. f \in Nat /\ g \in Nat /\ (f < g \/ g < f)
    BY <1>2, <1>5
  <2>2. \A x, y \in Nat : x < y => (HHDM + x + 1) * UNIT <= (HHDM + y) * UNIT
    <3> SUFFICES ASSUME NEW x \in Nat, NEW y \in Nat, x < y
                 PROVE  (HHDM + x + 1) * UNIT <= (HHDM + y) * UNIT
      BY Zenon
    <3>1. HHDM + x + 1 \in Int /\ HHDM + y \in Int /\ HHDM + x + 1 <= HHDM + y /\ UNIT \in Nat \ {0}
      BY Sizes
    <3> QED
      BY <3>1, Multiples, Zenon
  <2>3. TB(f)[2] <= TB(g)[1] \/ TB(g)[2] <= TB(f)[1]
    BY <1>3, <1>5, <2>1, <2>2, Zenon
  <2>4. TB(f)[1] \in Nat /\ TB(f)[2] \in Nat /\ TB(g)[1] \in Nat /\ TB(g)[2] \in Nat
    BY <1>3, <1>5, <2>1, Sizes
  <2> QED
    BY <2>3, <2>4 DEF Overlap
<1>6. TableBlocks = {TB(f) : f \in {g \in DOMAIN mem : g < NFrames}}
  BY Zenon DEF TableBlocks, TB
<1>7. \A t \in TableBlocks : \E f \in DOMAIN mem : f < NFrames /\ t = TB(f)
  BY <1>6, Zenon
<1>8. ASSUME NEW a \in stacks \cup blocks \cup TableBlocks, NEW b \in stacks \cup blocks \cup TableBlocks,
             a # b
      PROVE  ~Overlap(a, b)
  <2>1. CASE a \in TableBlocks /\ b \in TableBlocks
    BY <1>5, <1>7, <1>8, <2>1
  <2>2. CASE a \in TableBlocks /\ b \notin TableBlocks
    BY <1>4, <1>7, <2>2
  <2>3. CASE a \notin TableBlocks /\ b \in TableBlocks
    BY <1>4, <1>7, <2>3
  <2>4. CASE a \notin TableBlocks /\ b \notin TableBlocks
    BY <1>2, <1>8, <2>4, Zenon
  <2> QED
    BY <2>1, <2>2, <2>3, <2>4, Zenon
<1>9. stacks \cap (blocks \cup TableBlocks) = {}
  BY <1>2, <1>4, <1>7
<1>10. ASSUME NEW p \in DOMAIN fk, NEW q \in DOMAIN fk, p # q,
              fk[p].pc \in {"vma", "vmabump", "guard"}, fk[q].pc \in {"vma", "vmabump", "guard"}
       PROVE  FALSE
  <2>1. /\ DOMAIN fk = Procs \cup {"boot"} /\ "boot" \notin Procs
        /\ \A r \in Procs : fk[r].pc # "idle" => r = task
        /\ task # "boot" => fk["boot"].pc = "restore"
    BY <1>1, PagingAssumption, Zenon DEF ProcOK
  <2>2. fk[p].pc # "idle" /\ fk[p].pc # "restore" /\ fk[q].pc # "idle" /\ fk[q].pc # "restore"
    BY <1>10, Zenon
  <2>3. p = task /\ q = task
    BY <2>1, <2>2
  <2> QED
    BY <1>10, <2>3, Zenon
<1> QED
  BY <1>8, <1>9, <1>10, Zenon DEF HeapDisjoint
-----------------------------------------------------------------------------
(* The bootloader's tables.  The walk of a heap page takes the second      *)
(* entry of the top-level table, then one of its two halves.               *)
LEMMA HeapIndex ==
  ASSUME NEW i \in 1 .. HeapEnd - 1, NEW v, v = HHDM + i
  PROVE  /\ Idx(4, v) = 1
         /\ \/ Idx(3, v) = 0 /\ v % (NFrames \div 2) = i
            \/ Idx(3, v) = 1 /\ NFrames \div 2 + 4 * Idx(2, v) + (v % 4) = i
<1> DEFINE h == NFrames \div 2
<1>1. h \in Nat \ {0} /\ NFrames = 2 * h /\ v = 2 * h + i /\ i \in Nat /\ i < 2 * h /\ v \in Nat
  BY Eighths, Sizes
<1>2. v \in Pages
  BY HeapPage, Zenon
<1>3. Idx(4, v) = v \div NFrames /\ Idx(3, v) = (v \div h) % 2
  BY DEF Idx, PML4_INDEX, PDPT_INDEX
<1>4. v % h = Idx(2, v) * 4 + (v % 4) /\ v % 4 \in Nat /\ Idx(2, v) \in Nat
  BY <1>2, Offsets, IndexInTable, Eighths
<1> HIDE DEF h
<1>5. v \div NFrames = 1
  <2>1. v = NFrames * 1 + i /\ i \in 0 .. NFrames - 1 /\ NFrames \in Nat \ {0} /\ 1 \in Nat
    BY <1>1
  <2> QED
    BY <2>1, DivUnique, Zenon
<1>6. CASE i < h
  <2>1. v = h * 2 + i /\ i \in 0 .. h - 1 /\ h \in Nat \ {0} /\ 2 \in Nat
    BY <1>1, <1>6
  <2>2. v \div h = 2 /\ v % h = i
    BY <2>1, DivUnique
  <2> QED
    BY <1>3, <1>5, <2>2 DEF h
<1>7. CASE ~(i < h)
  <2>1. v = h * 3 + (i - h) /\ i - h \in 0 .. h - 1 /\ h \in Nat \ {0} /\ 3 \in Nat
    BY <1>1, <1>7
  <2>2. v \div h = 3 /\ v % h = i - h
    BY <2>1, DivUnique, Zenon
  <2>3. h + 4 * Idx(2, v) + (v % 4) = i
    BY <1>1, <1>4, <2>2
  <2> QED
    BY <1>3, <1>5, <2>2, <2>3 DEF h
<1> QED
  BY <1>6, <1>7

(* The boot loader's tables and their entries.                             *)
LEMMA BootTables ==
  ASSUME PInit
  PROVE  /\ DOMAIN mem = {BootPml4, BootPud(0), BootPud(1), BootPd, BootImage}
         /\ \A f \in DOMAIN mem : DOMAIN mem[f] = Slots /\ \A i \in Slots : mem[f][i] = BootEntry(f, i)
BY Zenon DEF PInit

(* They are in frames of their own.                                        *)
LEMMA BootDistinct ==
  /\ BootPml4 # BootPud(0) /\ BootPml4 # BootPud(1) /\ BootPml4 # BootPd /\ BootPml4 # BootImage
  /\ BootPud(0) # BootPud(1) /\ BootPud(0) # BootPd /\ BootPud(0) # BootImage
  /\ BootPud(1) # BootPd /\ BootPud(1) # BootImage /\ BootPd # BootImage
BY Sizes DEF BootPml4, BootPud, BootPd, BootImage

(* What each of them holds.                                                *)
LEMMA BootEntries ==
  ASSUME NEW i \in Slots
  PROVE  /\ BootEntry(BootPml4, i) = IF i < 2 THEN Entry(BootPud(i), FALSE, TRUE, FALSE) ELSE NoEntry
         /\ BootEntry(BootPud(0), i) = IF i = 1 THEN Entry(BootImage, FALSE, TRUE, FALSE) ELSE NoEntry
         /\ BootEntry(BootPud(1), i) = IF i = 0 THEN Entry(0, TRUE, TRUE, FALSE)
                                       ELSE IF i = 1 THEN Entry(BootPd, FALSE, TRUE, FALSE) ELSE NoEntry
         /\ BootEntry(BootPd, i) = IF NFrames \div 2 + 4 * i < RamEnd
                                   THEN Entry(NFrames \div 2 + 4 * i, TRUE, TRUE, FALSE) ELSE NoEntry
         /\ BootEntry(BootImage, i) = IF i = 0 THEN Entry(RamEnd - 4, TRUE, FALSE, FALSE) ELSE NoEntry
<1>1. BootEntry(BootPml4, i) = IF i < 2 THEN Entry(BootPud(i), FALSE, TRUE, FALSE) ELSE NoEntry
  BY BootDistinct, Zenon DEF BootEntry
<1>2. BootEntry(BootPud(0), i) = IF i = 1 THEN Entry(BootImage, FALSE, TRUE, FALSE) ELSE NoEntry
  BY BootDistinct, Zenon DEF BootEntry
<1>3. BootEntry(BootPud(1), i) = IF i = 0 THEN Entry(0, TRUE, TRUE, FALSE)
                                 ELSE IF i = 1 THEN Entry(BootPd, FALSE, TRUE, FALSE) ELSE NoEntry
  BY BootDistinct, Zenon DEF BootEntry
<1>4. BootEntry(BootPd, i) = IF NFrames \div 2 + 4 * i < RamEnd
                             THEN Entry(NFrames \div 2 + 4 * i, TRUE, TRUE, FALSE) ELSE NoEntry
  BY BootDistinct, Zenon DEF BootEntry
<1>5. BootEntry(BootImage, i) = IF i = 0 THEN Entry(RamEnd - 4, TRUE, FALSE, FALSE) ELSE NoEntry
  BY BootDistinct, Zenon DEF BootEntry
<1> QED
  BY <1>1, <1>2, <1>3, <1>4, <1>5, Zenon

(* The level and the pages of each.                                        *)
BootOwn == [f \in {BootPml4, BootPud(0), BootPud(1), BootPd, BootImage} |->
              IF f = BootPml4 THEN <<4, 0>> ELSE IF f = BootPud(0) THEN <<3, 0>>
              ELSE IF f = BootPud(1) THEN <<3, 1>> ELSE IF f = BootPd THEN <<2, 3>> ELSE <<2, 1>>]

(* The pages each of them is for.                                          *)
LEMMA BootOwns ==
  /\ BootOwn[BootPml4] = <<4, 0>> /\ BootOwn[BootPud(0)] = <<3, 0>> /\ BootOwn[BootPud(1)] = <<3, 1>>
  /\ BootOwn[BootPd] = <<2, 3>> /\ BootOwn[BootImage] = <<2, 1>>
BY BootDistinct, Zenon DEF BootOwn

(* The half of a page's top-level entry that its third-level entry covers. *)
LEMMA HalfOf ==
  ASSUME NEW v \in Pages
  PROVE  Key(3, v) = Idx(4, v) /\ Key(2, v) = 2 * Idx(4, v) + Idx(3, v)
<1> DEFINE h == NFrames \div 2
           a == v \div h
<1>1. h \in Nat \ {0} /\ h * 2 = NFrames /\ v \in Nat
  BY Eighths DEF Pages
<1>2. a \in Nat
  <2> HIDE DEF h
  <2> QED
    BY <1>1, DivMod, Zenon
<1>3. a \div 2 = v \div NFrames
  <2>1. 2 \in Nat \ {0}
    OBVIOUS
  <2> HIDE DEF h
  <2>2. (v \div h) \div 2 = v \div (h * 2)
    BY <1>1, <2>1, Nested, Zenon
  <2> QED
    BY <1>1, <2>2, Zenon
<1> HIDE DEF a
<1>4. a = 2 * (a \div 2) + (a % 2)
  BY <1>2
<1>5. Key(3, v) = v \div NFrames /\ Key(2, v) = a /\ Idx(4, v) = v \div NFrames /\ Idx(3, v) = a % 2
  BY DEF Key, Idx, PML4_INDEX, PDPT_INDEX, a, h
<1> QED
  BY <1>3, <1>4, <1>5, Zenon

(* Their entries are typed.                                                *)
LEMMA BootEntryIn ==
  ASSUME NEW f \in {BootPml4, BootPud(0), BootPud(1), BootPd, BootImage}, NEW i \in Slots
  PROVE  BootEntry(f, i) \in Entries
<1>1. i \in Nat
  BY Eighths DEF Slots
<1>2. /\ BootPud(i) \in Nat /\ BootImage \in Nat /\ BootPd \in Nat /\ RamEnd - 4 \in Nat
      /\ NFrames \div 2 + 4 * i \in Nat /\ 0 \in Nat
  BY <1>1, Eighths, PagingAssumption DEF BootPud, BootImage, BootPd
<1>3. \A g \in Nat : /\ Entry(g, FALSE, TRUE, FALSE) \in Entries /\ Entry(g, TRUE, TRUE, FALSE) \in Entries
                     /\ Entry(g, TRUE, FALSE, FALSE) \in Entries
  BY EntryTyped, Zenon
<1>4. NoEntry \in Entries
  BY Zenon DEF NoEntry, Entries
<1>5. CASE f = BootPml4
  BY <1>2, <1>3, <1>4, <1>5, BootEntries, Zenon
<1>6. CASE f = BootPud(0)
  BY <1>2, <1>3, <1>4, <1>6, BootEntries, Zenon
<1>7. CASE f = BootPud(1)
  BY <1>2, <1>3, <1>4, <1>7, BootEntries, Zenon
<1>8. CASE f = BootPd
  BY <1>2, <1>3, <1>4, <1>8, BootEntries, Zenon
<1>9. CASE f = BootImage
  BY <1>2, <1>3, <1>4, <1>9, BootEntries, Zenon
<1> QED
  BY <1>5, <1>6, <1>7, <1>8, <1>9

(* The boot loader's tables are sound.                                     *)
LEMMA BootSound ==
  ASSUME PInit
  PROVE  Tables(BootOwn, mem, cr3)
<1> DEFINE D == {BootPml4, BootPud(0), BootPud(1), BootPd, BootImage}
<1>1. DOMAIN mem = D /\ cr3 = BootPml4
      /\ \A f \in D : DOMAIN mem[f] = Slots /\ \A i \in Slots : mem[f][i] = BootEntry(f, i)
  BY BootTables, Zenon DEF PInit
<1>2. D \subseteq Nat /\ NULL_TABLE \notin D
  BY Sizes DEF BootPml4, BootPud, BootPd, BootImage, NULL_TABLE
<1>3. mem = [f \in D |-> [i \in Slots |-> BootEntry(f, i)]]
  BY Zenon DEF PInit
<1>4. ASSUME NEW f \in D PROVE mem[f] \in [Slots -> Entries]
  <2>1. mem[f] = [i \in Slots |-> BootEntry(f, i)]
    BY <1>3, Zenon
  <2>2. \A i \in Slots : BootEntry(f, i) \in Entries
    BY BootEntryIn, Zenon
  <2> QED
    BY <2>1, <2>2, Zenon
<1>5. ASSUME NEW f \in D, NEW l \in 1 .. 4, NEW v \in Pages, BootOwn[f] = Label(l, v)
      PROVE  EntryOK(BootOwn, mem, l, v, BootEntry(f, Idx(l, v)))
  <2>1. Idx(l, v) \in Slots /\ Idx(4, v) \in 0 .. 1 /\ Idx(3, v) \in 0 .. 1
    BY IndexInTable, Zenon
  <2>2. Key(3, v) = Idx(4, v) /\ Key(2, v) = 2 * Idx(4, v) + Idx(3, v)
    BY HalfOf, Zenon
  <2>3. \A k, j : <<k, j>> = Label(l, v) => l = k /\ Key(k, v) = j
    BY Zenon DEF Label
  <2>4. \A g : /\ Entry(g, FALSE, TRUE, FALSE).present /\ ~Entry(g, FALSE, TRUE, FALSE).ps
               /\ Entry(g, FALSE, TRUE, FALSE).f = g
               /\ Entry(g, TRUE, TRUE, FALSE).ps /\ Entry(g, TRUE, FALSE, FALSE).ps
    BY Zenon DEF Entry
  <2>5. ~NoEntry.present
    BY Zenon DEF NoEntry
  <2>6. CASE f = BootPml4
    <3>1. l = 4
      BY <1>5, <2>3, <2>6, BootOwns
    <3>2. BootEntry(f, Idx(4, v)) = Entry(BootPud(Idx(4, v)), FALSE, TRUE, FALSE)
      <4>1. Idx(4, v) < 2 /\ Idx(4, v) \in Slots
        BY <2>1, <3>1
      <4> QED
        BY <2>6, <4>1, BootEntries, Zenon
    <3>3. BootPud(Idx(4, v)) \in D /\ BootOwn[BootPud(Idx(4, v))] = <<3, Idx(4, v)>>
      <4>1. Idx(4, v) = 0 \/ Idx(4, v) = 1
        BY <2>1
      <4> QED
        BY <4>1, BootOwns
    <3>4. Label(4 - 1, v) = <<3, Idx(4, v)>>
      BY <2>2 DEF Label
    <3> QED
      BY <1>1, <2>4, <3>1, <3>2, <3>3, <3>4, Zenon DEF EntryOK
  <2>7. CASE f = BootPud(0) \/ f = BootPud(1)
    <3>1. l = 3 /\ (f = BootPud(0) => Idx(4, v) = 0) /\ (f = BootPud(1) => Idx(4, v) = 1)
      BY <1>5, <2>2, <2>3, <2>7, BootOwns
    <3>2. Idx(3, v) \in Slots /\ (Idx(3, v) = 0 \/ Idx(3, v) = 1)
      BY <2>1, <3>1
    <3> DEFINE e == BootEntry(f, Idx(3, v))
    <3>3. e = NoEntry \/ e = Entry(0, TRUE, TRUE, FALSE)
          \/ (\E g \in D : e = Entry(g, FALSE, TRUE, FALSE) /\ BootOwn[g] = Label(2, v))
      <4>1. CASE f = BootPud(0)
        <5>1. Idx(3, v) = 1 => Label(2, v) = <<2, 1>>
          BY <2>2, <3>1, <4>1 DEF Label
        <5>2. e = IF Idx(3, v) = 1 THEN Entry(BootImage, FALSE, TRUE, FALSE) ELSE NoEntry
          BY <3>2, <4>1, BootEntries, Zenon
        <5> QED
          BY <5>1, <5>2, BootOwns, Zenon
      <4>2. CASE f = BootPud(1)
        <5>1. Idx(3, v) = 1 => Label(2, v) = <<2, 3>>
          BY <2>2, <3>1, <4>2 DEF Label
        <5>2. e = IF Idx(3, v) = 0 THEN Entry(0, TRUE, TRUE, FALSE)
                  ELSE IF Idx(3, v) = 1 THEN Entry(BootPd, FALSE, TRUE, FALSE) ELSE NoEntry
          BY <3>2, <4>2, BootEntries, Zenon
        <5> QED
          BY <3>2, <5>1, <5>2, BootOwns, Zenon
      <4> QED
        BY <2>7, <4>1, <4>2, Zenon
    <3>4. Label(3 - 1, v) = Label(2, v)
      OBVIOUS
    <3> HIDE DEF e
    <3>6. e.present /\ ~e.ps => e.f \in D /\ BootOwn[e.f] = Label(2, v)
      BY <2>4, <2>5, <3>3, Zenon
    <3>5. EntryOK(BootOwn, mem, 3, v, e)
      BY <1>1, <3>4, <3>6 DEF EntryOK
    <3> QED
      BY <3>1, <3>5 DEF e
  <2>8. CASE f = BootPd \/ f = BootImage
    <3>1. l = 2
      BY <1>5, <2>3, <2>8, BootOwns
    <3> DEFINE e == BootEntry(f, Idx(2, v))
    <3>2. e = NoEntry \/ (\E g : e = Entry(g, TRUE, TRUE, FALSE) \/ e = Entry(g, TRUE, FALSE, FALSE))
      BY <2>1, <2>8, <3>1, BootEntries, Zenon
    <3> HIDE DEF e
    <3>3. ~e.present \/ e.ps
      BY <2>4, <2>5, <3>2, Zenon
    <3>4. EntryOK(BootOwn, mem, 2, v, e)
      BY <3>3 DEF EntryOK
    <3> QED
      BY <3>1, <3>4, Zenon DEF e
  <2> QED
    BY <2>6, <2>7, <2>8, Zenon
<1>6. ASSUME NEW f \in D, NEW l \in 1 .. 4, NEW v \in Pages, BootOwn[f] = Label(l, v)
      PROVE  EntryOK(BootOwn, mem, l, v, mem[f][Idx(l, v)])
  BY <1>1, <1>5, <1>6, IndexInTable
<1> QED
  BY <1>1, <1>2, <1>4, <1>6, BootOwns DEF Tables

(* Every page of the heap reaches its own frame, writable.                 *)
LEMMA BootMapped ==
  ASSUME PInit
  PROVE  MapAt({}, mem, cr3)
<1>1. /\ cr3 = BootPml4 /\ DOMAIN mem = {BootPml4, BootPud(0), BootPud(1), BootPd, BootImage}
      /\ \A f \in DOMAIN mem : \A i \in Slots : mem[f][i] = BootEntry(f, i)
  BY BootTables, Zenon DEF PInit
<1>2. ASSUME NEW i \in 1 .. HeapEnd - 1 PROVE Translate(mem, cr3, HHDM + i) = Direct(i)
  <2> DEFINE v == HHDM + i
  <2>1. v \in Pages
    BY HeapPage, Zenon
  <2>2. /\ Idx(4, v) = 1
        /\ \/ Idx(3, v) = 0 /\ v % (NFrames \div 2) = i
           \/ Idx(3, v) = 1 /\ NFrames \div 2 + 4 * Idx(2, v) + (v % 4) = i
    BY HeapIndex, Zenon
  <2>3. Idx(4, v) \in Slots /\ Idx(3, v) \in Slots /\ Idx(2, v) \in Slots
    BY <2>1, IndexInTable
  <2> HIDE DEF v
  <2>4. E4(mem, cr3, v) = Entry(BootPud(1), FALSE, TRUE, FALSE)
    <3>1. E4(mem, cr3, v) = BootEntry(BootPml4, 1) /\ 1 \in Slots
      BY <1>1, <2>2, <2>3 DEF E4
    <3>3. 1 < 2
      OBVIOUS
    <3>2. BootEntry(BootPml4, 1) = IF 1 < 2 THEN Entry(BootPud(1), FALSE, TRUE, FALSE) ELSE NoEntry
      BY <3>1, BootEntries, Zenon
    <3> QED
      BY <3>1, <3>2, <3>3, Zenon
  <2>5. E4(mem, cr3, v).f = BootPud(1) /\ E4(mem, cr3, v).present
    BY <2>4 DEF Entry
  <2>6. E3(mem, cr3, v) = BootEntry(BootPud(1), Idx(3, v))
    BY <1>1, <2>3, <2>5, Zenon DEF E3
  <2>7. CASE Idx(3, v) = 0 /\ v % (NFrames \div 2) = i
    <3>1. E3(mem, cr3, v) = Entry(0, TRUE, TRUE, FALSE)
      BY <2>3, <2>6, <2>7, BootEntries, Zenon
    <3>2. E3(mem, cr3, v).present /\ E3(mem, cr3, v).ps /\ E3(mem, cr3, v).f = 0
      BY <3>1 DEF Entry
    <3>3. Translate(mem, cr3, v) = Reached({E4(mem, cr3, v), E3(mem, cr3, v)}, 0 + i)
      BY <2>5, <2>7, <3>2, TranslateIs, Zenon
    <3>4. Reached({Entry(BootPud(1), FALSE, TRUE, FALSE), Entry(0, TRUE, TRUE, FALSE)}, i) = Direct(i)
      BY DEF Reached, Entry, Direct
    <3>5. 0 + i = i
      OBVIOUS
    <3> QED
      BY <2>4, <3>1, <3>3, <3>4, <3>5, Zenon DEF v
  <2>8. CASE Idx(3, v) = 1 /\ NFrames \div 2 + 4 * Idx(2, v) + (v % 4) = i
    <3> DEFINE b == NFrames \div 2 + 4 * Idx(2, v)
    <3>0. v % 4 \in Nat /\ b \in Nat /\ i < RamEnd /\ b + (v % 4) = i /\ RamEnd \in Nat
      BY <2>1, <2>8, Offsets, IndexInTable, Eighths, PagingAssumption
    <3>1. E3(mem, cr3, v) = Entry(BootPd, FALSE, TRUE, FALSE)
      <4>1. BootEntry(BootPud(1), 1) =
              IF 1 = 0 THEN Entry(0, TRUE, TRUE, FALSE)
              ELSE IF 1 = 1 THEN Entry(BootPd, FALSE, TRUE, FALSE) ELSE NoEntry
        BY <2>3, <2>8, BootEntries, Zenon
      <4>2. 1 # 0
        OBVIOUS
      <4>3. E3(mem, cr3, v) = BootEntry(BootPud(1), 1)
        BY <2>6, <2>8, Zenon
      <4> QED
        BY <4>1, <4>2, <4>3, Zenon
    <3>2. E3(mem, cr3, v).present /\ ~E3(mem, cr3, v).ps /\ E3(mem, cr3, v).f = BootPd
      BY <3>1 DEF Entry
    <3>3. E2(mem, cr3, v) = BootEntry(BootPd, Idx(2, v))
      BY <1>1, <2>3, <3>2, Zenon DEF E2
    <3>4. E2(mem, cr3, v) = Entry(b, TRUE, TRUE, FALSE)
      <4>1. b < RamEnd
        BY <3>0
      <4> QED
        BY <2>3, <3>3, <4>1, BootEntries, Zenon
    <3> HIDE DEF b
    <3>5. E2(mem, cr3, v).present /\ E2(mem, cr3, v).ps /\ E2(mem, cr3, v).f = b
      BY <3>4 DEF Entry
    <3>6. Translate(mem, cr3, v) = Reached({E4(mem, cr3, v), E3(mem, cr3, v), E2(mem, cr3, v)}, b + (v % 4))
      BY <2>5, <3>2, <3>5, TranslateIs, Zenon
    <3>7. Reached({Entry(BootPud(1), FALSE, TRUE, FALSE), Entry(BootPd, FALSE, TRUE, FALSE),
                   Entry(b, TRUE, TRUE, FALSE)}, i) = Direct(i)
      BY DEF Reached, Entry, Direct
    <3> QED
      BY <2>4, <3>0, <3>1, <3>4, <3>6, <3>7, Zenon DEF v
  <2> QED
    BY <2>2, <2>7, <2>8, Zenon
<1>3. Guards({}) = {}
  BY Zenon DEF Guards
<1> QED
  BY <1>2, <1>3, Zenon DEF MapAt

(* The invariant holds when the kernel is entered.                         *)
LEMMA PagingInit ==
  ASSUME PInit
  PROVE  PagingInv
<1>1. /\ placement_address = (HHDM + 1) * UNIT /\ tlb = FlushAll /\ intr = TRUE /\ task = "boot"
      /\ range = <<1, 0>> /\ stacks = {} /\ blocks = {} /\ cr3 = BootPml4
      /\ fk = [p \in Procs \cup {"boot"} |-> [pc |-> "idle", flags |-> FALSE, stack |-> 0, vma |-> 0]]
  BY Zenon DEF PInit
<1>2. ProcOK
  BY <1>1, Zenon DEF ProcOK, Pcs
<1>3. RangeOK
  BY <1>1, Sizes DEF RangeOK
<1>4. Me.pc = "idle"
  BY <1>1, Zenon DEF Me
<1>5. StepOK(Me, placement_address) /\ Limit(Me, placement_address) = placement_address
  BY <1>4, Zenon DEF StepOK, Limit
<1>6. Tables(BootOwn, mem, cr3) /\ MapAt({}, mem, cr3)
  BY BootSound, BootMapped, Zenon
<1>7. HeapAt({}, {}, mem, placement_address)
  <2>1. \A f \in DOMAIN mem : f \in Nat /\ ~(f < NFrames)
    BY BootTables, Sizes DEF BootPml4, BootPud, BootPd, BootImage
  <2> QED
    BY <1>1, <2>1, Sizes, Zenon DEF HeapAt
<1>8. Coherent(tlb, mem)
  BY <1>1, Zenon DEF Coherent, FlushAll
<1>9. placement_address \in Nat /\ (HHDM + 1) * UNIT <= placement_address
  BY <1>1, Sizes
<1>10. MemOK
  BY <1>1, <1>5, <1>6, <1>7, <1>9, Zenon DEF MemOK
<1> QED
  BY <1>2, <1>3, <1>5, <1>8, <1>10 DEF PagingInv
-----------------------------------------------------------------------------
(* The steps.  First those of alloc_process() that touch neither the       *)
(* tables nor the TLB.                                                     *)
ProcRecord == [pc : Pcs, flags : BOOLEAN, stack : Nat, vma : Nat]

Proc(pc, flags, stack, vma) == [pc |-> pc, flags |-> flags, stack |-> stack, vma |-> vma]

(* The fields of a process's record.                                       *)
LEMMA ProcFields ==
  ASSUME NEW pc, NEW flags, NEW stack, NEW vma
  PROVE  /\ Proc(pc, flags, stack, vma).pc = pc /\ Proc(pc, flags, stack, vma).flags = flags
         /\ Proc(pc, flags, stack, vma).stack = stack /\ Proc(pc, flags, stack, vma).vma = vma
         /\ pc \in Pcs /\ flags \in BOOLEAN /\ stack \in Nat /\ vma \in Nat =>
              Proc(pc, flags, stack, vma) \in ProcRecord
BY Zenon DEF Proc, ProcRecord

Moved(me, x) == [me EXCEPT !.pc = x]
MovedFlags(me, x, y) == [me EXCEPT !.pc = x, !.flags = y]
MovedStack(me, x, y) == [me EXCEPT !.pc = x, !.stack = y]
MovedVma(me, x, y) == [me EXCEPT !.pc = x, !.vma = y]

(* Moving a process on, with its saved flags, its stack or its mapping set *)
(* on the way.                                                             *)
LEMMA ProcUpdates ==
  ASSUME NEW a, NEW b, NEW c, NEW d, NEW me, me = Proc(a, b, c, d), NEW x, NEW y
  PROVE  /\ Moved(me, x) = Proc(x, b, c, d)
         /\ MovedFlags(me, x, y) = Proc(x, y, c, d)
         /\ MovedStack(me, x, y) = Proc(x, b, y, d)
         /\ MovedVma(me, x, y) = Proc(x, b, c, y)
<1>1. [me EXCEPT !.pc = x] = Proc(x, b, c, d)
  BY DEF Proc
<1>2. [Proc(x, b, c, d) EXCEPT !.flags = y] = Proc(x, y, c, d)
  BY DEF Proc
<1>3. [Proc(x, b, c, d) EXCEPT !.stack = y] = Proc(x, b, y, d)
  BY DEF Proc
<1>4. [Proc(x, b, c, d) EXCEPT !.vma = y] = Proc(x, b, c, y)
  BY DEF Proc
<1> QED
  BY <1>1, <1>2, <1>3, <1>4, Zenon DEF Moved, MovedFlags, MovedStack, MovedVma

(* The record of the process that runs.                                    *)
LEMMA MeIs ==
  ASSUME ProcOK
  PROVE  /\ task \in DOMAIN fk /\ Me \in ProcRecord
         /\ Me.pc \in Pcs /\ Me.flags \in BOOLEAN /\ Me.stack \in Nat /\ Me.vma \in Nat
         /\ Me = Proc(Me.pc, Me.flags, Me.stack, Me.vma)
         /\ \A pc : At(pc) <=> Me.pc = pc
<1>1. task \in DOMAIN fk /\ Me \in ProcRecord
  BY Zenon DEF ProcOK, Me, ProcRecord
<1>2. Me.pc \in Pcs /\ Me.flags \in BOOLEAN /\ Me.stack \in Nat /\ Me.vma \in Nat
      /\ Me = Proc(Me.pc, Me.flags, Me.stack, Me.vma)
  BY <1>1, Zenon DEF ProcRecord, Proc
<1> QED
  BY <1>1, <1>2, Zenon DEF At

(* What the process on the CPU becomes.                                    *)
Becomes(r) ==
    /\ r \in ProcRecord /\ fk' = [fk EXCEPT ![task] = r]
    /\ task' = task /\ intr' \in BOOLEAN
    /\ task # "boot" /\ r.pc # "idle" => ~intr'
    /\ task = "boot" /\ r.pc # "restore" => stacks' = {}
    /\ ~(range[1] <= range[2]) /\ range' = range

(* A step of the process that runs leaves the others where they are.       *)
LEMMA ProcStep ==
  ASSUME ProcOK, RangeOK, NEW r, Becomes(r)
  PROVE  ProcOK' /\ RangeOK' /\ Me' = r
<1>1. task \in Procs \cup {"boot"} /\ "boot" \notin Procs
  BY PagingAssumption, Zenon DEF ProcOK
<1>2. fk \in [Procs \cup {"boot"} -> ProcRecord]
  BY Zenon DEF ProcOK, ProcRecord
<1>3. /\ fk' \in [Procs \cup {"boot"} -> ProcRecord]
      /\ fk'[task] = r /\ \A p \in Procs \cup {"boot"} : p # task => fk'[p] = fk[p]
  BY <1>1, <1>2 DEF Becomes
<1>4. ASSUME NEW p \in Procs, fk'[p].pc # "idle" PROVE p = task' /\ ~intr'
  <2>1. p = task
    BY <1>3, <1>4, Zenon DEF ProcOK
  <2> QED
    BY <1>1, <1>3, <1>4, <2>1 DEF Becomes
<1>5. task' # "boot" => fk'["boot"].pc = "restore"
  BY <1>3, Zenon DEF ProcOK, Becomes
<1>6. fk'["boot"].pc # "restore" => stacks' = {}
  BY <1>3, <1>5, Zenon DEF Becomes
<1>7. ProcOK'
  BY <1>1, <1>3, <1>4, <1>5, <1>6 DEF ProcOK, Becomes, ProcRecord
<1>8. RangeOK'
  BY Zenon DEF RangeOK, Becomes
<1>9. Me' = r
  BY <1>3, Zenon DEF Me, Becomes
<1> QED
  BY <1>7, <1>8, <1>9

(* A step that only moves the process that runs, or the allocator's        *)
(* address up, keeps the invariant.                                        *)
LEMMA LocalStep ==
  ASSUME PagingInv, NEW r, Becomes(r), UNCHANGED <<mem, cr3, tlb, stacks, blocks>>,
         placement_address' \in Nat, placement_address <= placement_address',
         StepOK(r, placement_address'),
         Limit(r, placement_address') \in Nat,
         Limit(Me, placement_address) <= Limit(r, placement_address')
  PROVE  PagingInv'
<1>1. ProcOK' /\ RangeOK' /\ Me' = r
  BY ProcStep, Zenon DEF PagingInv
<1>2. StepOK(Me, placement_address)'
  BY <1>1, Zenon DEF StepOK
<1>3. /\ placement_address \in Nat /\ (HHDM + 1) * UNIT <= placement_address
      /\ \E own : Tables(own, mem, cr3)
      /\ HeapAt(stacks, blocks, mem, Limit(Me, placement_address))
      /\ MapAt(stacks, mem, cr3) /\ Coherent(tlb, mem)
  BY Zenon DEF PagingInv, MemOK
<1>4. (HHDM + 1) * UNIT <= placement_address'
  BY <1>3, Sizes
<1>5. HeapAt(stacks, blocks, mem, Limit(r, placement_address'))
  BY <1>3, HeapMono, Zenon
<1>6. HeapAt(stacks, blocks, mem, Limit(Me, placement_address))'
  <2>1. Limit(Me, placement_address)' = Limit(r, placement_address')
    BY <1>1, Zenon DEF Limit
  <2> QED
    BY <1>5, <2>1, Zenon
<1>7. Coherent(tlb, mem)'
  BY <1>3, Zenon DEF Coherent
<1>8. (\E own : Tables(own, mem, cr3))' /\ MapAt(stacks, mem, cr3)'
  BY <1>3, Zenon
<1>9. MemOK'
  BY <1>4, <1>6, <1>8, Zenon DEF MemOK
<1> QED
  BY <1>1, <1>2, <1>7, <1>9 DEF PagingInv

(* Processes start only when the boot has mapped its ranges.               *)
LEMMA RangeDone ==
  ASSUME PagingInv, Me.pc # "idle"
  PROVE  ~(range[1] <= range[2])
BY Zenon DEF PagingInv, RangeOK, Me

(* There is no stack before the first process is made.                     *)
LEMMA NotYetBooted ==
  ASSUME PagingInv, task = "boot", Me.pc # "restore"
  PROVE  stacks = {}
BY Zenon DEF PagingInv, ProcOK, Me

(* Interrupts are off from irq_save() to irq_restore().                    *)
LEMMA InsideMasked ==
  ASSUME PagingInv, task # "boot", Me.pc # "idle"
  PROVE  ~intr
BY Zenon DEF PagingInv, ProcOK, Me

(* irq_save() keeps the invariant.                                         *)
LEMMA SaveStep ==
  ASSUME PagingInv, irq_save
  PROVE  PagingInv'
<1> DEFINE r == Proc("align", intr, Me.stack, Me.vma)
<1>1. ProcOK /\ placement_address \in Nat /\ intr \in BOOLEAN
  BY Zenon DEF PagingInv, MemOK, ProcOK
<1>2. /\ Me.pc = "idle" /\ range[1] > range[2]
      /\ placement_address + (KSTACK + 3) * UNIT <= End
      /\ fk' = [fk EXCEPT ![task].pc = "align", ![task].flags = intr]
      /\ intr' = (intr /\ ~TRUE)
      /\ UNCHANGED <<mem, placement_address, cr3, tlb, task, range, stacks, blocks>>
  BY <1>1, MeIs, Zenon DEF irq_save, SaveFlags, End
<1>3. r \in ProcRecord /\ r.pc = "align" /\ r.stack = Me.stack
  BY <1>1, MeIs, ProcFields DEF Pcs
<1>4. fk' = [fk EXCEPT ![task] = r]
  <2>1. Me = Proc(Me.pc, Me.flags, Me.stack, Me.vma)
    BY <1>1, MeIs, Zenon
  <2>2. r = MovedFlags(Me, "align", intr)
    BY <2>1, ProcUpdates, SMTT(30)
  <2> QED
    BY <1>2, <2>2, Zenon DEF Me, MovedFlags
<1> HIDE DEF r
<1>5. Becomes(r)
  <2>1. ~(range[1] <= range[2])
    BY <1>2 DEF PagingInv, RangeOK
  <2>2. task = "boot" => stacks' = {}
    BY <1>2, NotYetBooted, Zenon
  <2> QED
    BY <1>2, <1>3, <1>4, <2>1, <2>2, Zenon DEF Becomes
<1>6. StepOK(r, placement_address') /\ Limit(r, placement_address') = placement_address
      /\ Limit(Me, placement_address) = placement_address
  BY <1>2, <1>3, Zenon DEF StepOK, Limit
<1> QED
  BY <1>1, <1>2, <1>5, <1>6, LocalStep, SMTT(30)

(* kmalloc_a()'s rounding up keeps the invariant.                          *)
LEMMA AlignStep ==
  ASSUME PagingInv, kmalloc_a_align
  PROVE  PagingInv'
<1> DEFINE r == Proc("read", Me.flags, Me.stack, Me.vma)
<1>1. ProcOK /\ placement_address \in Nat /\ intr \in BOOLEAN
  BY Zenon DEF PagingInv, MemOK, ProcOK
<1>2. /\ Me.pc = "align"
      /\ placement_address' = PageAlign(placement_address)
      /\ fk' = [fk EXCEPT ![task].pc = "read"]
      /\ UNCHANGED <<mem, cr3, tlb, intr, task, range, stacks, blocks>>
  BY <1>1, MeIs, Zenon DEF kmalloc_a_align
<1>3. r \in ProcRecord /\ r.pc = "read" /\ r.stack = Me.stack
  BY <1>1, MeIs, ProcFields DEF Pcs
<1>4. fk' = [fk EXCEPT ![task] = r]
  <2>1. Me = Proc(Me.pc, Me.flags, Me.stack, Me.vma)
    BY <1>1, MeIs, Zenon
  <2>2. r = Moved(Me, "read")
    BY <2>1, ProcUpdates, SMTT(30)
  <2> QED
    BY <1>2, <2>2, Zenon DEF Me, Moved
<1> HIDE DEF r
<1>5. Becomes(r)
  <2>1. ~(range[1] <= range[2]) /\ (task # "boot" => ~intr) /\ (task = "boot" => stacks = {})
    BY <1>2, RangeDone, InsideMasked, NotYetBooted, Zenon
  <2> QED
    BY <1>1, <1>2, <1>3, <1>4, <2>1, Zenon DEF Becomes
<1>6. placement_address' \in Nat /\ placement_address <= placement_address'
      /\ placement_address' % UNIT = 0
  BY <1>1, <1>2, Aligned, Zenon
<1>7. placement_address' + (KSTACK + 3) * UNIT <= End
  <2>1. placement_address + (KSTACK + 3) * UNIT <= End
    BY <1>2, Zenon DEF PagingInv, StepOK
  <2> DEFINE b == HHDM + HeapEnd - (KSTACK + 3)
  <2>2. b \in Int /\ b * UNIT = End - (KSTACK + 3) * UNIT
    <3>1. \A x, y, u \in Int : (x - y) * u = x * u - y * u
      OBVIOUS
    <3> QED
      BY <3>1, Sizes DEF End
  <2>3. placement_address <= b * UNIT
    BY <1>1, <2>1, <2>2, Sizes
  <2>4. b \in Nat
    <3> HIDE DEF b
    <3>1. UNIT \in Nat \ {0} /\ 0 \in Int /\ 0 * UNIT = 0
      BY Sizes
    <3>2. 0 * UNIT <= b * UNIT
      BY <1>1, <2>2, <2>3, <3>1, Sizes
    <3>3. 0 <= b
      BY <2>2, <3>1, <3>2, Multiples, Zenon
    <3> QED
      BY <2>2, <3>3
  <2> HIDE DEF b
  <2>5. PageAlign(placement_address) <= b * UNIT
    BY <1>1, <2>3, <2>4, Aligned, Zenon
  <2> QED
    BY <1>2, <1>6, <2>2, <2>5, Sizes
<1>8. StepOK(r, placement_address') /\ Limit(r, placement_address') = placement_address'
      /\ Limit(Me, placement_address) = placement_address
  BY <1>2, <1>3, <1>6, <1>7, Zenon DEF StepOK, Limit
<1> QED
  BY <1>2, <1>5, <1>6, <1>8, LocalStep, SMTT(30)

(* kmalloc()'s read of placement_address keeps the invariant.              *)
LEMMA ReadStep ==
  ASSUME PagingInv, kmalloc_read
  PROVE  PagingInv'
<1>1. ProcOK /\ placement_address \in Nat /\ intr \in BOOLEAN
      /\ (HHDM + 1) * UNIT <= placement_address /\ StepOK(Me, placement_address)
  BY Zenon DEF PagingInv, MemOK, ProcOK
<1>2. /\ Me.pc = "read" \/ Me.pc = "vma"
      /\ fk' = IF Me.pc = "read"
               THEN [fk EXCEPT ![task].pc = "bump", ![task].stack = placement_address]
               ELSE [fk EXCEPT ![task].pc = "vmabump", ![task].vma = placement_address]
      /\ UNCHANGED <<mem, placement_address, cr3, tlb, intr, task, range, stacks, blocks>>
  BY <1>1, MeIs, Zenon DEF kmalloc_read
<1>3. Me = Proc(Me.pc, Me.flags, Me.stack, Me.vma) /\ Me.flags \in BOOLEAN
      /\ Me.stack \in Nat /\ Me.vma \in Nat
  BY <1>1, MeIs, Zenon
<1>4. ~(range[1] <= range[2]) /\ (task # "boot" => ~intr) /\ (task = "boot" => stacks = {})
  BY <1>2, RangeDone, InsideMasked, NotYetBooted
<1>5. CASE Me.pc = "read"
  <2> DEFINE r == Proc("bump", Me.flags, placement_address, Me.vma)
  <2>1. r \in ProcRecord /\ r.pc = "bump" /\ r.stack = placement_address
    BY <1>1, <1>3, ProcFields DEF Pcs
  <2>2. r = MovedStack(Me, "bump", placement_address)
    BY <1>3, ProcUpdates, SMTT(30)
  <2> HIDE DEF r
  <2>3. fk' = [fk EXCEPT ![task] = r]
    BY <1>2, <1>5, <2>2, Zenon DEF Me, MovedStack
  <2>4. Becomes(r)
    BY <1>1, <1>2, <1>4, <2>1, <2>3, Zenon DEF Becomes
  <2>5. StepOK(r, placement_address') /\ Limit(r, placement_address') = placement_address'
        /\ Limit(Me, placement_address) = placement_address
    BY <1>1, <1>2, <1>5, <2>1 DEF StepOK, Limit
  <2> QED
    BY <1>1, <1>2, <2>4, <2>5, LocalStep, SMTT(30)
<1>6. CASE Me.pc = "vma"
  <2> DEFINE r == Proc("vmabump", Me.flags, Me.stack, placement_address)
  <2>1. r \in ProcRecord /\ r.pc = "vmabump" /\ r.stack = Me.stack /\ r.vma = placement_address
    BY <1>1, <1>3, ProcFields DEF Pcs
  <2>2. r = MovedVma(Me, "vmabump", placement_address)
    BY <1>3, ProcUpdates, SMTT(30)
  <2> HIDE DEF r
  <2>3. fk' = [fk EXCEPT ![task] = r]
    BY <1>2, <1>6, <2>2, Zenon DEF Me, MovedVma
  <2>4. Becomes(r)
    BY <1>1, <1>2, <1>4, <2>1, <2>3, Zenon DEF Becomes
  <2>5. StepOK(r, placement_address') /\ Limit(r, placement_address') = Me.stack
        /\ Limit(Me, placement_address) = Me.stack
    BY <1>1, <1>2, <1>6, <2>1 DEF StepOK, Limit
  <2> QED
    BY <1>1, <1>2, <1>3, <2>4, <2>5, LocalStep, SMTT(30)
<1> QED
  BY <1>2, <1>5, <1>6, Zenon

(* kmalloc()'s write of placement_address keeps the invariant: with        *)
(* interrupts off nothing came between the read and the write, so the      *)
(* block is above all others.                                              *)
LEMMA BumpStep ==
  ASSUME PagingInv, kmalloc_bump
  PROVE  PagingInv'
<1>1. ProcOK /\ placement_address \in Nat /\ intr \in BOOLEAN
      /\ (HHDM + 1) * UNIT <= placement_address /\ StepOK(Me, placement_address)
  BY Zenon DEF PagingInv, MemOK, ProcOK
<1>2. /\ Me.pc = "bump" \/ Me.pc = "vmabump"
      /\ Me.pc = "bump" => /\ placement_address' = placement_address + KSTACK * UNIT
                           /\ fk' = [fk EXCEPT ![task].pc = "vma"]
      /\ Me.pc = "vmabump" => /\ placement_address' = placement_address + 1
                              /\ fk' = [fk EXCEPT ![task].pc = "guard"]
      /\ UNCHANGED <<mem, cr3, tlb, intr, task, range, stacks, blocks>>
  BY <1>1, MeIs, Zenon DEF kmalloc_bump, kmalloc
<1>3. Me = Proc(Me.pc, Me.flags, Me.stack, Me.vma) /\ Me.flags \in BOOLEAN
      /\ Me.stack \in Nat /\ Me.vma \in Nat
  BY <1>1, MeIs, Zenon
<1>4. ~(range[1] <= range[2]) /\ (task # "boot" => ~intr) /\ (task = "boot" => stacks = {})
  BY <1>2, RangeDone, InsideMasked, NotYetBooted
<1>5. CASE Me.pc = "bump"
  <2> DEFINE r == Proc("vma", Me.flags, Me.stack, Me.vma)
  <2>1. r \in ProcRecord /\ r.pc = "vma" /\ r.stack = Me.stack
    BY <1>3, ProcFields DEF Pcs
  <2>2. r = Moved(Me, "vma")
    BY <1>3, ProcUpdates, SMTT(30)
  <2> HIDE DEF r
  <2>3. fk' = [fk EXCEPT ![task] = r]
    BY <1>2, <1>5, <2>2, Zenon DEF Me, Moved
  <2>4. Becomes(r)
    BY <1>1, <1>2, <1>4, <2>1, <2>3, Zenon DEF Becomes
  <2>5. Me.stack = placement_address /\ placement_address' \in Nat /\ placement_address <= placement_address'
        /\ Me.stack + KSTACK * UNIT = placement_address'
    BY <1>1, <1>2, <1>5, Sizes DEF StepOK
  <2>6. StepOK(r, placement_address') /\ Limit(r, placement_address') = placement_address
        /\ Limit(Me, placement_address) = placement_address
    BY <1>1, <1>5, <2>1, <2>5, Zenon DEF StepOK, Limit
  <2> QED
    BY <1>1, <1>2, <2>4, <2>5, <2>6, LocalStep, SMTT(30)
<1>6. CASE Me.pc = "vmabump"
  <2> DEFINE r == Proc("guard", Me.flags, Me.stack, Me.vma)
  <2>1. r \in ProcRecord /\ r.pc = "guard" /\ r.stack = Me.stack /\ r.vma = Me.vma
    BY <1>3, ProcFields DEF Pcs
  <2>2. r = Moved(Me, "guard")
    BY <1>3, ProcUpdates, SMTT(30)
  <2> HIDE DEF r
  <2>3. fk' = [fk EXCEPT ![task] = r]
    BY <1>2, <1>6, <2>2, Zenon DEF Me, Moved
  <2>4. Becomes(r)
    BY <1>1, <1>2, <1>4, <2>1, <2>3, Zenon DEF Becomes
  <2>5. Me.vma = placement_address /\ placement_address' \in Nat /\ placement_address <= placement_address'
        /\ Me.vma + 1 = placement_address' /\ Me.stack + KSTACK * UNIT = Me.vma
    BY <1>1, <1>2, <1>6 DEF StepOK
  <2>6. StepOK(r, placement_address') /\ Limit(r, placement_address') = Me.stack
        /\ Limit(Me, placement_address) = Me.stack
    BY <1>1, <1>6, <2>1, <2>5, Zenon DEF StepOK, Limit
  <2> QED
    BY <1>2, <1>3, <2>4, <2>5, <2>6, LocalStep, SMTT(30)
<1> QED
  BY <1>2, <1>5, <1>6, Zenon

(* irq_restore() keeps the invariant.                                      *)
LEMMA RestoreStep ==
  ASSUME PagingInv, irq_restore
  PROVE  PagingInv'
<1> DEFINE r == Proc("idle", Me.flags, Me.stack, Me.vma)
<1>1. ProcOK /\ placement_address \in Nat /\ intr \in BOOLEAN
  BY Zenon DEF PagingInv, MemOK, ProcOK
<1>2. /\ Me.pc = "restore" /\ task # "boot" /\ intr' = Me.flags
      /\ fk' = [fk EXCEPT ![task].pc = "idle"]
      /\ UNCHANGED <<mem, placement_address, cr3, tlb, task, range, stacks, blocks>>
  BY <1>1, MeIs, Zenon DEF irq_restore
<1>3. r \in ProcRecord /\ r.pc = "idle" /\ Me.flags \in BOOLEAN
  BY <1>1, MeIs, ProcFields DEF Pcs
<1>4. fk' = [fk EXCEPT ![task] = r]
  <2>1. Me = Proc(Me.pc, Me.flags, Me.stack, Me.vma)
    BY <1>1, MeIs, Zenon
  <2>2. r = Moved(Me, "idle")
    BY <2>1, ProcUpdates, SMTT(30)
  <2> QED
    BY <1>2, <2>2, Zenon DEF Me, Moved
<1> HIDE DEF r
<1>5. Becomes(r)
  <2>1. ~(range[1] <= range[2])
    BY <1>2, RangeDone, Zenon
  <2> QED
    BY <1>2, <1>3, <1>4, <2>1, Zenon DEF Becomes
<1>6. StepOK(r, placement_address') /\ Limit(r, placement_address') = placement_address
      /\ Limit(Me, placement_address) = placement_address
  BY <1>2, <1>3, Zenon DEF StepOK, Limit
<1> QED
  BY <1>1, <1>2, <1>5, <1>6, LocalStep, SMTT(30)
-----------------------------------------------------------------------------
(* The steps that change tables or translations.                           *)
LEMMA LimitIs ==
  ASSUME PagingInv
  PROVE  Limit(Me, placement_address) \in Nat /\ Limit(Me, placement_address) <= placement_address
<1>1. placement_address \in Nat /\ Me.stack \in Nat /\ StepOK(Me, placement_address)
  BY MeIs, Zenon DEF PagingInv, MemOK
<1>2. CASE Me.pc \in {"vma", "vmabump", "guard"}
  <2>1. Me.stack <= placement_address
    BY <1>1, <1>2, Sizes DEF StepOK
  <2> QED
    BY <1>1, <1>2, <2>1, Zenon DEF Limit
<1>3. CASE Me.pc \notin {"vma", "vmabump", "guard"}
  BY <1>1, <1>3 DEF Limit
<1> QED
  BY <1>2, <1>3, Zenon

(* The invariant gives the walk the state it needs.                        *)
LEMMA InvSound ==
  ASSUME PagingInv
  PROVE  /\ State = Walking(mem, placement_address, tlb, NULL_TABLE)
         /\ \E own : SoundHeap(own, mem, placement_address, cr3)
<1>1. State = Walking(mem, placement_address, tlb, NULL_TABLE)
  BY Zenon DEF State, Walking
<1>2. HeapAt(stacks, blocks, mem, placement_address)
  BY LimitIs, HeapMono, Zenon DEF PagingInv, MemOK
<1>3. FramesBelow(mem, placement_address)
  <2>1. ASSUME NEW f \in DOMAIN mem, f < NFrames
        PROVE  f >= 1 /\ (HHDM + f + 1) * UNIT <= placement_address
    BY <1>2, <2>1 DEF HeapAt
  <2> QED
    BY <2>1, Zenon DEF FramesBelow
<1> QED
  BY <1>1, <1>3, Zenon DEF SoundHeap, PagingInv, MemOK

(* A step of the boot code that changes the mapping of one page, and not   *)
(* of a page of the heap.                                                  *)
LEMMA BootStep ==
  ASSUME PagingInv, task = "boot", Me.pc = "idle", RangeOK',
         NEW r, NEW v, Touches(mem, placement_address, tlb, r, v), Take(r),
         UNCHANGED <<cr3, intr, task, fk, stacks, blocks>>,
         \A i \in 1 .. HeapEnd - 1 :
            HHDM + i = v /\ Translate(mem, cr3, v) = Direct(i) => Translate(r.m, cr3, v) = Direct(i)
  PROVE  PagingInv'
<1>1. ProcOK'
  BY Zenon DEF PagingInv, ProcOK
<1>2. Me' = Me /\ StepOK(Me, placement_address)'
  BY Zenon DEF Me, StepOK
<1>3. stacks = {} /\ Limit(Me, placement_address) = placement_address
      /\ Limit(Me, placement_address)' = placement_address'
  BY <1>2, NotYetBooted, Zenon DEF Limit
<1>4. /\ placement_address \in Nat /\ (HHDM + 1) * UNIT <= placement_address
      /\ HeapAt(stacks, blocks, mem, placement_address) /\ MapAt(stacks, mem, cr3)
      /\ Coherent(tlb, mem)
  BY <1>3, Zenon DEF PagingInv, MemOK
<1>5. mem' = r.m /\ placement_address' = r.pa /\ tlb' = r.t
  BY Zenon DEF Take
<1>6. PICK o : SoundHeap(o, r.m, r.pa, cr3)
  BY Zenon DEF Touches
<1>7. Tables(o, r.m, cr3) /\ FramesBelow(r.m, r.pa) /\ DOMAIN r.m \subseteq Nat
      /\ r.pa \in Nat /\ (HHDM + 1) * UNIT <= r.pa
  BY <1>6, Zenon DEF SoundHeap, Tables
<1>8. HeapAt(stacks, blocks, r.m, r.pa)
  <2>1. /\ \A f \in DOMAIN r.m \ DOMAIN mem : f \in 1 .. HeapEnd - 1 /\ placement_address <= (HHDM + f) * UNIT
        /\ placement_address <= r.pa
    BY Zenon DEF Touches
  <2>2. placement_address <= placement_address
    BY <1>4
  <2> QED
    BY <1>4, <1>7, <2>1, <2>2, HeapTables, Zenon
<1>9. MapAt(stacks, r.m, cr3)
  <2>1. \A w \in Pages : w # v => Translate(r.m, cr3, w) = Translate(mem, cr3, w)
    BY Zenon DEF Touches
  <2>2. Guards(stacks) = {}
    BY <1>3, Zenon DEF Guards
  <2>3. ASSUME NEW i \in 1 .. HeapEnd - 1 PROVE Translate(r.m, cr3, HHDM + i) = Direct(i)
    <3>1. Translate(mem, cr3, HHDM + i) = Direct(i) /\ HHDM + i \in Pages
      BY <1>4, <2>2, HeapPage DEF MapAt
    <3>2. CASE HHDM + i = v
      BY <3>1, <3>2, Zenon
    <3>3. CASE HHDM + i # v
      BY <2>1, <3>1, <3>3, Zenon
    <3> QED
      BY <3>2, <3>3, Zenon
  <2> QED
    BY <2>2, <2>3, Zenon DEF MapAt
<1>10. Coherent(tlb, mem)'
  <2>1. Coherent(r.t, r.m)
    BY <1>4, Zenon DEF Touches
  <2> QED
    BY <1>5, <2>1, Zenon DEF Coherent
<1>11. MemOK'
  BY <1>3, <1>5, <1>7, <1>8, <1>9, SMTT(30) DEF MemOK
<1> QED
  BY <1>1, <1>2, <1>10, <1>11, Zenon DEF PagingInv

(* What the boot's own steps require.                                      *)
LEMMA BootingIs ==
  ASSUME PagingInv, Booting
  PROVE  task = "boot" /\ Me.pc = "idle" /\ ~(range[1] <= range[2])
BY DEF Booting, Me, PagingInv, RangeOK

(* An access fills the cache with what the tables say.                     *)
LEMMA AccessStep ==
  ASSUME PagingInv, NEW v \in Pages, Access(v)
  PROVE  PagingInv'
<1>1. /\ tlb' = [tlb EXCEPT ![v] = Translate(mem, cr3, v)]
      /\ UNCHANGED <<mem, placement_address, cr3, intr, task, range, fk, stacks, blocks>>
  BY Zenon DEF Access
<1>2. ProcOK' /\ RangeOK' /\ Me' = Me
  BY <1>1, Zenon DEF PagingInv, ProcOK, RangeOK, Me
<1>3. StepOK(Me, placement_address)' /\ MemOK'
  BY <1>1, <1>2, Zenon DEF PagingInv, StepOK, MemOK, Limit
<1>4. Coherent(tlb, mem)'
  BY <1>1, Zenon DEF PagingInv, Coherent
<1> QED
  BY <1>2, <1>3, <1>4, Zenon DEF PagingInv

(* Starting on a range keeps the invariant.                                *)
LEMMA BootRangeStep ==
  ASSUME PagingInv, NEW r \in Ranges, boot_map_range(r)
  PROVE  PagingInv'
<1>1. /\ range' = <<r[1] \div UNIT, (r[1] + r[2] + UNIT - 1) \div UNIT - 1>>
      /\ UNCHANGED <<mem, placement_address, cr3, tlb, intr, task, fk, stacks, blocks>>
      /\ task = "boot" /\ fk["boot"].pc = "idle"
  BY Zenon DEF boot_map_range, Booting
<1>2. ProcOK' /\ Me' = Me
  BY <1>1, Zenon DEF PagingInv, ProcOK, Me
<1>3. StepOK(Me, placement_address)' /\ MemOK'
  BY <1>1, <1>2, Zenon DEF PagingInv, StepOK, MemOK, Limit
<1>4. Coherent(tlb, mem)'
  BY <1>1, Zenon DEF PagingInv, Coherent
<1>5. RangeOK'
  <2>1. r[1] \in Nat /\ r[2] \in Nat /\ (r[1] + r[2] + UNIT - 1) \div UNIT <= NFrames /\ UNIT \in Nat \ {0}
    BY PagingAssumption, Zenon
  <2>2. r[1] \div UNIT \in Nat
    BY <2>1, DivMod, Zenon
  <2>3. r[1] + r[2] + UNIT - 1 \in Nat
    BY <2>1
  <2>4. (r[1] + r[2] + UNIT - 1) \div UNIT \in Nat
    BY <2>1, <2>3, DivMod, Zenon
  <2> DEFINE q == (r[1] + r[2] + UNIT - 1) \div UNIT
             a == r[1] \div UNIT
  <2>5. q \in Nat /\ q <= NFrames /\ a \in Nat /\ range' = <<a, q - 1>>
    BY <1>1, <2>1, <2>2, <2>4, Zenon
  <2> HIDE DEF q, a
  <2>6. range'[1] = a /\ range'[2] = q - 1
    BY <2>5, Zenon
  <2> QED
    BY <1>1, <2>5, <2>6, Sizes DEF RangeOK
<1> QED
  BY <1>2, <1>3, <1>4, <1>5 DEF PagingInv

(* map_physical_range()'s step to the next page keeps the invariant, and   *)
(* no page that was mapped loses its frame.                                *)
LEMMA MapRangeStep ==
  ASSUME PagingInv, map_physical_range
  PROVE  PagingInv' /\ Remapping
<1> DEFINE f == range[1]
           r == map_physical_frame(State, f, cr3)
<1>1. /\ range[1] <= range[2] /\ r.pa <= End /\ Take(r)
      /\ range' = <<range[1] + 1, range[2]>>
      /\ UNCHANGED <<cr3, intr, task, fk, stacks, blocks>>
  BY Zenon DEF map_physical_range, Fits, End
<1>2. /\ range[1] \in Nat /\ range[2] \in Int /\ range[2] < NFrames
      /\ task = "boot" /\ fk["boot"].pc = "idle"
  BY <1>1, Zenon DEF PagingInv, RangeOK
<1>3. f \in 0 .. NFrames - 1
  BY <1>1, <1>2, Sizes
<1>4. RangeOK'
  <2>1. range'[1] = range[1] + 1 /\ range'[2] = range[2]
    BY <1>1, Zenon
  <2> QED
    BY <1>1, <1>2, <2>1 DEF RangeOK
<1>5. PICK o : SoundHeap(o, mem, placement_address, cr3)
  BY InvSound, Zenon
<1>6. State = Walking(mem, placement_address, tlb, NULL_TABLE)
  BY InvSound, Zenon
<1> HIDE DEF f
<1>7. r = map_physical_frame(Walking(mem, placement_address, tlb, NULL_TABLE), f, cr3)
  BY <1>6, Zenon
<1> HIDE DEF r
<1>8. /\ Touches(mem, placement_address, tlb, r, HHDM + f)
      /\ Translate(r.m, cr3, HHDM + f) # Translate(mem, cr3, HHDM + f) =>
           Translate(mem, cr3, HHDM + f) = None /\ Translate(r.m, cr3, HHDM + f).f = f
  BY <1>1, <1>3, <1>5, <1>7, MapFrame, SMTT(30)
<1>9. ASSUME NEW i \in 1 .. HeapEnd - 1, HHDM + i = HHDM + f,
             Translate(mem, cr3, HHDM + f) = Direct(i)
      PROVE  Translate(r.m, cr3, HHDM + f) = Direct(i)
  BY <1>8, <1>9, HeapPage, Zenon
<1>10. PagingInv'
  <2>1. Me.pc = "idle"
    BY <1>2, Zenon DEF Me
  <2> QED
    BY <1>1, <1>2, <1>4, <1>8, <1>9, <2>1, BootStep, Zenon
<1>11. Remapping
  <2>1. SUFFICES ASSUME NEW v \in Pages, Seen(v)' # Seen(v)
                 PROVE  task = "boot" /\ v >= HHDM /\ Seen(v) = None /\ Seen(v)'.f = v - HHDM
    BY Zenon DEF Remapping
  <2>2. Seen(v)' = Translate(r.m, cr3, v) /\ Seen(v) = Translate(mem, cr3, v)
    BY <1>1, Zenon DEF Seen, Take
  <2>3. v = HHDM + f
    BY <1>8, <2>1, <2>2 DEF Touches
  <2>4. v >= HHDM /\ v - HHDM = f
    BY <1>3, <2>3, Sizes
  <2> QED
    BY <1>2, <1>8, <2>1, <2>2, <2>3, <2>4
<1> QED
  BY <1>10, <1>11, Zenon

(* Remapping a page of the lower half at boot keeps the invariant, and     *)
(* changes no other page.                                                  *)
LEMMA MapPageStep ==
  ASSUME PagingInv, NEW q \in Remaps, boot_map_page(q[1], RamEnd - 1, q[2], ~q[2])
  PROVE  PagingInv' /\ Remapping
<1> DEFINE v == q[1]
           k == q[2]
           wr == ~q[2]
           r == map_page(State, v, RamEnd - 1, k, wr, cr3)
<1>1. /\ Booting /\ r.pa <= End /\ Take(r)
      /\ UNCHANGED <<cr3, intr, task, range, fk, stacks, blocks>>
  BY Zenon DEF boot_map_page, Fits, End
<1>2. v \in 0 .. HHDM - 1 /\ k \in BOOLEAN /\ wr \in BOOLEAN /\ q = <<v, k>> /\ RamEnd - 1 \in Nat
  BY PagingAssumption
<1>3. v \in Pages /\ \A i \in 1 .. HeapEnd - 1 : HHDM + i # v
  BY <1>2, Sizes DEF Pages
<1>4. task = "boot" /\ Me.pc = "idle"
  BY <1>1, BootingIs, Zenon
<1>5. PICK o : SoundHeap(o, mem, placement_address, cr3)
  BY InvSound, Zenon
<1>6. State = Walking(mem, placement_address, tlb, NULL_TABLE)
  BY InvSound, Zenon
<1> HIDE DEF v, k, wr
<1>7. r = map_page(Walking(mem, placement_address, tlb, NULL_TABLE), v, RamEnd - 1, k, wr, cr3)
  BY <1>6, Zenon
<1> HIDE DEF r
<1>8. Touches(mem, placement_address, tlb, r, v)
  <2>1. Remapped(mem, placement_address, tlb, r, v, RamEnd - 1)
    BY <1>2, <1>3, <1>5, <1>7, MapPage, SMTT(30)
  <2> QED
    BY <1>1, <2>1, Zenon DEF Remapped
<1>9. RangeOK'
  BY <1>1, Zenon DEF PagingInv, RangeOK
<1>10. PagingInv'
  BY <1>1, <1>3, <1>4, <1>8, <1>9, BootStep, Zenon
<1>11. Remapping
  <2>1. SUFFICES ASSUME NEW w \in Pages, Seen(w)' # Seen(w)
                 PROVE  task = "boot" /\ \E b \in BOOLEAN : <<w, b>> \in Remaps
    BY Zenon DEF Remapping
  <2>2. Seen(w)' = Translate(r.m, cr3, w) /\ Seen(w) = Translate(mem, cr3, w)
    BY <1>1, Zenon DEF Seen, Take
  <2>3. w = v
    BY <1>8, <2>1, <2>2, Zenon DEF Touches
  <2> QED
    BY <1>2, <1>4, <2>3, Zenon
<1> QED
  BY <1>10, <1>11, Zenon

(* uacpi_kernel_alloc() keeps the invariant.                               *)
LEMMA AllocStep ==
  ASSUME PagingInv, uacpi_kernel_alloc
  PROVE  PagingInv'
<1> DEFINE pa == placement_address
<1>1. /\ Booting /\ pa' = pa + 1 /\ blocks' = blocks \cup {<<pa, pa + 1>>}
      /\ UNCHANGED <<mem, cr3, tlb, intr, task, range, fk, stacks>>
  BY Zenon DEF uacpi_kernel_alloc, kmalloc
<1>2. task = "boot" /\ Me.pc = "idle"
  BY <1>1, BootingIs
<1>3. ProcOK' /\ RangeOK' /\ Me' = Me
  BY <1>1, Zenon DEF PagingInv, ProcOK, RangeOK, Me
<1>4. StepOK(Me, pa)' /\ Limit(Me, pa) = pa /\ Limit(Me, pa)' = pa'
  BY <1>2, <1>3 DEF StepOK, Limit
<1>5. /\ pa \in Nat /\ (HHDM + 1) * UNIT <= pa /\ \E own : Tables(own, mem, cr3)
      /\ HeapAt(stacks, blocks, mem, pa) /\ MapAt(stacks, mem, cr3) /\ Coherent(tlb, mem)
  BY <1>4, Zenon DEF PagingInv, MemOK
<1>6. HeapAt(stacks, blocks \cup {<<pa, pa + 1>>}, mem, pa + 1)
  <2>1. pa + 1 \in Nat /\ pa <= pa /\ pa < pa + 1
    BY <1>5
  <2> QED
    BY <1>5, <2>1, HeapBlock, Zenon
<1>7. pa' \in Nat /\ (HHDM + 1) * UNIT <= pa'
  BY <1>1, <1>5, Sizes
<1>8. MemOK'
  BY <1>1, <1>4, <1>5, <1>6, <1>7, Zenon DEF MemOK
<1>9. Coherent(tlb, mem)'
  BY <1>1, <1>5, Zenon DEF Coherent
<1> QED
  BY <1>3, <1>4, <1>8, <1>9 DEF PagingInv

(* Switching to another process keeps the invariant.                       *)
LEMMA PreemptStep ==
  ASSUME PagingInv, NEW p \in Procs, preempt(p)
  PROVE  PagingInv'
<1>1. /\ intr /\ task \in Procs /\ p # task /\ task' = p /\ tlb' = FlushAll
      /\ UNCHANGED <<mem, placement_address, cr3, intr, range, fk, stacks, blocks>>
  BY Zenon DEF preempt
<1>2. ProcOK /\ RangeOK /\ "boot" \notin Procs
  BY PagingAssumption, Zenon DEF PagingInv
<1>3. Me.pc = "idle" /\ fk[p].pc = "idle" /\ p # "boot" /\ task # "boot"
  BY <1>1, <1>2, Zenon DEF ProcOK, Me
<1>4. ProcOK' /\ RangeOK'
  BY <1>1, <1>2, <1>3, Zenon DEF ProcOK, RangeOK
<1>5. Me'.pc = "idle"
  BY <1>1, <1>3, Zenon DEF Me
<1>6. StepOK(Me, placement_address)'
      /\ Limit(Me, placement_address) = placement_address
      /\ Limit(Me, placement_address)' = placement_address
  BY <1>1, <1>3, <1>5, Zenon DEF StepOK, Limit
<1>7. MemOK'
  BY <1>1, <1>6, Zenon DEF PagingInv, MemOK
<1>8. Coherent(tlb, mem)'
  BY <1>1, Zenon DEF Coherent, FlushAll
<1> QED
  BY <1>4, <1>6, <1>7, <1>8, Zenon DEF PagingInv
-----------------------------------------------------------------------------
(* The page that becomes a guard: a page of the heap that is mapped and is *)
(* not a guard yet, with room for the tables of a split.                   *)
LEMMA NewGuard ==
  ASSUME PagingInv, Me.pc = "guard", NEW v, v = Me.stack \div UNIT
  PROVE  /\ v \in Nat /\ v - HHDM \in 1 .. HeapEnd - 1 /\ HHDM + (v - HHDM) = v
         /\ v \notin Guards(stacks)
         /\ PageAlign(placement_address) + 2 * UNIT <= End
         /\ Me.stack + KSTACK * UNIT <= End
<1> DEFINE x == Me.stack
           y == Me.vma
           pa == placement_address
<1>1. x \in Nat /\ y \in Nat /\ pa \in Nat
  BY MeIs, Zenon DEF PagingInv, MemOK
<1>2. /\ x % UNIT = 0 /\ (HHDM + 1) * UNIT <= x /\ x + (KSTACK + 3) * UNIT <= End
      /\ x + KSTACK * UNIT = y /\ y + 1 = pa
  BY Zenon DEF PagingInv, StepOK
<1>3. v \in Nat /\ x = v * UNIT
  BY <1>1, <1>2, AlignedPage, Zenon
<1>4. HeapAt(stacks, blocks, mem, x)
  BY Zenon DEF PagingInv, MemOK, Limit
<1> HIDE DEF x, y, pa
<1>5. HHDM + 1 <= v
  BY <1>2, <1>3, Multiples, Sizes
<1>6. (v + KSTACK + 3) * UNIT = x + (KSTACK + 3) * UNIT
  <2>1. \A a, b, u \in Int : (a + b + 3) * u = a * u + (b + 3) * u
    OBVIOUS
  <2> QED
    BY <1>3, <2>1, Sizes
<1>7. v + KSTACK + 3 <= HHDM + HeapEnd
  <2>1. (v + KSTACK + 3) * UNIT <= (HHDM + HeapEnd) * UNIT
    BY <1>2, <1>6 DEF End
  <2>2. v + KSTACK + 3 \in Int /\ HHDM + HeapEnd \in Int /\ UNIT \in Nat \ {0}
    BY <1>3, Sizes
  <2> QED
    BY <2>1, <2>2, Multiples
<1>8. v - HHDM \in 1 .. HeapEnd - 1 /\ HHDM + (v - HHDM) = v
  BY <1>3, <1>5, <1>7, Sizes
<1>9. v \notin Guards(stacks)
  <2> SUFFICES ASSUME NEW b \in stacks, b[1] \div UNIT = v PROVE FALSE
    BY Zenon DEF Guards
  <2>1. b[1] = v * UNIT
    BY <1>4, StackPages, Zenon
  <2>2. b[1] \in Nat /\ b[2] \in Nat /\ b[1] < b[2] /\ b[2] <= x
    BY <1>4, Zenon DEF HeapAt, Within
  <2> QED
    BY <1>1, <1>3, <2>1, <2>2
<1>10. PageAlign(pa) + 2 * UNIT <= End
  <2> DEFINE b == v + KSTACK + 1
  <2>1. b \in Nat /\ b * UNIT = x + KSTACK * UNIT + UNIT
    <3>1. \A a, c, u \in Int : (a + c + 1) * u = a * u + c * u + u
      OBVIOUS
    <3> QED
      BY <1>3, <3>1, Sizes
  <2> HIDE DEF b
  <2>2. pa <= b * UNIT
    BY <1>1, <1>2, <2>1, Sizes
  <2>3. PageAlign(pa) <= b * UNIT /\ PageAlign(pa) \in Nat
    BY <1>1, <2>1, <2>2, Aligned, Zenon
  <2>4. b * UNIT + 2 * UNIT <= End
    BY <1>1, <1>2, <2>1, Sizes
  <2> QED
    BY <1>1, <2>1, <2>3, <2>4, Sizes
<1>11. x + KSTACK * UNIT <= End
  BY <1>1, <1>2, Sizes
<1> QED
  BY <1>3, <1>8, <1>9, <1>10, <1>11 DEF x, pa

(* alloc_stack_guard() unmaps the page below the new stack, and no other:  *)
(* the page is neither another stack's nor a table's.                      *)
LEMMA GuardStep ==
  ASSUME PagingInv, alloc_stack_guard
  PROVE  PagingInv' /\ Remapping
<1> DEFINE x == Me.stack
           y == Me.vma
           v == x \div UNIT
           i == v - HHDM
           pa == placement_address
           r == unmap_page(State, v, cr3)
           q == Proc("restore", Me.flags, Me.stack, Me.vma)
           S == stacks \cup {<<x, y>>}
           B == blocks \cup {<<y, pa>>}
<1>0. ProcOK /\ x \in Nat /\ y \in Nat /\ pa \in Nat /\ intr \in BOOLEAN
  BY MeIs, Zenon DEF PagingInv, MemOK, ProcOK
<1>1. Me.pc = "guard"
  BY <1>0, MeIs, Zenon DEF alloc_stack_guard
<1>2. /\ x % UNIT = 0 /\ (HHDM + 1) * UNIT <= x /\ x + KSTACK * UNIT = y /\ y + 1 = pa
      /\ HeapAt(stacks, blocks, mem, x)
  BY <1>1, Zenon DEF PagingInv, StepOK, MemOK, Limit
<1>3. /\ Take(r) /\ stacks' = S /\ blocks' = B
      /\ fk' = [fk EXCEPT ![task].pc = "restore"]
      /\ task' = IF r.at = 0 THEN "panic" ELSE task
      /\ UNCHANGED <<cr3, intr, range>>
  BY <1>2, Zenon DEF alloc_stack_guard
<1>4. /\ v \in Nat /\ i \in 1 .. HeapEnd - 1 /\ HHDM + i = v /\ v \notin Guards(stacks)
      /\ PageAlign(pa) + 2 * UNIT <= End /\ y <= End
  BY <1>1, <1>2, NewGuard, Zenon
<1>5. q \in ProcRecord /\ q.pc = "restore"
  BY <1>0, MeIs, ProcFields DEF Pcs
<1>6. fk' = [fk EXCEPT ![task] = q]
  <2>1. Me = Proc(Me.pc, Me.flags, Me.stack, Me.vma)
    BY <1>0, MeIs, Zenon
  <2>2. q = Moved(Me, "restore")
    BY <2>1, ProcUpdates, SMTT(30)
  <2> QED
    BY <1>3, <2>2, Zenon DEF Me, Moved
<1>7. PICK o : SoundHeap(o, mem, pa, cr3)
  BY InvSound, Zenon
<1>8. State = Walking(mem, pa, tlb, NULL_TABLE)
  BY InvSound, Zenon
<1> HIDE DEF v, x, y, q
<1>9. r = unmap_page(Walking(mem, pa, tlb, NULL_TABLE), v, cr3)
  BY <1>8, Zenon
<1> HIDE DEF r, i
<1>10. v \in Pages /\ Direct(i) # None /\ Direct(i).f = i
  BY <1>4, HeapPage, Zenon
<1>11. Translate(mem, cr3, v) = Direct(i)
  BY <1>4, Zenon DEF PagingInv, MemOK, MapAt
<1>12. Touches(mem, pa, tlb, r, v) /\ Translate(r.m, cr3, v) = None /\ r.at = i
  <2>1. Translate(mem, cr3, v) # None
    BY <1>10, <1>11, Zenon
  <2> QED
    BY <1>4, <1>7, <1>9, <1>10, <1>11, <2>1, UnmapPage, SMTT(30)
<1>13. task' = task
  BY <1>3, <1>4, <1>12
<1>14. Becomes(q)
  <2>1. ~(range[1] <= range[2]) /\ (task # "boot" => ~intr)
    BY <1>1, RangeDone, InsideMasked, Zenon
  <2> QED
    BY <1>0, <1>3, <1>5, <1>6, <1>13, <2>1, Zenon DEF Becomes
<1>15. ProcOK' /\ RangeOK' /\ Me' = q
  BY <1>14, ProcStep, Zenon DEF PagingInv
<1>16. StepOK(Me, pa)' /\ Limit(Me, pa)' = pa'
  BY <1>5, <1>15, Zenon DEF StepOK, Limit
<1>17. mem' = r.m /\ pa' = r.pa /\ tlb' = r.t
  BY <1>3, Zenon DEF Take
<1>18. PICK t : SoundHeap(t, r.m, r.pa, cr3)
  BY <1>12, Zenon DEF Touches
<1>19. Tables(t, r.m, cr3) /\ FramesBelow(r.m, r.pa) /\ DOMAIN r.m \subseteq Nat
       /\ r.pa \in Nat /\ (HHDM + 1) * UNIT <= r.pa
  BY <1>18, Zenon DEF SoundHeap, Tables
<1>20. HeapAt(S, B, r.m, r.pa)
  <2>1. x <= x /\ x < y /\ y <= y /\ y < pa /\ (HHDM + 1) * UNIT <= y
    BY <1>0, <1>2, Sizes
  <2>2. HeapAt(S, blocks, mem, y)
    BY <1>0, <1>2, <1>4, <2>1, HeapStack, Zenon
  <2> HIDE DEF S
  <2>3. HeapAt(S, B, mem, pa)
    BY <1>0, <2>1, <2>2, HeapBlock, ZenonT(30)
  <2> HIDE DEF B
  <2>4. /\ \A f \in DOMAIN r.m \ DOMAIN mem : f \in 1 .. HeapEnd - 1 /\ pa <= (HHDM + f) * UNIT
        /\ pa <= r.pa /\ pa <= pa
    BY <1>0, <1>12 DEF Touches
  <2> QED
    BY <1>0, <1>19, <2>3, <2>4, HeapTables, SMTT(30)
<1>21. MapAt(S, r.m, cr3)
  <2>1. Guards(S) = Guards(stacks) \cup {v}
    <3>1. <<x, y>>[1] = x
      BY Zenon
    <3> QED
      BY <3>1, Zenon DEF Guards, v
  <2>2. \A w \in Pages : w # v => Translate(r.m, cr3, w) = Translate(mem, cr3, w)
    BY <1>12, Zenon DEF Touches
  <2>3. MapAt(stacks, mem, cr3) /\ \A g \in Guards(stacks) : g \in Pages
    BY <1>2, GuardsApart, Zenon DEF PagingInv, MemOK
  <2> HIDE DEF S
  <2>4. ASSUME NEW j \in 1 .. HeapEnd - 1, HHDM + j \notin Guards(S)
        PROVE  Translate(r.m, cr3, HHDM + j) = Direct(j)
    <3>1. HHDM + j # v /\ HHDM + j \notin Guards(stacks) /\ HHDM + j \in Pages
      BY <2>1, <2>4, HeapPage
    <3> QED
      BY <2>2, <2>3, <3>1, Zenon DEF MapAt
  <2>5. ASSUME NEW g \in Guards(S) PROVE Translate(r.m, cr3, g) = None
    <3>1. CASE g = v
      BY <1>12, <3>1, Zenon
    <3>2. CASE g # v
      BY <2>1, <2>2, <2>3, <3>2 DEF MapAt
    <3> QED
      BY <3>1, <3>2, Zenon
  <2> QED
    BY <2>4, <2>5, Zenon DEF MapAt
<1> HIDE DEF S, B
<1>22. MemOK'
  BY <1>3, <1>16, <1>17, <1>19, <1>20, <1>21 DEF MemOK
<1>23. Coherent(tlb, mem)'
  <2>1. Coherent(r.t, r.m)
    BY <1>12, Zenon DEF Touches, PagingInv
  <2> QED
    BY <1>3, <1>17, <2>1 DEF Coherent
<1>24. PagingInv'
  BY <1>15, <1>16, <1>22, <1>23 DEF PagingInv
<1>25. Remapping
  <2>1. SUFFICES ASSUME NEW w \in Pages, Seen(w)' # Seen(w)
                 PROVE  At("guard") /\ w = Me.stack \div UNIT /\ Seen(w)' = None
    BY Zenon DEF Remapping
  <2>2. Seen(w)' = Translate(r.m, cr3, w) /\ Seen(w) = Translate(mem, cr3, w)
    BY <1>3, <1>17, SMTT(30) DEF Seen
  <2>3. w = v
    BY <1>12, <2>1, <2>2 DEF Touches
  <2>4. At("guard")
    BY <1>0, <1>1, MeIs
  <2> QED
    BY <1>12, <2>2, <2>3, <2>4 DEF v, x
<1> QED
  BY <1>24, <1>25, Zenon
-----------------------------------------------------------------------------
(* init's top-level table: a copy of the root, over the same lower levels. *)
Copied(m, f, c) == [g \in DOMAIN m \cup {f} |-> IF g = f THEN m[c] ELSE m[g]]

(* A copy of the root in a free frame is as good a root, and translates    *)
(* every page to the same frame.                                           *)
LEMMA CopyRoot ==
  ASSUME NEW own, NEW m, NEW c, Tables(own, m, c), NEW f \in Nat, f \notin DOMAIN m, f # NULL_TABLE,
         NEW n, n = Copied(m, f, c)
  PROVE  /\ \E o : Tables(o, n, f)
         /\ \A v \in Pages : Translate(n, f, v) = Translate(m, c, v)
<1> DEFINE o == [g \in DOMAIN m \cup {f} |-> IF g = f THEN <<4, 0>> ELSE own[g]]
<1>1. /\ c \in DOMAIN m /\ own[c] = <<4, 0>>
      /\ DOMAIN m \subseteq Nat /\ NULL_TABLE \notin DOMAIN m
      /\ \A g \in DOMAIN m : m[g] \in [Slots -> Entries]
      /\ \A g \in DOMAIN m, l \in 1 .. 4, v \in Pages :
            own[g] = Label(l, v) => EntryOK(own, m, l, v, m[g][Idx(l, v)])
  BY Zenon DEF Tables
<1>2. /\ DOMAIN n = DOMAIN m \cup {f} /\ n[f] = m[c] /\ \A g \in DOMAIN m : n[g] = m[g]
      /\ o[f] = <<4, 0>> /\ \A g \in DOMAIN m : o[g] = own[g]
  BY Zenon DEF Copied
<1> HIDE DEF o
<1>3. \A l \in 1 .. 4, v \in Pages : \A e : EntryOK(own, m, l, v, e) => EntryOK(o, n, l, v, e)
  BY <1>2 DEF EntryOK
<1>4. \A g \in DOMAIN n : n[g] \in [Slots -> Entries]
  BY <1>1, <1>2, Zenon
<1>5. ASSUME NEW g \in DOMAIN n, NEW l \in 1 .. 4, NEW v \in Pages, o[g] = Label(l, v)
      PROVE  EntryOK(o, n, l, v, n[g][Idx(l, v)])
  <2>1. CASE g = f
    <3>1. own[c] = Label(l, v)
      BY <1>1, <1>2, <1>5, <2>1, ZenonT(30)
    <3> QED
      BY <1>1, <1>2, <1>3, <2>1, <3>1, SMTT(30)
  <2>2. CASE g # f
    BY <1>1, <1>2, <1>3, <1>5, <2>2
  <2> QED
    BY <2>1, <2>2, Zenon
<1>6. Tables(o, n, f)
  BY <1>1, <1>2, <1>4, <1>5, Zenon DEF Tables
<1>7. ASSUME NEW v \in Pages PROVE Translate(n, f, v) = Translate(m, c, v)
  <2>1. /\ E4(m, c, v).present /\ E4(m, c, v).f \in DOMAIN m
        /\ Mid(m, c, v) => E3(m, c, v).f \in DOMAIN m
        /\ Low(m, c, v) => E2(m, c, v).f \in DOMAIN m
    BY WalkDown, Zenon
  <2>2. E4(n, f, v) = E4(m, c, v)
    BY <1>2, ZenonT(30) DEF E4
  <2>3. E3(n, f, v) = E3(m, c, v)
    BY <1>2, <2>1, <2>2, SMTT(30) DEF E3
  <2>4. Mid(m, c, v) => E2(n, f, v) = E2(m, c, v)
    BY <1>2, <2>1, <2>3, SMTT(30) DEF E2
  <2>5. Low(m, c, v) => E1(n, f, v) = E1(m, c, v)
    BY <1>2, <2>1, <2>4 DEF E1, Low
  <2>6. E4(n, f, v).present
    BY <2>1, <2>2, Zenon
  <2>7. CASE ~Mid(m, c, v)
    BY <2>1, <2>2, <2>3, <2>6, <2>7, TranslateIs, Zenon DEF Mid
  <2>8. CASE Mid(m, c, v) /\ ~Low(m, c, v)
    BY <2>1, <2>2, <2>3, <2>4, <2>6, <2>8, TranslateIs, Zenon DEF Mid, Low
  <2>9. CASE Low(m, c, v)
    <3>1. Mid(m, c, v)
      BY <2>9, Zenon DEF Low
    <3> QED
      BY <2>1, <2>2, <2>3, <2>4, <2>5, <2>6, <2>9, <3>1, TranslateIs, Zenon DEF Mid, Low
  <2> QED
    BY <2>7, <2>8, <2>9, Zenon
<1> QED
  BY <1>6, <1>7

(* init_process()'s copy of the root keeps the invariant.                  *)
LEMMA InitStep ==
  ASSUME PagingInv, NEW p \in Procs, init_process(p)
  PROVE  PagingInv' /\ Remapping
<1> DEFINE pa == placement_address
           f == NextFrame(pa)
           n == Copied(mem, f, cr3)
           qa == PageAlign(pa) + UNIT
<1>1. /\ task = "boot" /\ Me.pc = "restore" /\ qa <= End
      /\ mem' = n /\ pa' = qa /\ cr3' = f /\ tlb' = FlushAll /\ task' = p /\ intr' = TRUE
      /\ UNCHANGED <<range, fk, stacks, blocks>>
  BY Zenon DEF init_process, SwitchToInit, kmalloc_a, kmalloc, At, Copied, NextFrame, End
<1>2. ProcOK /\ RangeOK /\ "boot" \notin Procs /\ pa \in Nat /\ (HHDM + 1) * UNIT <= pa
  BY PagingAssumption, Zenon DEF PagingInv, MemOK
<1>3. \A q \in Procs : fk[q].pc = "idle"
  BY <1>1, <1>2, Zenon DEF ProcOK
<1>4. fk["boot"].pc = "restore"
  BY <1>1, Zenon DEF Me
<1>5. ProcOK'
  BY <1>1, <1>2, <1>3, <1>4, Zenon DEF ProcOK
<1>6. RangeOK'
  BY <1>1, <1>2, <1>4, Zenon DEF RangeOK
<1>7. Me'.pc = "idle"
  BY <1>1, <1>3, Zenon DEF Me
<1>8. StepOK(Me, pa)' /\ Limit(Me, pa) = pa /\ Limit(Me, pa)' = pa'
  BY <1>1, <1>7, Zenon DEF StepOK, Limit
<1>9. HeapAt(stacks, blocks, mem, pa) /\ MapAt(stacks, mem, cr3)
  BY <1>8, Zenon DEF PagingInv, MemOK
<1>10. PICK own : Tables(own, mem, cr3)
  BY Zenon DEF PagingInv, MemOK
<1>11. /\ f \in 1 .. HeapEnd - 1 /\ f < NFrames
       /\ (HHDM + f + 1) * UNIT = qa /\ pa <= (HHDM + f) * UNIT
  BY <1>1, <1>2, FrameIs, Zenon
<1>12. PageAlign(pa) \in Nat /\ pa <= PageAlign(pa)
  BY <1>2, Aligned, Zenon
<1>13. qa \in Nat /\ pa <= qa /\ (HHDM + 1) * UNIT <= qa
  BY <1>2, <1>12, Sizes
<1> HIDE DEF f, qa
<1>14. f \in Nat /\ f \notin DOMAIN mem /\ f # NULL_TABLE
  <2>1. f \in Nat /\ f # NULL_TABLE
    BY <1>11, Sizes DEF NULL_TABLE
  <2>2. f \in DOMAIN mem => (HHDM + f + 1) * UNIT <= pa
    BY <1>9, <1>11, Zenon DEF HeapAt
  <2> QED
    BY <1>2, <1>11, <2>1, <2>2, Sizes
<1>15. /\ \E o : Tables(o, n, f)
       /\ \A v \in Pages : Translate(n, f, v) = Translate(mem, cr3, v)
  BY <1>10, <1>14, CopyRoot
<1>16. DOMAIN n = DOMAIN mem \cup {f}
  BY Zenon DEF Copied
<1> HIDE DEF n
<1>17. HeapAt(stacks, blocks, n, qa)
  <2>1. DOMAIN n \subseteq Nat
    BY <1>9, <1>14, <1>16 DEF HeapAt
  <2>2. ASSUME NEW g \in DOMAIN n, g < NFrames PROVE g >= 1 /\ (HHDM + g + 1) * UNIT <= qa
    <3>1. CASE g = f
      BY <1>11, <1>13, <3>1
    <3>2. CASE g # f
      <4>1. g \in 1 .. HeapEnd - 1 /\ (HHDM + g + 1) * UNIT <= pa
        BY <1>9, <1>16, <2>2, <3>2, Zenon DEF HeapAt
      <4> QED
        BY <1>2, <1>13, <4>1, Sizes
    <3> QED
      BY <3>1, <3>2, Zenon
  <2>3. FramesBelow(n, qa)
    BY <2>2, Zenon DEF FramesBelow
  <2>4. \A g \in DOMAIN n \ DOMAIN mem : g \in 1 .. HeapEnd - 1 /\ pa <= (HHDM + g) * UNIT
    BY <1>11, <1>16, Zenon
  <2>5. pa <= pa
    BY <1>2
  <2> QED
    BY <1>2, <1>9, <1>13, <2>1, <2>3, <2>4, <2>5, HeapTables, ZenonT(30)
<1>18. MapAt(stacks, n, f)
  <2>1. \A g \in Guards(stacks) : g \in Pages
    BY <1>9, GuardsApart, Zenon
  <2> QED
    BY <1>9, <1>15, <2>1, HeapPage, Zenon DEF MapAt
<1>19. MemOK'
  BY <1>1, <1>8, <1>13, <1>15, <1>17, <1>18, Zenon DEF MemOK
<1>20. Coherent(tlb, mem)'
  BY <1>1, Zenon DEF Coherent, FlushAll
<1>21. PagingInv'
  BY <1>5, <1>6, <1>8, <1>19, <1>20 DEF PagingInv
<1>22. Remapping
  BY <1>1, <1>15, ZenonT(30) DEF Remapping, Seen
<1> QED
  BY <1>21, <1>22, Zenon

(* Every step keeps the invariant and every mapping it may not change.     *)
LEMMA PagingStep ==
  ASSUME PagingInv, [PNext]_pvars
  PROVE  PagingInv' /\ (PNext => Remapping)
<1>1. ASSUME NEW v \in Touched, Access(v) PROVE PagingInv' /\ Remapping
  <2>1. v \in Pages
    BY PagingAssumption, Zenon DEF Pages
  <2> QED
    BY <1>1, <2>1, AccessStep, Zenon DEF Remapping, Access
<1>2. ASSUME NEW r \in Ranges, boot_map_range(r) PROVE PagingInv' /\ Remapping
  BY <1>2, BootRangeStep, Zenon DEF Remapping, boot_map_range
<1>3. CASE map_physical_range
  BY <1>3, MapRangeStep, Zenon
<1>4. ASSUME NEW r \in Remaps, boot_map_page(r[1], RamEnd - 1, r[2], ~r[2]) PROVE PagingInv' /\ Remapping
  BY <1>4, MapPageStep, Zenon
<1>5. CASE uacpi_kernel_alloc
  BY <1>5, AllocStep, Zenon DEF Remapping, uacpi_kernel_alloc
<1>6. CASE irq_save
  BY <1>6, SaveStep, Zenon DEF Remapping, irq_save, SaveFlags
<1>7. CASE kmalloc_a_align
  BY <1>7, AlignStep, Zenon DEF Remapping, kmalloc_a_align
<1>8. CASE kmalloc_read
  BY <1>8, ReadStep, Zenon DEF Remapping, kmalloc_read
<1>9. CASE kmalloc_bump
  BY <1>9, BumpStep, Zenon DEF Remapping, kmalloc_bump
<1>10. CASE alloc_stack_guard
  BY <1>10, GuardStep, Zenon
<1>11. CASE irq_restore
  BY <1>11, RestoreStep, Zenon DEF Remapping, irq_restore
<1>12. ASSUME NEW p \in Procs, init_process(p) PROVE PagingInv' /\ Remapping
  BY <1>12, InitStep, Zenon
<1>13. ASSUME NEW p \in Procs, preempt(p) PROVE PagingInv' /\ Remapping
  BY <1>13, PreemptStep, Zenon DEF Remapping, preempt
<1>14. CASE UNCHANGED pvars
  <2>1. ProcOK' /\ RangeOK' /\ Me' = Me
    BY <1>14, Zenon DEF PagingInv, ProcOK, RangeOK, Me, pvars
  <2>2. StepOK(Me, placement_address)' /\ MemOK'
    BY <1>14, <2>1, Zenon DEF PagingInv, StepOK, MemOK, Limit, pvars
  <2>3. Coherent(tlb, mem)'
    BY <1>14, Zenon DEF PagingInv, Coherent, pvars
  <2>4. Remapping
    BY <1>14, Zenon DEF Remapping, pvars
  <2> QED
    BY <2>1, <2>2, <2>3, <2>4, Zenon DEF PagingInv
<1>15. ASSUME PNext PROVE PagingInv' /\ Remapping
  <2>1. CASE \/ \E v \in Touched : Access(v)
             \/ \E r \in Ranges : boot_map_range(r)
             \/ map_physical_range
             \/ \E r \in Remaps : boot_map_page(r[1], RamEnd - 1, r[2], ~r[2])
    BY <1>1, <1>2, <1>3, <1>4, <1>15, <2>1, Zenon
  <2>2. CASE \/ uacpi_kernel_alloc
             \/ irq_save \/ kmalloc_a_align \/ kmalloc_read \/ kmalloc_bump
             \/ alloc_stack_guard \/ irq_restore
    BY <1>5, <1>6, <1>7, <1>8, <1>9, <1>10, <1>11, <1>15, <2>2, Zenon
  <2>3. CASE \E p \in Procs : init_process(p) \/ preempt(p)
    BY <1>12, <1>13, <2>3, Zenon
  <2> QED
    BY <1>15, <2>1, <2>2, <2>3, Zenon DEF PNext
<1> QED
  BY <1>14, <1>15, Zenon

(* The invariant holds in every state of every behaviour.                  *)
LEMMA PagingKept == PSpec => []PagingInv
<1>1. PInit => PagingInv
  BY PagingInit, Zenon
<1>2. PagingInv /\ [PNext]_pvars => PagingInv'
  BY PagingStep, Zenon
<1> QED
  BY <1>1, <1>2, PTL DEF PSpec

(* The heap hands out no byte twice, every stack is usable above a guard   *)
(* that nothing reaches, and the page tables stay reachable, whatever the  *)
(* memory's size, the ranges mapped at boot and the number of processes.   *)
THEOREM MemoryStaysApart == PSpec => []MemoryApart
<1>1. PagingInv => MemoryApart
  BY DisjointFromInv, GuardedFromInv, ReachedFromInv, Zenon DEF MemoryApart
<1> QED
  BY <1>1, PagingKept, PTL

(* No change of an entry leaves a stale cached translation behind.         *)
THEOREM TlbStaysCoherent == PSpec => []TlbCoherent
<1>1. PagingInv => TlbCoherent
  BY Zenon DEF PagingInv, Coherent, TlbCoherent, Seen
<1> QED
  BY <1>1, PagingKept, PTL

(* A step changes no translation but the one it is for, splits and the     *)
(* copy of the root included.                                              *)
THEOREM MappingIsKept == PSpec => MappingKept
<1>1. PagingInv /\ [PNext]_pvars => [Remapping]_pvars
  BY PagingStep, Zenon
<1> QED
  BY <1>1, PagingKept, PTL DEF PSpec, MappingKept
=============================================================================
