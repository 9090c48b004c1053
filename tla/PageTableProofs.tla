-------------------------- MODULE PageTableProofs ---------------------------
(***************************************************************************)
(* A table of level l is owned by the pages that agree above that level,   *)
(* so an entry is on the walk of the pages it stands for and of no others. *)
(* From this follows what writing an entry, linking a new table below one  *)
(* and splitting a huge page do to the translation of every page.          *)
(***************************************************************************)
EXTENDS Paging, Integers, TLAPS

(* The quotient and the remainder.                                         *)
LEMMA DivMod ==
  ASSUME NEW w \in Nat \ {0}, NEW a \in Nat
  PROVE  a = w * (a \div w) + (a % w) /\ a % w \in 0 .. w - 1 /\ a \div w \in Nat
OBVIOUS

(* They are the only ones.                                                 *)
LEMMA DivUnique ==
  ASSUME NEW w \in Nat \ {0}, NEW q \in Nat, NEW r \in 0 .. w - 1
  PROVE  (w * q + r) \div w = q /\ (w * q + r) % w = r
OBVIOUS

(* Dividing twice.                                                         *)
LEMMA Nested ==
  ASSUME NEW v \in Nat, NEW a \in Nat \ {0}, NEW b \in Nat \ {0}
  PROVE  (v \div a) \div b = v \div (a * b) /\ v % (a * b) = a * ((v \div a) % b) + (v % a)
<1> DEFINE q == v \div a
           r == v % a
           p == q \div b
           k == q % b
           w == a * b
           x == a * k + r
<1>1. v = a * q + r /\ r \in 0 .. a - 1 /\ q \in Nat
  BY DivMod, Zenon
<1>2. q = b * p + k /\ k \in 0 .. b - 1 /\ p \in Nat
  <2> HIDE DEF q
  <2> QED
    BY <1>1, DivMod, Zenon
<1> HIDE DEF q, r, p, k
<1>3. a * q = a * (b * p) + a * k /\ a * (b * p) = w * p
  BY <1>1, <1>2
<1>4. a * k <= a * (b - 1) /\ a * (b - 1) = w - a /\ a * k \in Nat /\ w \in Nat \ {0}
  BY <1>2
<1>5. v = w * p + x /\ x \in 0 .. w - 1
  BY <1>1, <1>2, <1>3, <1>4
<1> HIDE DEF w, x
<1>6. v \div w = p /\ v % w = x
  BY <1>2, <1>4, <1>5, DivUnique, Zenon
<1> QED
  BY <1>6, Zenon DEF w, x, p, k, q, r

(* The layout in eighths of the memory.                                    *)
LEMMA Eighths ==
  /\ NFrames \div 8 \in Nat \ {0} /\ NFrames = 8 * (NFrames \div 8)
  /\ NFrames \div 2 = 4 * (NFrames \div 8) /\ NFrames \in Nat \ {0}
BY PagingAssumption
-----------------------------------------------------------------------------
(* The levels of the tables.  The pages of one table of level l are those  *)
(* with one label.                                                         *)
Idx(l, v) == CASE l = 4 -> PML4_INDEX(v)
               [] l = 3 -> PDPT_INDEX(v)
               [] l = 2 -> PD_INDEX(v)
               [] l = 1 -> PT_INDEX(v)

Key(l, v) == CASE l = 4 -> 0
               [] l = 3 -> v \div NFrames
               [] l = 2 -> v \div (NFrames \div 2)
               [] l = 1 -> v \div 4
               [] l = 0 -> v

Label(l, v) == <<l, Key(l, v)>>

(* A page's index in a table is one of its slots (paging.c:12-15).         *)
LEMMA IndexInTable ==
  ASSUME NEW v \in Pages
  PROVE  /\ \A l \in 1 .. 4 : Idx(l, v) \in Slots
         /\ Idx(4, v) \in 0 .. 1 /\ Idx(3, v) \in 0 .. 1
         /\ Idx(2, v) \in 0 .. NFrames \div 8 - 1 /\ Idx(1, v) \in 0 .. 3
<1>0. v \in Nat /\ v < 2 * NFrames
  BY Eighths DEF Pages
<1>1. Idx(4, v) \in 0 .. 1
  <2>0. NFrames \in Nat \ {0} /\ v \in Nat
    BY <1>0, Eighths, Zenon
  <2>1. v \div NFrames \in Nat /\ v = NFrames * (v \div NFrames) + (v % NFrames) /\ v % NFrames \in Nat
    <3>1. /\ v = NFrames * (v \div NFrames) + (v % NFrames) /\ v % NFrames \in 0 .. NFrames - 1
          /\ v \div NFrames \in Nat
      BY <2>0, DivMod, Zenon
    <3>2. v % NFrames \in Nat
      BY <2>0, <3>1
    <3> QED
      BY <3>1, <3>2, Zenon
  <2>2. v \div NFrames < 2
    <3> DEFINE q == v \div NFrames
    <3>1. q \in Nat /\ NFrames * q < 2 * NFrames
      <4> HIDE DEF q
      <4> QED
        BY <1>0, <2>1, Eighths DEF q
    <3> HIDE DEF q
    <3>2. q >= 2 => NFrames * q >= NFrames * 2
      BY <3>1, Eighths
    <3> QED
      BY <3>1, <3>2, Eighths DEF q
  <2> QED
    BY <2>1, <2>2 DEF Idx, PML4_INDEX
<1>2. Idx(3, v) \in 0 .. 1
  <2> DEFINE h == NFrames \div 2
  <2>0. h \in Nat \ {0} /\ v \in Nat
    BY <1>0, Eighths
  <2>1. v \div h \in Nat
    <3> HIDE DEF h
    <3> QED
      BY <2>0, DivMod, Zenon
  <2> QED
    BY <2>1 DEF Idx, PDPT_INDEX
<1>3. Idx(2, v) \in 0 .. NFrames \div 8 - 1
  <2>1. v \div 4 \in Nat
    BY <1>0
  <2>2. (v \div 4) % (NFrames \div 8) \in 0 .. NFrames \div 8 - 1
    BY <2>1, Eighths, DivMod, Zenon
  <2> QED
    BY <2>2 DEF Idx, PD_INDEX
<1>4. Idx(1, v) \in 0 .. 3
  BY <1>0 DEF Idx, PT_INDEX
<1>5. 0 .. 3 \subseteq Slots /\ 0 .. NFrames \div 8 - 1 \subseteq Slots
  BY Eighths DEF Slots
<1>6. \A l \in 1 .. 4 : Idx(l, v) \in Slots
  <2> SUFFICES ASSUME NEW l \in 1 .. 4 PROVE Idx(l, v) \in Slots
    BY Zenon
  <2>1. l = 1 \/ l = 2 \/ l = 3 \/ l = 4
    OBVIOUS
  <2>2. Idx(4, v) \in 0 .. 3 /\ Idx(3, v) \in 0 .. 3
    BY <1>1, <1>2
  <2> QED
    BY <1>3, <1>4, <1>5, <2>1, <2>2, Zenon
<1> QED
  BY <1>1, <1>2, <1>3, <1>4, <1>6, Zenon

(* The pages of one entry are the pages of one table of the level below:   *)
(* pages agree on the label below exactly if they agree on the label and   *)
(* on the index.                                                           *)
LEMMA Levels ==
  ASSUME NEW v \in Pages, NEW w \in Pages, NEW l \in 1 .. 4
  PROVE  Key(l - 1, v) = Key(l - 1, w) <=> Key(l, v) = Key(l, w) /\ Idx(l, v) = Idx(l, w)
<1>0. v \in Nat /\ v < 2 * NFrames /\ w \in Nat
  BY Eighths DEF Pages
<1>1. CASE l = 4
  <2>1. Key(3, v) = Idx(4, v) /\ Key(3, w) = Idx(4, w) /\ Key(4, v) = 0 /\ Key(4, w) = 0 /\ 4 - 1 = 3
    BY DEF Key, Idx, PML4_INDEX
  <2> QED
    BY <1>1, <2>1, Zenon
<1>2. CASE l = 3
  <2> DEFINE h == NFrames \div 2
             a == v \div h
             b == w \div h
  <2>1. h \in Nat \ {0} /\ h * 2 = NFrames
    BY Eighths
  <2>2. a \div 2 = v \div NFrames /\ b \div 2 = w \div NFrames
    <3> HIDE DEF h
    <3>1. (v \div h) \div 2 = v \div (h * 2) /\ (w \div h) \div 2 = w \div (h * 2)
      <4>1. 2 \in Nat \ {0} /\ v \in Nat /\ w \in Nat
        BY <1>0
      <4> QED
        BY <2>1, <4>1, Nested, Zenon
    <3> QED
      BY <2>1, <3>1, Zenon
  <2>3. a \in Nat /\ b \in Nat
    <3> HIDE DEF h
    <3> QED
      BY <1>0, <2>1, DivMod, Zenon
  <2>4. Key(3, v) = a \div 2 /\ Key(3, w) = b \div 2 /\ Key(2, v) = a /\ Key(2, w) = b
        /\ Idx(3, v) = a % 2 /\ Idx(3, w) = b % 2
    BY <2>2 DEF Key, Idx, PDPT_INDEX
  <2> HIDE DEF a, b
  <2>5. a = b <=> a \div 2 = b \div 2 /\ a % 2 = b % 2
    BY <2>3
  <2> QED
    BY <1>2, <2>4, <2>5
<1>3. CASE l = 2
  <2> DEFINE h == NFrames \div 8
             a == v \div 4
             b == w \div 4
  <2>1. h \in Nat \ {0} /\ 4 * h = NFrames \div 2
    BY Eighths, Zenon
  <2>2. a \in Nat /\ b \in Nat
    BY <1>0
  <2>3. a \div h = v \div (NFrames \div 2) /\ b \div h = w \div (NFrames \div 2)
    <3> HIDE DEF h
    <3>1. (v \div 4) \div h = v \div (4 * h) /\ (w \div 4) \div h = w \div (4 * h)
      <4>1. 4 \in Nat \ {0} /\ v \in Nat /\ w \in Nat
        BY <1>0
      <4> QED
        BY <2>1, <4>1, Nested, Zenon
    <3> QED
      BY <2>1, <3>1, Zenon
  <2>4. Key(2, v) = a \div h /\ Key(2, w) = b \div h /\ Key(1, v) = a /\ Key(1, w) = b
        /\ Idx(2, v) = a % h /\ Idx(2, w) = b % h
    BY <2>3 DEF Key, Idx, PD_INDEX
  <2> HIDE DEF a, b, h
  <2>5. a = h * (a \div h) + (a % h) /\ b = h * (b \div h) + (b % h)
    BY <2>1, <2>2, DivMod, Zenon
  <2>6. a = b <=> a \div h = b \div h /\ a % h = b % h
    BY <2>5, Zenon
  <2> QED
    BY <1>3, <2>4, <2>6
<1>4. CASE l = 1
  <2>1. v = w <=> v \div 4 = w \div 4 /\ v % 4 = w % 4
    BY <1>0
  <2>2. Key(0, v) = v /\ Key(0, w) = w /\ Key(1, v) = v \div 4 /\ Key(1, w) = w \div 4
        /\ Idx(1, v) = v % 4 /\ Idx(1, w) = w % 4 /\ 1 - 1 = 0
    BY DEF Key, Idx, PT_INDEX
  <2> QED
    BY <1>4, <2>1, <2>2, Zenon
<1> QED
  BY <1>1, <1>2, <1>3, <1>4

(* A page's place in a huge page, by the indices of the levels below.      *)
LEMMA Offsets ==
  ASSUME NEW v \in Pages
  PROVE  v % (NFrames \div 2) = Idx(2, v) * 4 + (v % 4) /\ Idx(1, v) = v % 4 /\ v % 4 \in Nat
<1>0. v \in Nat
  BY Eighths DEF Pages
<1> DEFINE h == NFrames \div 8
<1>1. h \in Nat \ {0} /\ 4 * h = NFrames \div 2 /\ 4 \in Nat \ {0}
  BY Eighths
<1>2. v % (4 * h) = 4 * ((v \div 4) % h) + (v % 4)
  <2> HIDE DEF h
  <2> QED
    BY <1>0, <1>1, Nested, Zenon
<1>3. Idx(2, v) = (v \div 4) % h /\ Idx(1, v) = v % 4
  BY DEF Idx, PD_INDEX, PT_INDEX
<1>4. Idx(2, v) \in Nat /\ v % 4 \in Nat
  BY <1>0, <1>1, IndexInTable
<1> QED
  BY <1>1, <1>2, <1>3, <1>4
-----------------------------------------------------------------------------
(* The tables: own gives each its level and its pages.                     *)
Entries == [present : BOOLEAN, f : Nat, ps : BOOLEAN, write : BOOLEAN, user : BOOLEAN]

EntryOK(own, m, l, v, e) ==
    /\ l = 4 => e.present /\ ~e.ps
    /\ l > 1 /\ e.present /\ ~e.ps => e.f \in DOMAIN m /\ own[e.f] = Label(l - 1, v)

Tables(own, m, c) ==
    /\ c \in DOMAIN m /\ own[c] = <<4, 0>>
    /\ DOMAIN m \subseteq Nat /\ NULL_TABLE \notin DOMAIN m
    /\ \A f \in DOMAIN m : m[f] \in [Slots -> Entries]
    /\ \A f \in DOMAIN m, l \in 1 .. 4, v \in Pages :
          own[f] = Label(l, v) => EntryOK(own, m, l, v, m[f][Idx(l, v)])

(* The entries a walk reads.                                               *)
E4(m, c, v) == m[c][Idx(4, v)]
E3(m, c, v) == m[E4(m, c, v).f][Idx(3, v)]
E2(m, c, v) == m[E3(m, c, v).f][Idx(2, v)]
E1(m, c, v) == m[E2(m, c, v).f][Idx(1, v)]

(* The walk gets to level 2, and to level 1.                               *)
Mid(m, c, v) == E3(m, c, v).present /\ ~E3(m, c, v).ps
Low(m, c, v) == Mid(m, c, v) /\ E2(m, c, v).present /\ ~E2(m, c, v).ps

(* at is the table of level l on the walk of v.                            *)
OnWalk(m, c, l, v, at) ==
    /\ l = 3 => at = E4(m, c, v).f
    /\ l = 2 => Mid(m, c, v) /\ at = E3(m, c, v).f
    /\ l = 1 => Low(m, c, v) /\ at = E2(m, c, v).f

(* What the entries on a walk are.                                         *)
LEMMA WalkDown ==
  ASSUME NEW own, NEW m, NEW c, Tables(own, m, c), NEW v \in Pages
  PROVE  /\ E4(m, c, v) \in Entries /\ E4(m, c, v).present /\ ~E4(m, c, v).ps
         /\ E4(m, c, v).f \in DOMAIN m /\ own[E4(m, c, v).f] = Label(3, v)
         /\ E3(m, c, v) \in Entries
         /\ Mid(m, c, v) => /\ E3(m, c, v).f \in DOMAIN m /\ own[E3(m, c, v).f] = Label(2, v)
                            /\ E2(m, c, v) \in Entries
         /\ Low(m, c, v) => /\ E2(m, c, v).f \in DOMAIN m /\ own[E2(m, c, v).f] = Label(1, v)
                            /\ E1(m, c, v) \in Entries
<1>0. /\ c \in DOMAIN m /\ own[c] = <<4, 0>>
      /\ \A f \in DOMAIN m : m[f] \in [Slots -> Entries]
      /\ \A f \in DOMAIN m, l \in 1 .. 4, w \in Pages :
            own[f] = Label(l, w) => EntryOK(own, m, l, w, m[f][Idx(l, w)])
  BY Zenon DEF Tables
<1>1. Label(4, v) = <<4, 0>>
  BY DEF Label, Key
<1>2. Idx(4, v) \in Slots /\ Idx(3, v) \in Slots /\ Idx(2, v) \in Slots /\ Idx(1, v) \in Slots
  BY IndexInTable
<1>3. E4(m, c, v) \in Entries /\ EntryOK(own, m, 4, v, E4(m, c, v))
  BY <1>0, <1>1, <1>2 DEF E4
<1>4. /\ E4(m, c, v).present /\ ~E4(m, c, v).ps
      /\ E4(m, c, v).f \in DOMAIN m /\ own[E4(m, c, v).f] = Label(3, v)
  BY <1>3 DEF EntryOK
<1>5. E3(m, c, v) \in Entries /\ EntryOK(own, m, 3, v, E3(m, c, v))
  BY <1>0, <1>2, <1>4 DEF E3
<1>6. Mid(m, c, v) => E3(m, c, v).f \in DOMAIN m /\ own[E3(m, c, v).f] = Label(2, v)
  BY <1>5 DEF EntryOK, Mid
<1>7. Mid(m, c, v) => E2(m, c, v) \in Entries /\ EntryOK(own, m, 2, v, E2(m, c, v))
  BY <1>0, <1>2, <1>6 DEF E2
<1>8. Low(m, c, v) => E2(m, c, v).f \in DOMAIN m /\ own[E2(m, c, v).f] = Label(1, v)
  BY <1>7 DEF EntryOK, Low
<1>9. Low(m, c, v) => E1(m, c, v) \in Entries
  BY <1>0, <1>2, <1>8, Zenon DEF E1
<1> QED
  BY <1>3, <1>4, <1>5, <1>6, <1>7, <1>8, <1>9, Zenon

(* What the machine finds, in these terms.                                 *)
LEMMA TranslateIs ==
  ASSUME NEW m, NEW c, NEW v,
         E4(m, c, v).present
  PROVE  Translate(m, c, v) =
           IF ~E3(m, c, v).present THEN None
           ELSE IF E3(m, c, v).ps
                THEN Reached({E4(m, c, v), E3(m, c, v)}, E3(m, c, v).f + (v % (NFrames \div 2)))
           ELSE IF ~E2(m, c, v).present THEN None
           ELSE IF E2(m, c, v).ps
                THEN Reached({E4(m, c, v), E3(m, c, v), E2(m, c, v)}, E2(m, c, v).f + (v % 4))
           ELSE IF ~E1(m, c, v).present THEN None
           ELSE Reached({E4(m, c, v), E3(m, c, v), E2(m, c, v), E1(m, c, v)}, E1(m, c, v).f)
<1>1. PML4_INDEX(v) = Idx(4, v) /\ PDPT_INDEX(v) = Idx(3, v) /\ PD_INDEX(v) = Idx(2, v)
      /\ PT_INDEX(v) = Idx(1, v)
  BY DEF Idx
<1>2. Translate(m, c, v) =
        IF ~E4(m, c, v).present \/ ~E3(m, c, v).present THEN None
        ELSE IF E3(m, c, v).ps
             THEN Reached({E4(m, c, v), E3(m, c, v)}, E3(m, c, v).f + (v % (NFrames \div 2)))
        ELSE IF ~E2(m, c, v).present THEN None
        ELSE IF E2(m, c, v).ps
             THEN Reached({E4(m, c, v), E3(m, c, v), E2(m, c, v)}, E2(m, c, v).f + (v % 4))
        ELSE IF ~E1(m, c, v).present THEN None
        ELSE Reached({E4(m, c, v), E3(m, c, v), E2(m, c, v), E1(m, c, v)}, E1(m, c, v).f)
  BY <1>1, Zenon DEF Translate, E4, E3, E2, E1
<1> QED
  BY <1>2, Zenon

(* Walks that read the same entries find the same.                         *)
LEMMA SameWalk ==
  ASSUME NEW m, NEW n, NEW c, NEW v,
         E4(m, c, v).present, E4(n, c, v) = E4(m, c, v), E3(n, c, v) = E3(m, c, v),
         Mid(m, c, v) => E2(n, c, v) = E2(m, c, v),
         Low(m, c, v) => E1(n, c, v) = E1(m, c, v)
  PROVE  Translate(n, c, v) = Translate(m, c, v)
<1>1. E4(n, c, v).present
  BY Zenon
<1>2. CASE ~Mid(m, c, v)
  BY <1>1, <1>2, TranslateIs, Zenon DEF Mid
<1>3. CASE Mid(m, c, v) /\ ~Low(m, c, v)
  BY <1>1, <1>3, TranslateIs, Zenon DEF Mid, Low
<1>4. CASE Low(m, c, v)
  BY <1>1, <1>4, TranslateIs, Zenon DEF Mid, Low
<1> QED
  BY <1>2, <1>3, <1>4, Zenon DEF Low

(* Pages of one entry of level l share the walk to it.                     *)
LEMMA SharedWalk ==
  ASSUME NEW m, NEW c, NEW l \in 1 .. 3, NEW v \in Pages, NEW w \in Pages,
         Key(l - 1, w) = Key(l - 1, v)
  PROVE  /\ Key(l, w) = Key(l, v) /\ Idx(l, w) = Idx(l, v)
         /\ E4(m, c, w) = E4(m, c, v) /\ E3(m, c, w) = E3(m, c, v)
         /\ l <= 2 => E2(m, c, w) = E2(m, c, v)
         /\ l = 1 => E1(m, c, w) = E1(m, c, v)
<1>1. Key(l, w) = Key(l, v) /\ Idx(l, w) = Idx(l, v)
  BY Levels
<1>2. l = 1 => Key(2, w) = Key(2, v) /\ Idx(2, w) = Idx(2, v)
  <2> SUFFICES ASSUME l = 1 PROVE Key(2, w) = Key(2, v) /\ Idx(2, w) = Idx(2, v)
    BY Zenon
  <2>1. Key(2 - 1, w) = Key(2 - 1, v)
    BY <1>1
  <2> QED
    BY <2>1, Levels
<1>3. l <= 2 => Key(3, w) = Key(3, v) /\ Idx(3, w) = Idx(3, v)
  <2> SUFFICES ASSUME l <= 2 PROVE Key(3, w) = Key(3, v) /\ Idx(3, w) = Idx(3, v)
    BY Zenon
  <2>1. Key(3 - 1, w) = Key(3 - 1, v)
    BY <1>1, <1>2
  <2> QED
    BY <2>1, Levels
<1>4. Key(3, w) = Key(3, v) /\ Idx(3, w) = Idx(3, v)
  BY <1>1, <1>3
<1>5. Key(4 - 1, w) = Key(4 - 1, v)
  BY <1>4
<1>6. Idx(4, w) = Idx(4, v)
  BY <1>5, Levels
<1>7. l <= 2 => Idx(2, w) = Idx(2, v)
  BY <1>1, <1>2
<1>8. E4(m, c, w) = E4(m, c, v)
  BY <1>6, Zenon DEF E4
<1>9. E3(m, c, w) = E3(m, c, v)
  BY <1>4, <1>8, Zenon DEF E3
<1>10. l <= 2 => E2(m, c, w) = E2(m, c, v)
  BY <1>7, <1>9, Zenon DEF E2
<1>11. l = 1 => E1(m, c, w) = E1(m, c, v)
  BY <1>1, <1>10 DEF E1
<1> QED
  BY <1>1, <1>8, <1>9, <1>10, <1>11, Zenon

(* The tables n are the tables m but for entry i of the table at.          *)
Changed(m, n, at, i, e) ==
    \A f \in DOMAIN m, j \in Slots : n[f][j] = IF f = at /\ j = i THEN e ELSE m[f][j]

(* What the walk of w reads in n when entry e is new, on the walk of v.    *)
ReadAfter(m, n, c, l, v, e, w) ==
    /\ E4(n, c, w) = E4(m, c, w)
    /\ Key(l - 1, w) # Key(l - 1, v) =>
         /\ E3(n, c, w) = E3(m, c, w)
         /\ Mid(m, c, w) => E2(n, c, w) = E2(m, c, w)
         /\ Low(m, c, w) => E1(n, c, w) = E1(m, c, w)
    /\ Key(l - 1, w) = Key(l - 1, v) =>
         /\ l = 3 => E3(n, c, w) = e
         /\ l <= 2 => E3(n, c, w) = E3(m, c, w) /\ Mid(m, c, w)
         /\ l = 2 => E2(n, c, w) = e
         /\ l = 1 => E2(n, c, w) = E2(m, c, w) /\ Low(m, c, w) /\ E1(n, c, w) = e

(* Changing one entry of the table on the walk of v changes what the pages *)
(* of that entry read, there, and nothing else that a walk reads.          *)
LEMMA Replace ==
  ASSUME NEW own, NEW m, NEW n, NEW c, Tables(own, m, c),
         NEW l \in 1 .. 3, NEW v \in Pages, NEW at, OnWalk(m, c, l, v, at), NEW e,
         Changed(m, n, at, Idx(l, v), e), NEW w \in Pages
  PROVE  ReadAfter(m, n, c, l, v, e, w)
<1>1. at \in DOMAIN m /\ own[at] = Label(l, v)
  <2>1. l = 1 \/ l = 2 \/ l = 3
    OBVIOUS
  <2> QED
    BY <2>1, WalkDown DEF OnWalk
<1>2. ASSUME NEW k \in 1 .. 4, NEW g \in DOMAIN m, own[g] = Label(k, w),
             k # l \/ Key(l - 1, w) # Key(l - 1, v)
      PROVE  n[g][Idx(k, w)] = m[g][Idx(k, w)]
  <2>1. Idx(k, w) \in Slots
    BY IndexInTable, Zenon
  <2>2. ~(g = at /\ Idx(k, w) = Idx(l, v))
    <3> SUFFICES ASSUME g = at, Idx(k, w) = Idx(l, v) PROVE FALSE
      BY Zenon
    <3>1. k = l /\ Key(l, w) = Key(l, v)
      BY <1>1, <1>2 DEF Label
    <3> QED
      BY <1>2, <3>1, Levels, Zenon
  <2> QED
    BY <2>1, <2>2, Zenon DEF Changed
<1>3. Label(4, w) = <<4, 0>> /\ own[c] = <<4, 0>> /\ c \in DOMAIN m
  BY DEF Label, Key, Tables
<1>4. E4(n, c, w) = E4(m, c, w)
  BY <1>2, <1>3 DEF E4
<1>5. /\ E4(m, c, w).f \in DOMAIN m /\ own[E4(m, c, w).f] = Label(3, w)
      /\ Mid(m, c, w) => E3(m, c, w).f \in DOMAIN m /\ own[E3(m, c, w).f] = Label(2, w)
      /\ Low(m, c, w) => E2(m, c, w).f \in DOMAIN m /\ own[E2(m, c, w).f] = Label(1, w)
  BY WalkDown
<1>6. 3 # l \/ Key(l - 1, w) # Key(l - 1, v) => E3(n, c, w) = E3(m, c, w)
  BY <1>2, <1>4, <1>5 DEF E3
<1>7. (2 # l \/ Key(l - 1, w) # Key(l - 1, v)) /\ Mid(m, c, w) /\ E3(n, c, w) = E3(m, c, w)
        => E2(n, c, w) = E2(m, c, w)
  BY <1>2, <1>5 DEF E2
<1>8. Key(l - 1, w) # Key(l - 1, v) =>
        /\ E3(n, c, w) = E3(m, c, w)
        /\ Mid(m, c, w) => E2(n, c, w) = E2(m, c, w)
        /\ Low(m, c, w) => E1(n, c, w) = E1(m, c, w)
  <2> SUFFICES ASSUME Key(l - 1, w) # Key(l - 1, v)
               PROVE  /\ E3(n, c, w) = E3(m, c, w)
                      /\ Mid(m, c, w) => E2(n, c, w) = E2(m, c, w)
                      /\ Low(m, c, w) => E1(n, c, w) = E1(m, c, w)
    BY Zenon
  <2>1. Mid(m, c, w) => E2(n, c, w) = E2(m, c, w)
    BY <1>6, <1>7, Zenon
  <2>2. Low(m, c, w) => E1(n, c, w) = E1(m, c, w)
    <3> SUFFICES ASSUME Low(m, c, w) PROVE E1(n, c, w) = E1(m, c, w)
      BY Zenon
    <3>1. E2(n, c, w) = E2(m, c, w)
      BY <2>1, Zenon DEF Low
    <3> QED
      BY <1>2, <1>5, <3>1 DEF E1
  <2> QED
    BY <1>6, <2>1, <2>2, Zenon
<1>9. ASSUME Key(l - 1, w) = Key(l - 1, v)
      PROVE  /\ l = 3 => E3(n, c, w) = e
             /\ l <= 2 => E3(n, c, w) = E3(m, c, w) /\ Mid(m, c, w)
             /\ l = 2 => E2(n, c, w) = e
             /\ l = 1 => E2(n, c, w) = E2(m, c, w) /\ Low(m, c, w) /\ E1(n, c, w) = e
  <2>1. /\ Idx(l, w) = Idx(l, v)
        /\ E4(m, c, w) = E4(m, c, v) /\ E3(m, c, w) = E3(m, c, v)
        /\ l <= 2 => E2(m, c, w) = E2(m, c, v)
    BY <1>9, SharedWalk
  <2>2. n[at][Idx(l, w)] = e
    BY <1>1, <2>1, IndexInTable DEF Changed
  <2>3. CASE l = 3
    <3>1. at = E4(m, c, v).f
      BY <2>3, Zenon DEF OnWalk
    <3> QED
      BY <1>4, <2>1, <2>2, <2>3, <3>1 DEF E3
  <2>4. CASE l = 2
    <3>1. at = E3(m, c, v).f /\ Mid(m, c, v)
      BY <2>4, Zenon DEF OnWalk
    <3>2. E3(n, c, w) = E3(m, c, w) /\ Mid(m, c, w)
      BY <1>6, <2>1, <2>4, <3>1 DEF Mid
    <3> QED
      BY <2>1, <2>2, <2>4, <3>1, <3>2 DEF E2
  <2>5. CASE l = 1
    <3>1. at = E2(m, c, v).f /\ Low(m, c, v)
      BY <2>5, Zenon DEF OnWalk
    <3>2. Mid(m, c, w) /\ Low(m, c, w)
      BY <2>1, <2>5, <3>1 DEF Mid, Low
    <3>3. E3(n, c, w) = E3(m, c, w)
      BY <1>6, <2>5
    <3>4. E2(n, c, w) = E2(m, c, w)
      BY <1>7, <2>5, <3>2, <3>3
    <3> QED
      BY <2>1, <2>2, <2>5, <3>1, <3>2, <3>3, <3>4 DEF E1
  <2> QED
    BY <2>3, <2>4, <2>5
<1> QED
  BY <1>4, <1>8, <1>9, Zenon DEF ReadAfter
-----------------------------------------------------------------------------
(* A new table f, and its link under entry i of the table at.              *)
Bigger(m, f, ents) == [g \in DOMAIN m \cup {f} |-> IF g = f THEN ents ELSE m[g]]

Link(m, at, i, f, ents, e) ==
    [Bigger(m, f, ents) EXCEPT ![at][i] = e]

(* The fields of a present entry, and of an empty one.                     *)
LEMMA EntryTyped ==
  ASSUME NEW f \in Nat, NEW ps \in BOOLEAN, NEW w \in BOOLEAN, NEW u \in BOOLEAN
  PROVE  /\ Entry(f, ps, w, u) \in Entries /\ NoEntry \in Entries
         /\ Entry(f, ps, w, u).present /\ Entry(f, ps, w, u).f = f /\ Entry(f, ps, w, u).ps = ps
         /\ Entry(f, ps, w, u).write = w /\ Entry(f, ps, w, u).user = u
         /\ ~NoEntry.present
BY Zenon DEF Entry, NoEntry, Entries

(* What the tables k are when f has been linked into m.                    *)
Grown(m, k, at, i, f, ents, e) ==
    /\ DOMAIN k = DOMAIN m \cup {f} /\ k[f] = ents
    /\ \A g \in DOMAIN m : k[g] \in [Slots -> Entries]
    /\ Changed(m, k, at, i, e)

Linkable(m, at, i, f, ents, e) ==
    /\ \A g \in DOMAIN m : m[g] \in [Slots -> Entries]
    /\ at \in DOMAIN m /\ i \in Slots /\ f \notin DOMAIN m
    /\ ents \in [Slots -> Entries] /\ e \in Entries

(* Adding a table and writing the entry that points to it change that      *)
(* table and that entry and nothing else.                                  *)
LEMMA LinkIs ==
  ASSUME NEW m, NEW at, NEW i, NEW f, NEW ents, NEW e, Linkable(m, at, i, f, ents, e)
  PROVE  Grown(m, Link(m, at, i, f, ents, e), at, i, f, ents, e)
<1> DEFINE n == Bigger(m, f, ents)
           row == [m[at] EXCEPT ![i] = e]
           k == Link(m, at, i, f, ents, e)
<1>0. /\ \A g \in DOMAIN m : m[g] \in [Slots -> Entries]
      /\ at \in DOMAIN m /\ i \in Slots /\ f \notin DOMAIN m
      /\ ents \in [Slots -> Entries] /\ e \in Entries
  BY Zenon DEF Linkable
<1>1. /\ DOMAIN n = DOMAIN m \cup {f} /\ n[f] = ents /\ at # f
      /\ \A g \in DOMAIN m : n[g] = m[g]
  BY <1>0, Zenon DEF Bigger
<1>2. /\ row \in [Slots -> Entries]
      /\ \A j \in Slots : row[j] = IF j = i THEN e ELSE m[at][j]
  BY <1>0, Zenon
<1> HIDE DEF n
<1>3. k = [n EXCEPT ![at] = row]
  BY <1>1, Zenon DEF Link, n
<1> HIDE DEF row, k
<1>4. \A g \in DOMAIN m \cup {f} : [n EXCEPT ![at] = row][g] = IF g = at THEN row ELSE n[g]
  BY <1>1, Zenon
<1>5. DOMAIN [n EXCEPT ![at] = row] = DOMAIN m \cup {f}
  BY <1>1, Zenon
<1> QED
  BY <1>0, <1>1, <1>2, <1>3, <1>4, <1>5, Zenon DEF Changed, Grown, k

(* An entry for a table f, and a table of huge pages or of the last level. *)
Points(e, f) == e \in Entries /\ e.present /\ ~e.ps /\ e.f = f

Leaves(l, ents) ==
    /\ ents \in [Slots -> Entries]
    /\ l = 3 => \A j \in Slots : ents[j].present => ents[j].ps

(* The new table belongs to the pages of the entry.                        *)
LEMMA Linked ==
  ASSUME NEW own, NEW m, NEW n, NEW c, Tables(own, m, c),
         NEW l \in 2 .. 3, NEW v \in Pages, NEW at, OnWalk(m, c, l, v, at),
         NEW f \in Nat, f \notin DOMAIN m, f # NULL_TABLE,
         NEW ents, Leaves(l, ents), NEW e, Points(e, f),
         n = Link(m, at, Idx(l, v), f, ents, e)
  PROVE  /\ \E o : Tables(o, n, c)
         /\ OnWalk(n, c, l - 1, v, f)
<1> DEFINE o == [g \in DOMAIN m \cup {f} |-> IF g = f THEN Label(l - 1, v) ELSE own[g]]
<1>0. /\ c \in DOMAIN m /\ own[c] = <<4, 0>>
      /\ DOMAIN m \subseteq Nat /\ NULL_TABLE \notin DOMAIN m
      /\ \A g \in DOMAIN m, k \in 1 .. 4, w \in Pages :
            own[g] = Label(k, w) => EntryOK(own, m, k, w, m[g][Idx(k, w)])
  BY Zenon DEF Tables
<1>1. at \in DOMAIN m /\ own[at] = Label(l, v)
  <2>1. l = 2 \/ l = 3
    OBVIOUS
  <2> QED
    BY <2>1, WalkDown DEF OnWalk
<1>2. e \in Entries /\ e.present /\ e.f = f /\ ~e.ps
  BY Zenon DEF Points
<1>3. Idx(l, v) \in Slots
  BY IndexInTable
<1>4. /\ DOMAIN n = DOMAIN m \cup {f} /\ n[f] = ents
      /\ \A g \in DOMAIN m : n[g] \in [Slots -> Entries]
      /\ Changed(m, n, at, Idx(l, v), e)
  <2>1. e \in Entries /\ ents \in [Slots -> Entries]
    BY Zenon DEF Points, Leaves
  <2>2. Linkable(m, at, Idx(l, v), f, ents, e)
    BY <1>1, <1>3, <2>1, Zenon DEF Linkable, Tables
  <2>3. Grown(m, n, at, Idx(l, v), f, ents, e)
    BY <2>2, LinkIs, Zenon
  <2> QED
    BY <2>3, Zenon DEF Grown
<1>5. o[f] = Label(l - 1, v) /\ \A g \in DOMAIN m : o[g] = own[g]
  BY Zenon
<1> HIDE DEF o
<1>6. ASSUME NEW g \in DOMAIN n, NEW k \in 1 .. 4, NEW w \in Pages, o[g] = Label(k, w)
      PROVE  EntryOK(o, n, k, w, n[g][Idx(k, w)])
  <2>0. Idx(k, w) \in Slots
    BY IndexInTable, Zenon
  <2>1. CASE g = f
    <3>1. k = l - 1
      BY <1>5, <1>6, <2>1 DEF Label
    <3>2. n[g][Idx(k, w)] = ents[Idx(k, w)]
      BY <1>4, <2>1, Zenon
    <3>3. k # 4 /\ (k > 1 => l = 3)
      BY <3>1
    <3> QED
      BY <2>0, <3>2, <3>3, Zenon DEF EntryOK, Leaves
  <2>2. CASE g = at /\ Idx(k, w) = Idx(l, v)
    <3>1. k = l /\ Key(l, w) = Key(l, v)
      BY <1>1, <1>5, <1>6, <2>2 DEF Label
    <3>2. Key(l - 1, w) = Key(l - 1, v)
      BY <2>2, <3>1, Levels, Zenon
    <3>3. Label(k - 1, w) = Label(l - 1, v)
      BY <3>1, <3>2, Zenon DEF Label
    <3>4. n[g][Idx(k, w)] = e
      BY <1>1, <1>4, <2>0, <2>2, Zenon DEF Changed
    <3> QED
      BY <1>2, <1>4, <1>5, <3>1, <3>3, <3>4, Zenon DEF EntryOK
  <2>3. CASE g # f /\ ~(g = at /\ Idx(k, w) = Idx(l, v))
    <3>1. g \in DOMAIN m
      BY <1>4, <2>3, Zenon
    <3>2. n[g][Idx(k, w)] = m[g][Idx(k, w)]
      BY <1>4, <2>0, <2>3, <3>1, Zenon DEF Changed
    <3>3. EntryOK(own, m, k, w, m[g][Idx(k, w)])
      BY <1>0, <1>5, <1>6, <3>1, Zenon
    <3> DEFINE x == m[g][Idx(k, w)]
    <3> HIDE DEF x
    <3>4. EntryOK(own, m, k, w, x) => EntryOK(o, n, k, w, x)
      BY <1>4, <1>5, Zenon DEF EntryOK
    <3> QED
      BY <3>2, <3>3, <3>4, Zenon DEF x
  <2> QED
    BY <2>1, <2>2, <2>3, Zenon
<1>7. Tables(o, n, c)
  <2>1. ents \in [Slots -> Entries]
    BY Zenon DEF Leaves
  <2> QED
    BY <1>0, <1>4, <1>5, <1>6, <2>1, Zenon DEF Tables
<1>8. /\ l = 3 => E3(n, c, v) = e
      /\ l = 2 => E3(n, c, v) = E3(m, c, v) /\ Mid(m, c, v) /\ E2(n, c, v) = e
  <2>1. l \in 1 .. 3
    OBVIOUS
  <2>2. ReadAfter(m, n, c, l, v, e, v)
    BY <1>4, <2>1, Replace, Zenon
  <2> QED
    BY <2>2 DEF ReadAfter
<1>9. OnWalk(n, c, l - 1, v, f)
  <2>1. CASE l = 3
    <3>1. OnWalk(n, c, 2, v, f)
      BY <1>2, <1>8, <2>1 DEF OnWalk, Mid
    <3> QED
      BY <2>1, <3>1
  <2>2. CASE l = 2
    <3>1. OnWalk(n, c, 1, v, f)
      BY <1>2, <1>8, <2>2 DEF OnWalk, Mid, Low
    <3> QED
      BY <2>2, <3>1
  <2> QED
    BY <2>1, <2>2
<1> QED
  BY <1>7, <1>9, Zenon

(* The walks through the new entry.                                        *)
Through(m, n, c, l, v, at, ents, e, w) ==
    /\ E4(n, c, w) = E4(m, c, w) /\ E4(m, c, w).present
    /\ Key(l - 1, w) # Key(l - 1, v) => Translate(n, c, w) = Translate(m, c, w)
    /\ Key(l - 1, w) = Key(l - 1, v) =>
         /\ l = 3 => /\ E3(n, c, w) = e /\ E3(m, c, w) = m[at][Idx(l, v)]
                     /\ E2(n, c, w) = ents[Idx(2, w)]
         /\ l = 2 => /\ E3(n, c, w) = E3(m, c, w) /\ Mid(m, c, w)
                     /\ E2(n, c, w) = e /\ E2(m, c, w) = m[at][Idx(l, v)]
                     /\ E1(n, c, w) = ents[Idx(1, w)]

(* A walk that goes through the new entry reads the new table; every other *)
(* walk reads what it read.                                                *)
LEMMA BelowLink ==
  ASSUME NEW own, NEW m, NEW n, NEW c, Tables(own, m, c),
         NEW l \in 2 .. 3, NEW v \in Pages, NEW at, OnWalk(m, c, l, v, at),
         NEW f, NEW ents, NEW e, Points(e, f), Grown(m, n, at, Idx(l, v), f, ents, e),
         NEW w \in Pages
  PROVE  Through(m, n, c, l, v, at, ents, e, w)
<1>1. Changed(m, n, at, Idx(l, v), e) /\ n[f] = ents
  BY Zenon DEF Grown
<1>2. e.f = f
  BY Zenon DEF Points
<1>3. l \in 1 .. 3
  OBVIOUS
<1>4. /\ E4(n, c, w) = E4(m, c, w)
      /\ Key(l - 1, w) # Key(l - 1, v) =>
           /\ E3(n, c, w) = E3(m, c, w)
           /\ Mid(m, c, w) => E2(n, c, w) = E2(m, c, w)
           /\ Low(m, c, w) => E1(n, c, w) = E1(m, c, w)
      /\ Key(l - 1, w) = Key(l - 1, v) =>
           /\ l = 3 => E3(n, c, w) = e
           /\ l <= 2 => E3(n, c, w) = E3(m, c, w) /\ Mid(m, c, w)
           /\ l = 2 => E2(n, c, w) = e
  <2>1. ReadAfter(m, n, c, l, v, e, w)
    BY <1>1, <1>3, Replace, Zenon
  <2> QED
    BY <2>1, Zenon DEF ReadAfter
<1>5. E4(m, c, w).present
  BY WalkDown, Zenon
<1>6. Key(l - 1, w) # Key(l - 1, v) => Translate(n, c, w) = Translate(m, c, w)
  BY <1>4, <1>5, SameWalk
<1>7. ASSUME Key(l - 1, w) = Key(l - 1, v)
      PROVE  /\ l = 3 => /\ E3(n, c, w) = e /\ E3(m, c, w) = m[at][Idx(l, v)]
                         /\ E2(n, c, w) = ents[Idx(2, w)]
             /\ l = 2 => /\ E3(n, c, w) = E3(m, c, w) /\ Mid(m, c, w)
                         /\ E2(n, c, w) = e /\ E2(m, c, w) = m[at][Idx(l, v)]
                         /\ E1(n, c, w) = ents[Idx(1, w)]
  <2>1. E3(m, c, w) = E3(m, c, v) /\ (l <= 2 => E2(m, c, w) = E2(m, c, v))
    BY <1>3, <1>7, SharedWalk, ZenonT(40)
  <2>2. CASE l = 3
    <3>1. E3(m, c, v) = m[at][Idx(l, v)]
      BY <2>2, Zenon DEF OnWalk, E3
    <3>2. E2(n, c, w) = ents[Idx(2, w)]
      BY <1>1, <1>2, <1>4, <1>7, <2>2, Zenon DEF E2
    <3>3. l # 2
      BY <2>2
    <3> QED
      BY <1>4, <1>7, <2>1, <2>2, <3>1, <3>2, <3>3, Zenon
  <2>3. CASE l = 2
    <3>1. E2(m, c, v) = m[at][Idx(l, v)]
      BY <2>3, Zenon DEF OnWalk, E2
    <3>2. E1(n, c, w) = ents[Idx(1, w)]
      BY <1>1, <1>2, <1>4, <1>7, <2>3, Zenon DEF E1
    <3>3. l # 3 /\ l <= 2
      BY <2>3
    <3> QED
      BY <1>4, <1>7, <2>1, <2>3, <3>1, <3>2, <3>3, Zenon
  <2> QED
    BY <2>2, <2>3, Zenon
<1> QED
  BY <1>4, <1>5, <1>6, <1>7, Zenon DEF Through

(* An empty table under an entry that was not present (paging.c:83-90).    *)
LEMMA EmptyBelow ==
  ASSUME NEW own, NEW m, NEW n, NEW c, Tables(own, m, c),
         NEW l \in 2 .. 3, NEW v \in Pages, NEW at, OnWalk(m, c, l, v, at),
         NEW f, NEW e, Points(e, f), Grown(m, n, at, Idx(l, v), f, EmptyTable, e),
         ~m[at][Idx(l, v)].present, NEW w \in Pages
  PROVE  Translate(n, c, w) = Translate(m, c, w)
<1>1. EmptyTable[Idx(2, w)] = NoEntry /\ EmptyTable[Idx(1, w)] = NoEntry /\ ~NoEntry.present
  BY IndexInTable DEF EmptyTable, NoEntry
<1>2. e.present /\ ~e.ps
  BY Zenon DEF Points
<1>3. /\ E4(n, c, w) = E4(m, c, w) /\ E4(m, c, w).present
      /\ Key(l - 1, w) # Key(l - 1, v) => Translate(n, c, w) = Translate(m, c, w)
      /\ Key(l - 1, w) = Key(l - 1, v) =>
           /\ l = 3 => /\ E3(n, c, w) = e /\ E3(m, c, w) = m[at][Idx(l, v)]
                       /\ E2(n, c, w) = NoEntry
           /\ l = 2 => /\ E3(n, c, w) = E3(m, c, w) /\ Mid(m, c, w)
                       /\ E2(n, c, w) = e /\ E2(m, c, w) = m[at][Idx(l, v)]
                       /\ E1(n, c, w) = NoEntry
  <2>1. Through(m, n, c, l, v, at, EmptyTable, e, w)
    BY BelowLink, Zenon
  <2> QED
    BY <1>1, <2>1, Zenon DEF Through
<1>4. CASE Key(l - 1, w) = Key(l - 1, v) /\ l = 3
  <2>1. Translate(m, c, w) = None
    BY <1>3, <1>4, TranslateIs, Zenon
  <2>2. Translate(n, c, w) = None
    BY <1>1, <1>2, <1>3, <1>4, TranslateIs, Zenon
  <2> QED
    BY <2>1, <2>2, Zenon
<1>5. CASE Key(l - 1, w) = Key(l - 1, v) /\ l = 2
  <2>1. Translate(m, c, w) = None
    BY <1>3, <1>5, TranslateIs, Zenon DEF Mid
  <2>2. Translate(n, c, w) = None
    BY <1>1, <1>2, <1>3, <1>5, TranslateIs, Zenon DEF Mid
  <2> QED
    BY <2>1, <2>2, Zenon
<1> QED
  BY <1>3, <1>4, <1>5

(* The table split_huge_entry() fills (paging.c:25-42).                    *)
Pieces(h, l) ==
    [i \in Slots |-> IF i < (IF l = 2 THEN 4 ELSE NFrames \div 8)
                     THEN [h EXCEPT !.f = @ + i * (IF l = 2 THEN 1 ELSE 4), !.ps = l # 2] ELSE NoEntry]

(* The piece that holds page w, huge itself or of the last level.          *)
Huge(h, w) == [h EXCEPT !.f = h.f + Idx(2, w) * 4, !.ps = TRUE]
Small(h, w) == [h EXCEPT !.f = h.f + Idx(1, w), !.ps = FALSE]

(* split_huge_entry() fills the table with one leaf for each part of the   *)
(* huge page.                                                              *)
LEMMA PiecesAre ==
  ASSUME NEW h \in Entries, NEW l \in 2 .. 3, NEW w \in Pages
  PROVE  /\ Leaves(l, Pieces(h, l))
         /\ l = 3 => Pieces(h, l)[Idx(2, w)] = Huge(h, w)
         /\ l = 2 => Pieces(h, l)[Idx(1, w)] = Small(h, w)
<1>1. Slots \subseteq Nat
  BY Eighths DEF Slots
<1>2. ASSUME NEW f \in Nat, NEW ps \in BOOLEAN
      PROVE  [h EXCEPT !.f = f, !.ps = ps] \in Entries /\ [h EXCEPT !.f = f, !.ps = ps].ps = ps
  BY <1>2, Zenon DEF Entries
<1>3. NoEntry \in Entries /\ ~NoEntry.present
  BY Zenon DEF NoEntry, Entries
<1>4. h.f \in Nat
  BY Zenon DEF Entries
<1>5. CASE l = 3
  <2> DEFINE p(i) == [h EXCEPT !.f = h.f + i * 4, !.ps = TRUE]
  <2>1. Pieces(h, l) = [i \in Slots |-> IF i < NFrames \div 8 THEN p(i) ELSE NoEntry]
    <3>1. (IF l = 2 THEN 4 ELSE NFrames \div 8) = NFrames \div 8 /\ (IF l = 2 THEN 1 ELSE 4) = 4
          /\ (l # 2) = TRUE
      BY <1>5
    <3> QED
      BY <3>1, Zenon DEF Pieces
  <2>2. \A i \in Slots : p(i) \in Entries /\ p(i).ps = TRUE
    <3>1. \A i \in Slots : h.f + i * 4 \in Nat
      BY <1>1, <1>4
    <3> QED
      BY <1>2, <3>1, Zenon
  <2> HIDE DEF p
  <2>3. Leaves(l, Pieces(h, l))
    BY <1>3, <2>1, <2>2, Zenon DEF Leaves
  <2>4. Idx(2, w) \in Slots /\ Idx(2, w) < NFrames \div 8
    BY IndexInTable, Eighths
  <2>5. Pieces(h, l)[Idx(2, w)] = p(Idx(2, w))
    BY <2>1, <2>4, Zenon
  <2> QED
    BY <1>5, <2>3, <2>5 DEF p, Huge
<1>6. CASE l = 2
  <2> DEFINE p(i) == [h EXCEPT !.f = h.f + i, !.ps = FALSE]
  <2>0. \A i \in Slots : i * 1 = i
    BY <1>1
  <2>1. Pieces(h, l) = [i \in Slots |-> IF i < 4 THEN p(i) ELSE NoEntry]
    BY <1>6, <2>0, Zenon DEF Pieces
  <2>2. \A i \in Slots : p(i) \in Entries
    <3>1. \A i \in Slots : h.f + i \in Nat
      BY <1>1, <1>4
    <3> QED
      BY <1>2, <3>1, Zenon
  <2> HIDE DEF p
  <2>3. Leaves(l, Pieces(h, l))
    BY <1>3, <1>6, <2>1, <2>2 DEF Leaves
  <2>4. Idx(1, w) \in Slots /\ Idx(1, w) < 4
    BY IndexInTable
  <2>5. Pieces(h, l)[Idx(1, w)] = p(Idx(1, w))
    BY <2>1, <2>4, Zenon
  <2> QED
    BY <1>6, <2>3, <2>5 DEF p, Small
<1> QED
  BY <1>5, <1>6

(* The rights of a huge page and of its pieces.                            *)
Finer(h, e, p) ==
    /\ {h, e, p} \subseteq Entries
    /\ e.write /\ e.user = h.user /\ p.write = h.write /\ p.user = h.user

(* h is the huge entry i of a table, and the entry for its pieces.         *)
IsHuge(h, m, at, i) == h = m[at][i] /\ h.present /\ h.ps
ForPieces(h, f) == Entry(f, FALSE, TRUE, h.user)

(* A huge page split into the table below it (paging.c:25-42, 92-101).     *)
LEMMA SplitBelow ==
  ASSUME NEW own, NEW m, NEW n, NEW c, Tables(own, m, c),
         NEW l \in 2 .. 3, NEW v \in Pages, NEW at, OnWalk(m, c, l, v, at),
         NEW h \in Entries, IsHuge(h, m, at, Idx(l, v)),
         NEW f \in Nat, Grown(m, n, at, Idx(l, v), f, Pieces(h, l), ForPieces(h, f)), NEW w \in Pages
  PROVE  Translate(n, c, w) = Translate(m, c, w)
<1> DEFINE e == ForPieces(h, f)
<1>0. h = m[at][Idx(l, v)] /\ h.present /\ h.ps
  BY Zenon DEF IsHuge
<1>1. e \in Entries /\ e.present /\ ~e.ps /\ e.f = f /\ e.write /\ e.user = h.user
  BY Zenon DEF Entry, Entries, ForPieces
<1> HIDE DEF e
<1>2. /\ E4(n, c, w) = E4(m, c, w) /\ E4(m, c, w).present
      /\ Key(l - 1, w) # Key(l - 1, v) => Translate(n, c, w) = Translate(m, c, w)
      /\ Key(l - 1, w) = Key(l - 1, v) =>
           /\ l = 3 => /\ E3(n, c, w) = e /\ E3(m, c, w) = h
                       /\ E2(n, c, w) = Pieces(h, l)[Idx(2, w)]
           /\ l = 2 => /\ E3(n, c, w) = E3(m, c, w) /\ Mid(m, c, w)
                       /\ E2(n, c, w) = e /\ E2(m, c, w) = h
                       /\ E1(n, c, w) = Pieces(h, l)[Idx(1, w)]
  <2>1. Points(e, f)
    BY <1>1, Zenon DEF Points
  <2>2. Through(m, n, c, l, v, at, Pieces(h, l), e, w)
    BY <2>1, BelowLink, Zenon DEF e
  <2> QED
    BY <1>0, <2>2, Zenon DEF Through
<1> DEFINE x == E4(m, c, w)
           y == E3(m, c, w)
<1>3. x \in Entries /\ y \in Entries /\ h.f \in Nat
  BY WalkDown DEF Entries
<1>4. CASE Key(l - 1, w) = Key(l - 1, v) /\ l = 3
  <2> DEFINE p == Huge(h, w)
  <2>1. /\ p \in Entries /\ p.present /\ p.ps /\ p.f = h.f + Idx(2, w) * 4
        /\ p.write = h.write /\ p.user = h.user
    <3>1. h.f + Idx(2, w) * 4 \in Nat
      BY <1>3, IndexInTable, Eighths
    <3> QED
      BY <1>0, <3>1, Zenon DEF Entries, Huge
  <2>2. E2(n, c, w) = p
    BY <1>2, <1>4, PiecesAre, Zenon
  <2> HIDE DEF p, x, y
  <2>3. Translate(m, c, w) = Reached({x, h}, h.f + (w % (NFrames \div 2)))
    BY <1>0, <1>2, <1>4, TranslateIs, ZenonT(30) DEF x
  <2>4. Translate(n, c, w) = Reached({x, e, p}, p.f + (w % 4))
    BY <1>1, <1>2, <1>4, <2>1, <2>2, TranslateIs, Zenon DEF x
  <2>5. p.f + (w % 4) = h.f + (w % (NFrames \div 2))
    BY <1>3, <2>1, Offsets, IndexInTable, Eighths
  <2>6. Reached({x, e, p}, p.f + (w % 4)) = Reached({x, h}, p.f + (w % 4))
    <3>1. Finer(h, e, p)
      BY <1>1, <2>1, Zenon DEF Finer
    <3>2. (\A z \in {x, e, p} : z.write) <=> (\A z \in {x, h} : z.write)
      BY <3>1, Zenon DEF Finer
    <3>3. (\A z \in {x, e, p} : z.user) <=> (\A z \in {x, h} : z.user)
      BY <3>1, Zenon DEF Finer
    <3> QED
      BY <3>2, <3>3, Zenon DEF Reached
  <2> QED
    BY <2>3, <2>4, <2>5, <2>6, Zenon
<1>5. CASE Key(l - 1, w) = Key(l - 1, v) /\ l = 2
  <2> DEFINE p == Small(h, w)
  <2>1. /\ p \in Entries /\ p.present /\ p.f = h.f + Idx(1, w)
        /\ p.write = h.write /\ p.user = h.user
    <3>1. h.f + Idx(1, w) \in Nat
      BY <1>3, IndexInTable
    <3> QED
      BY <1>0, <3>1, Zenon DEF Entries, Small
  <2>2. E1(n, c, w) = p
    BY <1>2, <1>5, PiecesAre, Zenon
  <2>3. y.present /\ ~y.ps
    BY <1>2, <1>5, Zenon DEF Mid
  <2> HIDE DEF p, x, y
  <2>4. Translate(m, c, w) = Reached({x, y, h}, h.f + (w % 4))
    BY <1>0, <1>2, <1>5, <2>3, TranslateIs, Zenon DEF x, y
  <2>5. Translate(n, c, w) = Reached({x, y, e, p}, p.f)
    <3>1. E4(n, c, w) = x /\ E3(n, c, w) = y /\ E2(n, c, w) = e /\ E1(n, c, w) = p
      BY <1>2, <1>5, <2>2, Zenon DEF x, y
    <3>2. x.present
      BY <1>2, Zenon DEF x
    <3> QED
      BY <1>1, <2>1, <2>3, <3>1, <3>2, TranslateIs, Zenon
  <2>6. p.f = h.f + (w % 4)
    BY <2>1, Offsets, Zenon
  <2>7. Reached({x, y, e, p}, p.f) = Reached({x, y, h}, p.f)
    <3>1. Finer(h, e, p)
      BY <1>1, <2>1, Zenon DEF Finer
    <3>2. (\A z \in {x, y, e, p} : z.write) <=> (\A z \in {x, y, h} : z.write)
      BY <3>1, Zenon DEF Finer
    <3>3. (\A z \in {x, y, e, p} : z.user) <=> (\A z \in {x, y, h} : z.user)
      BY <3>1, Zenon DEF Finer
    <3> QED
      BY <3>2, <3>3, Zenon DEF Reached
  <2> QED
    BY <2>4, <2>5, <2>6, <2>7, Zenon
<1> QED
  BY <1>2, <1>4, <1>5
=============================================================================
