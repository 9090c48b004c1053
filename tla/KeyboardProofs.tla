--------------------------- MODULE KeyboardProofs ---------------------------
(***************************************************************************)
(* Proofs about the decoding of the keyboard's bytes, for any keyboard,    *)
(* any number of bytes on their way and all three handlers.  What is on    *)
(* the wire decides what the table of held keys and the shift state will   *)
(* be; the invariants say that of every byte not handled yet.              *)
(*                                                                         *)
(* The keyboard controller's answers are taken by their commands, for any  *)
(* bytes left in its output buffer at boot.  As long as no answer was      *)
(* wrong or missing and no wait has ended without one, the bytes owed and  *)
(* buffered are exactly the answer to the command being executed.          *)
(***************************************************************************)
EXTENDS Keyboard, Ps2kInit, SequenceTheorems, TLAPS

(* The prefix and the key the handler will see at position j of the wire w *)
(* when the driver's e0_prefix is p (ps2k.c:109-118, keyboard.c:401-412).  *)
PrefixAt(w, p, j) == IF j = 1 THEN p ELSE w[j - 1].code = "E0"

KeyAt(w, p, j) == <<PrefixAt(w, p, j), w[j].code>>

(* An E0 is always followed by the byte it belongs to.                     *)
WireEnds(w, p) == IF Len(w) = 0 THEN ~p ELSE w[Len(w)].code # "E0"

(* The last byte of each key on the wire says whether it is held; a key    *)
(* with no byte there is marked in the table if and only if it is held.    *)
SyncOn(w, p, table, down) ==
  /\ \A j \in 1 .. Len(w) : w[j].code = "E0" \/ KeyAt(w, p, j) \in KeyCodes \cup {Dec!FakeShift}
  /\ WireEnds(w, p)
  /\ \A k \in KeyCodes :
       /\ \A j \in 1 .. Len(w) :
            KeyAt(w, p, j) = k /\ (\A i \in j + 1 .. Len(w) : KeyAt(w, p, i) # k)
              => (w[j].up <=> k \notin down)
       /\ (\A j \in 1 .. Len(w) : KeyAt(w, p, j) # k) => (k \in table <=> k \in down)

(* What the handler takes for the byte of a shift key: the older i386      *)
(* handler (old) ignores prefixes.                                         *)
ShiftAt(w, p, old, j) ==
  IF old THEN w[j].code \in {LeftShift, RightShift} ELSE KeyAt(w, p, j) \in Dec!Shifts

(* The shift state is val when byte j is handled, if it is s now.          *)
ShiftBefore(w, p, old, s, j, val) ==
  /\ \A i \in 1 .. j - 1 :
       ShiftAt(w, p, old, i) /\ (\A l \in i + 1 .. j - 1 : ~ShiftAt(w, p, old, l))
         => (w[i].up <=> ~val)
  /\ (\A i \in 1 .. j - 1 : ~ShiftAt(w, p, old, i)) => (s <=> val)

(* Every make byte on the wire will find the shift state it was sent with, *)
(* and a byte sent next will too, unless the last byte taken for a shift's *)
(* says otherwise than the shifts held (b).                                *)
CaseOn(w, p, old, s, b, down) ==
  /\ \A j \in 1 .. Len(w) :
       w[j].code \in Printable /\ ~w[j].up /\ ~w[j].excused
         => ShiftBefore(w, p, old, s, j, w[j].shifted)
  /\ ~b => ShiftBefore(w, p, old, s, Len(w) + 1, down \cap Dec!Shifts # {})

Codes == {k[2] : k \in KeyCodes} \cup {LeftShift, "E0"}
WireBytes == [code : Codes, up : BOOLEAN, shifted : BOOLEAN, excused : BOOLEAN]

WireOK == wire \in Seq(WireBytes)

(* The inductive invariant of the decoder.                                 *)
DecoderInv ==
  /\ Dec!TypeOK
  /\ WireOK
  /\ driver # "i386" => SyncOn(wire, e0_prefix, key_pressed, held)
  /\ CaseOn(wire, e0_prefix, driver = "i386", shift_pressed, astray, held)
  /\ Dec!CaseIsShift

-----------------------------------------------------------------------------
(* Bytes put on the wire and taken from it                                 *)

(* w2 is w followed by the bytes of key k, the last of them x.             *)
UnitSent(w, w2, k, x) ==
  /\ x.code = k[2]
  /\ Len(w2) = Len(w) + (IF k[1] THEN 2 ELSE 1)
  /\ \A i \in 1 .. Len(w) : w2[i] = w[i]
  /\ k[1] => w2[Len(w) + 1] = Dec!E0
  /\ w2[Len(w2)] = x

(* What the keyboard may send is well formed: a key or the fake shift.     *)
LEMMA UnitKeys ==
  ASSUME NEW k \in KeyCodes \cup {Dec!FakeShift}
  PROVE  /\ k = <<k[1], k[2]>> /\ k[1] \in BOOLEAN /\ k[2] # "E0" /\ k[2] \in Codes
         /\ k[2] \in {LeftShift, RightShift} /\ k \in KeyCodes => ~k[1]
<1>1. <<FALSE, LeftShift>> \in KeyCodes
  BY KeyCodesAssumption, Zenon DEF Dec!KeysOK
<1>2. LeftShift # "E0"
  BY <1>1, KeyCodesAssumption, Zenon DEF Dec!KeysOK
<1>3. CASE k = Dec!FakeShift
  <2>1. k = <<TRUE, LeftShift>> /\ k[1] = TRUE /\ k[2] = LeftShift
    BY <1>3, Zenon DEF Dec!FakeShift
  <2>2. k \notin KeyCodes
    BY <2>1, KeyCodesAssumption, Zenon DEF Dec!KeysOK
  <2> QED
    BY <1>2, <2>1, <2>2, Zenon DEF Codes
<1>4. CASE k \in KeyCodes
  BY <1>4, KeyCodesAssumption, Zenon DEF Dec!KeysOK, Codes
<1> QED
  BY <1>3, <1>4, Zenon

(* The bytes of one key, appended to the wire (kbd_press, kbd_repeat and   *)
(* kbd_release send them).                                                 *)
LEMMA SendUnit ==
  ASSUME NEW w \in Seq(WireBytes), NEW k \in KeyCodes \cup {Dec!FakeShift},
         NEW x \in WireBytes, x.code = k[2]
  PROVE  LET w2 == w \o (IF k[1] THEN <<Dec!E0, x>> ELSE <<x>>)
         IN  w2 \in Seq(WireBytes) /\ UnitSent(w, w2, k, x)
<1>1. Dec!E0 \in WireBytes
  BY Zenon DEF Dec!E0, WireBytes, Codes
<1>2. CASE k[1]
  BY <1>1, <1>2 DEF UnitSent
<1>3. CASE ~k[1]
  BY <1>3, UnitKeys DEF UnitSent
<1> QED
  BY <1>2, <1>3, Zenon

(* The bytes sent before keep their keys, the new ones are those of k.     *)
LEMMA UnitKeyAt ==
  ASSUME NEW w \in Seq(WireBytes), NEW w2 \in Seq(WireBytes), NEW p \in BOOLEAN,
         NEW k \in KeyCodes \cup {Dec!FakeShift}, NEW x \in WireBytes, UnitSent(w, w2, k, x),
         WireEnds(w, p)
  PROVE  /\ \A j \in 1 .. Len(w) : KeyAt(w2, p, j) = KeyAt(w, p, j)
         /\ KeyAt(w2, p, Len(w2)) = k
         /\ \A j \in Len(w) + 1 .. Len(w2) - 1 : w2[j].code = "E0"
<1>1. ASSUME NEW j \in 1 .. Len(w) PROVE KeyAt(w2, p, j) = KeyAt(w, p, j)
  <2>1. w2[j] = w[j] /\ (j # 1 => j - 1 \in 1 .. Len(w) /\ w2[j - 1] = w[j - 1])
    BY DEF UnitSent
  <2> QED
    BY <2>1, Zenon DEF KeyAt, PrefixAt
<1>2. KeyAt(w2, p, Len(w2)) = k
  <2>1. k = <<k[1], k[2]>> /\ k[1] \in BOOLEAN
    BY UnitKeys, Zenon
  <2>2. CASE k[1]
    <3>1. w2[Len(w2) - 1].code = "E0" /\ Len(w2) # 1
      BY <2>2 DEF UnitSent, Dec!E0
    <3> QED
      BY <2>1, <2>2, <3>1, Zenon DEF UnitSent, KeyAt, PrefixAt
  <2>3. CASE ~k[1]
    <3>1. PrefixAt(w2, p, Len(w2)) = FALSE
      BY <2>3 DEF UnitSent, PrefixAt, WireEnds
    <3> QED
      BY <2>1, <2>3, <3>1, Zenon DEF UnitSent, KeyAt
  <2> QED
    BY <2>1, <2>2, <2>3, Zenon
<1>3. ASSUME NEW j \in Len(w) + 1 .. Len(w2) - 1 PROVE w2[j].code = "E0"
  BY DEF UnitSent, Dec!E0
<1> QED
  BY <1>1, <1>2, <1>3, Zenon

(* The fake shift is nobody's key.                                         *)
LEMMA FakeIsNoKey == Dec!FakeShift \notin KeyCodes /\ Dec!FakeShift \notin Dec!Shifts
<1>1. Dec!FakeShift = <<TRUE, LeftShift>> /\ Dec!FakeShift[1] = TRUE /\ Dec!FakeShift[2] = LeftShift
  BY Zenon DEF Dec!FakeShift
<1> QED
  BY <1>1, KeyCodesAssumption, Zenon DEF Dec!KeysOK, Dec!Shifts

(* Sending the bytes of k keeps SyncOn when the keys held change as they   *)
(* say (kbd_ actions).                                                     *)
LEMMA SyncSent ==
  ASSUME NEW w \in Seq(WireBytes), NEW w2 \in Seq(WireBytes), NEW p \in BOOLEAN,
         NEW k \in KeyCodes \cup {Dec!FakeShift}, NEW x \in WireBytes, UnitSent(w, w2, k, x),
         NEW table, NEW down, NEW down2,
         SyncOn(w, p, table, down),
         \A y \in KeyCodes : y # k => (y \in down2 <=> y \in down),
         k \in KeyCodes => (x.up <=> k \notin down2)
  PROVE  SyncOn(w2, p, table, down2)
<1>0. WireEnds(w, p)
  BY Zenon DEF SyncOn
<1>1. /\ \A j \in 1 .. Len(w) : KeyAt(w2, p, j) = KeyAt(w, p, j)
      /\ KeyAt(w2, p, Len(w2)) = k
      /\ \A j \in Len(w) + 1 .. Len(w2) - 1 : w2[j].code = "E0"
  BY <1>0, UnitKeyAt, Zenon
<1>2. /\ \A j \in 1 .. Len(w) : w2[j] = w[j]
      /\ Len(w2) \in Nat /\ Len(w) \in Nat /\ Len(w2) > Len(w) /\ w2[Len(w2)] = x
      /\ x.code = k[2] /\ k[2] # "E0"
  BY UnitKeys DEF UnitSent
<1>3. \A j \in 1 .. Len(w2) : w2[j].code = "E0" \/ KeyAt(w2, p, j) \in KeyCodes \cup {Dec!FakeShift}
  BY <1>1, <1>2 DEF SyncOn
<1>4. WireEnds(w2, p)
  BY <1>2 DEF WireEnds
<1>5. ASSUME NEW y \in KeyCodes, NEW j \in 1 .. Len(w2),
             KeyAt(w2, p, j) = y, \A i \in j + 1 .. Len(w2) : KeyAt(w2, p, i) # y
      PROVE  w2[j].up <=> y \notin down2
  <2>1. y[2] # "E0" /\ KeyAt(w2, p, j)[2] = w2[j].code
    BY UnitKeys, Zenon DEF KeyAt
  <2>2. j = Len(w2) \/ j \in 1 .. Len(w)
    BY <1>1, <1>2, <1>5, <2>1
  <2>3. CASE j = Len(w2)
    BY <1>1, <1>2, <1>5, <2>3, Zenon
  <2>4. CASE j \in 1 .. Len(w)
    <3>1. y # k
      BY <1>1, <1>2, <1>5, <2>4
    <3>2. KeyAt(w, p, j) = y /\ \A i \in j + 1 .. Len(w) : KeyAt(w, p, i) # y
      BY <1>1, <1>2, <1>5, <2>4
    <3> QED
      BY <1>2, <2>4, <3>1, <3>2, Zenon DEF SyncOn
  <2> QED
    BY <2>2, <2>3, <2>4, Zenon
<1>6. ASSUME NEW y \in KeyCodes, \A j \in 1 .. Len(w2) : KeyAt(w2, p, j) # y
      PROVE  y \in table <=> y \in down2
  <2>1. y # k
    BY <1>1, <1>2, <1>6
  <2>2. \A j \in 1 .. Len(w) : KeyAt(w, p, j) # y
    BY <1>1, <1>2, <1>6
  <2> QED
    BY <2>1, <2>2, Zenon DEF SyncOn
<1> QED
  BY <1>3, <1>4, <1>5, <1>6, Zenon DEF SyncOn

(* Taking a byte off the wire leaves the keys of the others.               *)
LEMMA TailKeyAt ==
  ASSUME NEW w \in Seq(WireBytes), w # << >>, NEW p \in BOOLEAN
  PROVE  /\ Tail(w) \in Seq(WireBytes) /\ Len(Tail(w)) = Len(w) - 1 /\ Len(w) \in Nat \ {0}
         /\ Head(w) = w[1] /\ w[1] \in WireBytes
         /\ \A j \in 1 .. Len(w) - 1 :
              /\ Tail(w)[j] = w[j + 1]
              /\ KeyAt(Tail(w), Head(w).code = "E0", j) = KeyAt(w, p, j + 1)
<1>1. /\ Tail(w) \in Seq(WireBytes) /\ Len(Tail(w)) = Len(w) - 1 /\ Len(w) \in Nat \ {0}
      /\ Head(w) = w[1] /\ w[1] \in WireBytes
      /\ \A j \in 1 .. Len(w) - 1 : Tail(w)[j] = w[j + 1]
  OBVIOUS
<1>2. ASSUME NEW j \in 1 .. Len(w) - 1
      PROVE  KeyAt(Tail(w), Head(w).code = "E0", j) = KeyAt(w, p, j + 1)
  <2>1. CASE j = 1
    BY <1>1, <2>1 DEF KeyAt, PrefixAt
  <2>2. CASE j # 1
    <3>1. j - 1 \in 1 .. Len(w) - 1 /\ Tail(w)[j - 1] = w[j] /\ Tail(w)[j] = w[j + 1]
      BY <1>1, <2>2
    <3> QED
      BY <1>1, <2>2, <3>1 DEF KeyAt, PrefixAt
  <2> QED
    BY <2>1, <2>2, Zenon
<1> QED
  BY <1>1, <1>2, Zenon

(* Handling a byte that is no E0 marks or clears its key in the table, and *)
(* keeps SyncOn (ps2k.c:109-120, keyboard.c:401-422).                      *)
LEMMA SyncTaken ==
  ASSUME NEW w \in Seq(WireBytes), w # << >>, NEW p \in BOOLEAN, NEW table, NEW table2, NEW down,
         SyncOn(w, p, table, down),
         table2 = IF Head(w).code = "E0" THEN table
                  ELSE IF Head(w).up THEN table \ {<<p, Head(w).code>>}
                  ELSE table \cup {<<p, Head(w).code>>}
  PROVE  SyncOn(Tail(w), Head(w).code = "E0", table2, down)
<1> DEFINE q == Head(w).code = "E0"
<1>1. /\ Len(Tail(w)) = Len(w) - 1 /\ Len(w) \in Nat \ {0} /\ Head(w) = w[1]
      /\ \A j \in 1 .. Len(w) - 1 : Tail(w)[j] = w[j + 1] /\ KeyAt(Tail(w), q, j) = KeyAt(w, p, j + 1)
  BY TailKeyAt, Zenon
<1>2. KeyAt(w, p, 1) = <<p, Head(w).code>>
  BY <1>1, Zenon DEF KeyAt, PrefixAt
<1>3. \A j \in 1 .. Len(Tail(w)) : Tail(w)[j].code = "E0" \/ KeyAt(Tail(w), q, j) \in KeyCodes \cup {Dec!FakeShift}
  <2>1. \A j \in 1 .. Len(w) - 1 : j + 1 \in 1 .. Len(w)
    BY <1>1
  <2> QED
    BY <1>1, <2>1, Zenon DEF SyncOn
<1>4. WireEnds(Tail(w), q)
  <2>1. w[Len(w)].code # "E0"
    BY <1>1, Zenon DEF SyncOn, WireEnds
  <2>2. CASE Len(w) = 1
    BY <1>1, <2>1, <2>2 DEF WireEnds
  <2>3. CASE Len(w) # 1
    <3>1. Len(w) - 1 \in 1 .. Len(w) - 1 /\ Tail(w)[Len(w) - 1] = w[Len(w) - 1 + 1]
      BY <1>1, <2>3
    <3> QED
      BY <1>1, <2>1, <3>1 DEF WireEnds
  <2> QED
    BY <2>2, <2>3, Zenon
<1>5. ASSUME NEW y \in KeyCodes, NEW j \in 1 .. Len(Tail(w)),
             KeyAt(Tail(w), q, j) = y, \A i \in j + 1 .. Len(Tail(w)) : KeyAt(Tail(w), q, i) # y
      PROVE  Tail(w)[j].up <=> y \notin down
  <2>1. j + 1 \in 1 .. Len(w) /\ KeyAt(w, p, j + 1) = y /\ Tail(w)[j] = w[j + 1]
    BY <1>1, <1>5
  <2>2. ASSUME NEW i \in j + 2 .. Len(w) PROVE KeyAt(w, p, i) # y
    <3>1. i - 1 \in j + 1 .. Len(Tail(w)) /\ i - 1 \in 1 .. Len(w) - 1 /\ (i - 1) + 1 = i
      BY <1>1
    <3>2. KeyAt(Tail(w), q, i - 1) = KeyAt(w, p, i)
      BY <1>1, <3>1, Zenon
    <3> QED
      BY <1>5, <3>1, <3>2, Zenon
  <2> QED
    BY <2>1, <2>2 DEF SyncOn
<1>6. ASSUME NEW y \in KeyCodes, \A j \in 1 .. Len(Tail(w)) : KeyAt(Tail(w), q, j) # y
      PROVE  y \in table2 <=> y \in down
  <2>1. ASSUME NEW i \in 2 .. Len(w) PROVE KeyAt(w, p, i) # y
    <3>1. i - 1 \in 1 .. Len(Tail(w)) /\ i - 1 \in 1 .. Len(w) - 1 /\ (i - 1) + 1 = i
      BY <1>1
    <3> QED
      BY <1>1, <1>6, <3>1, Zenon
  <2>2. CASE KeyAt(w, p, 1) = y
    <3>1. w[1].up <=> y \notin down
      BY <1>1, <2>1, <2>2 DEF SyncOn
    <3>2. Head(w).code # "E0"
      BY <1>2, <2>2, UnitKeys, Zenon
    <3> QED
      BY <1>1, <1>2, <2>2, <3>1, <3>2, Zenon
  <2>3. CASE KeyAt(w, p, 1) # y
    <3>1. y \in table <=> y \in down
      BY <1>1, <2>1, <2>3 DEF SyncOn
    <3> QED
      BY <1>2, <2>3, <3>1, Zenon
  <2> QED
    BY <2>2, <2>3, Zenon
<1> QED
  BY <1>3, <1>4, <1>5, <1>6, Zenon DEF SyncOn
-----------------------------------------------------------------------------
(* The shift state                                                         *)

(* A shift state is a fact about the bytes before a position only.         *)
LEMMA ShiftBeforeSame ==
  ASSUME NEW w, NEW w2, NEW p, NEW old, NEW s, NEW j \in Nat \ {0}, NEW val,
         \A i \in 1 .. j - 1 : w2[i] = w[i] /\ (ShiftAt(w2, p, old, i) <=> ShiftAt(w, p, old, i))
  PROVE  ShiftBefore(w2, p, old, s, j, val) <=> ShiftBefore(w, p, old, s, j, val)
<1>1. \A i \in 1 .. j - 1 : \A l \in i + 1 .. j - 1 : l \in 1 .. j - 1
  OBVIOUS
<1> QED
  BY <1>1, Zenon DEF ShiftBefore

(* A byte that is no shift's leaves the shift state.                       *)
LEMMA ShiftBeforeSkip ==
  ASSUME NEW w, NEW p, NEW old, NEW s, NEW j \in Nat \ {0}, NEW val,
         ~ShiftAt(w, p, old, j), ShiftBefore(w, p, old, s, j, val)
  PROVE  ShiftBefore(w, p, old, s, j + 1, val)
<1>1. 1 .. (j + 1) - 1 = (1 .. j - 1) \cup {j}
  OBVIOUS
<1>2. \A i \in 1 .. j - 1 : i + 1 .. (j + 1) - 1 = (i + 1 .. j - 1) \cup {j}
  OBVIOUS
<1> QED
  BY <1>1, <1>2, Zenon DEF ShiftBefore

(* The byte of a shift sets it.                                            *)
LEMMA ShiftBeforeSet ==
  ASSUME NEW w, NEW p, NEW old, NEW s, NEW j \in Nat \ {0}, NEW val,
         ShiftAt(w, p, old, j), w[j].up <=> ~val
  PROVE  ShiftBefore(w, p, old, s, j + 1, val)
<1>1. 1 .. (j + 1) - 1 = (1 .. j - 1) \cup {j}
  OBVIOUS
<1>2. \A i \in 1 .. j - 1 : j \in i + 1 .. (j + 1) - 1
  OBVIOUS
<1> QED
  BY <1>1, <1>2, Zenon DEF ShiftBefore

(* Handling the first byte leaves the shift state of every later position. *)
LEMMA ShiftBeforeTail ==
  ASSUME NEW w, NEW w2, NEW p, NEW p2, NEW old, NEW s, NEW s2, NEW j \in Nat \ {0}, NEW val,
         \A i \in 1 .. j - 1 :
           w2[i] = w[i + 1] /\ (ShiftAt(w2, p2, old, i) <=> ShiftAt(w, p, old, i + 1)),
         s2 <=> (IF ShiftAt(w, p, old, 1) THEN ~w[1].up ELSE s),
         ShiftBefore(w, p, old, s, j + 1, val)
  PROVE  ShiftBefore(w2, p2, old, s2, j, val)
<1>1. \A i \in 1 .. j - 1 : i + 1 \in 1 .. (j + 1) - 1
  OBVIOUS
<1>2. 1 \in 1 .. (j + 1) - 1
  OBVIOUS
<1>3. ASSUME NEW i \in 1 .. j - 1, ShiftAt(w2, p2, old, i),
             \A l \in i + 1 .. j - 1 : ~ShiftAt(w2, p2, old, l)
      PROVE  w2[i].up <=> ~val
  <2>1. ShiftAt(w, p, old, i + 1) /\ w2[i] = w[i + 1]
    BY <1>1, <1>3, Zenon
  <2>2. ASSUME NEW l \in (i + 1) + 1 .. (j + 1) - 1 PROVE ~ShiftAt(w, p, old, l)
    <3>1. l - 1 \in i + 1 .. j - 1 /\ l - 1 \in 1 .. j - 1 /\ (l - 1) + 1 = l
      BY <1>1
    <3> QED
      BY <1>3, <3>1, Zenon
  <2> QED
    BY <1>1, <2>1, <2>2, Zenon DEF ShiftBefore
<1>4. ASSUME \A i \in 1 .. j - 1 : ~ShiftAt(w2, p2, old, i)
      PROVE  s2 <=> val
  <2>1. ASSUME NEW l \in 2 .. (j + 1) - 1 PROVE ~ShiftAt(w, p, old, l)
    <3>1. l - 1 \in 1 .. j - 1 /\ (l - 1) + 1 = l
      BY <1>1
    <3> QED
      BY <1>4, <3>1, Zenon
  <2>2. CASE ShiftAt(w, p, old, 1)
    <3>1. w[1].up <=> ~val
      BY <1>2, <2>1, <2>2 DEF ShiftBefore
    <3> QED
      BY <2>2, <3>1, Zenon
  <2>3. CASE ~ShiftAt(w, p, old, 1)
    <3>1. \A i \in 1 .. (j + 1) - 1 : ~ShiftAt(w, p, old, i)
      <4>1. \A i \in 1 .. (j + 1) - 1 : i = 1 \/ i \in 2 .. (j + 1) - 1
        OBVIOUS
      <4> QED
        BY <2>1, <2>3, <4>1, Zenon
    <3> QED
      BY <2>3, <3>1, Zenon DEF ShiftBefore
  <2> QED
    BY <2>2, <2>3, Zenon
<1> QED
  BY <1>3, <1>4, Zenon DEF ShiftBefore

(* The handler's prefix and shift state change as byte x says, at the      *)
(* front of the wire; the older handler has no prefix.                     *)
ShiftTaken(x, shift, p2, old, s, s2) ==
  /\ ~old => (p2 <=> x.code = "E0")
  /\ s2 <=> (IF shift THEN ~x.up ELSE s)

(* Handling a byte keeps CaseOn (ps2k.c:122-124, keyboard.c:425-427, and   *)
(* i386 keyboard.c:392-397, where e0_prefix does not exist).               *)
LEMMA CaseTaken ==
  ASSUME NEW w \in Seq(WireBytes), w # << >>, NEW p \in BOOLEAN, NEW p2 \in BOOLEAN,
         NEW old \in BOOLEAN, NEW s \in BOOLEAN, NEW s2 \in BOOLEAN, NEW b \in BOOLEAN, NEW down,
         CaseOn(w, p, old, s, b, down),
         ShiftTaken(Head(w), ShiftAt(w, p, old, 1), p2, old, s, s2)
  PROVE  CaseOn(Tail(w), p2, old, s2, b, down)
<1> USE DEF ShiftTaken
<1>1. /\ Len(Tail(w)) = Len(w) - 1 /\ Len(w) \in Nat \ {0} /\ Head(w) = w[1]
      /\ \A j \in 1 .. Len(w) - 1 :
           Tail(w)[j] = w[j + 1] /\ KeyAt(Tail(w), Head(w).code = "E0", j) = KeyAt(w, p, j + 1)
  BY TailKeyAt, Zenon
<1>2. \A j \in 1 .. Len(w) - 1 :
        Tail(w)[j] = w[j + 1] /\ (ShiftAt(Tail(w), p2, old, j) <=> ShiftAt(w, p, old, j + 1))
  <2>1. CASE old
    BY <1>1, <2>1, Zenon DEF ShiftAt
  <2>2. CASE ~old
    <3>1. p2 = (Head(w).code = "E0")
      BY <2>2, Zenon
    <3> QED
      BY <1>1, <2>2, <3>1, Zenon DEF ShiftAt
  <2> QED
    BY <2>1, <2>2, Zenon
<1>3. Len(w) - 1 \in Nat /\ (s2 <=> (IF ShiftAt(w, p, old, 1) THEN ~w[1].up ELSE s))
  BY <1>1
<1>4. ASSUME NEW j \in 1 .. Len(Tail(w)),
             Tail(w)[j].code \in Printable, ~Tail(w)[j].up, ~Tail(w)[j].excused
      PROVE  ShiftBefore(Tail(w), p2, old, s2, j, Tail(w)[j].shifted)
  <2>1. j \in 1 .. Len(w) - 1 /\ j + 1 \in 1 .. Len(w) /\ Tail(w)[j] = w[j + 1]
        /\ j \in Nat \ {0} /\ \A i \in 1 .. j - 1 : i \in 1 .. Len(w) - 1
    BY <1>1
  <2>2. ShiftBefore(w, p, old, s, j + 1, Tail(w)[j].shifted)
    BY <1>4, <2>1, Zenon DEF CaseOn
  <2> QED
    BY <1>2, <1>3, <2>1, <2>2, ShiftBeforeTail, Zenon
<1>5. ASSUME ~b
      PROVE  ShiftBefore(Tail(w), p2, old, s2, Len(Tail(w)) + 1, down \cap Dec!Shifts # {})
  <2> DEFINE val == down \cap Dec!Shifts # {}
  <2>1. ShiftBefore(w, p, old, s, Len(w) + 1, val)
    BY <1>5, Zenon DEF CaseOn
  <2>2. Len(w) \in Nat \ {0} /\ Len(Tail(w)) + 1 = Len(w)
    BY <1>1
  <2> HIDE DEF val
  <2>3. ShiftBefore(Tail(w), p2, old, s2, Len(w), val)
    BY <1>2, <1>3, <2>1, <2>2, ShiftBeforeTail, Zenon
  <2> QED
    BY <2>2, <2>3, Zenon DEF val
<1> QED
  BY <1>4, <1>5, Zenon DEF CaseOn

(* What the handler takes for a shift: the older one the fake shift too.   *)
TakenForShift(k, old) == k \in Dec!Shifts \/ (old /\ k = Dec!FakeShift)

(* The byte x of key k carries the shift state of the moment it was sent,  *)
(* and the shifts held change as it says, or the driver is astray.         *)
ShiftSent(k, x, old, b, b2, down, down2) ==
  /\ x.shifted <=> down \cap Dec!Shifts # {}
  /\ x.excused = b
  /\ TakenForShift(k, old) /\ ~b2 => (x.up <=> down2 \cap Dec!Shifts = {})
  /\ ~TakenForShift(k, old) => b2 = b /\ down2 \cap Dec!Shifts = down \cap Dec!Shifts

(* Sending the bytes of a key keeps CaseOn, if they carry the shift state  *)
(* of the moment and the shifts held change as they say (kbd_ actions).    *)
LEMMA CaseSent ==
  ASSUME NEW w \in Seq(WireBytes), NEW w2 \in Seq(WireBytes), NEW p \in BOOLEAN,
         NEW old \in BOOLEAN, NEW s \in BOOLEAN,
         NEW k \in KeyCodes \cup {Dec!FakeShift}, NEW x \in WireBytes, UnitSent(w, w2, k, x),
         NEW b \in BOOLEAN, NEW b2 \in BOOLEAN, NEW down, NEW down2,
         CaseOn(w, p, old, s, b, down),
         ~old => WireEnds(w, p),
         ShiftSent(k, x, old, b, b2, down, down2)
  PROVE  CaseOn(w2, p, old, s, b2, down2)
<1> USE DEF ShiftSent
<1>1. /\ \A j \in 1 .. Len(w) : w2[j] = w[j]
      /\ Len(w2) \in Nat /\ Len(w) \in Nat /\ Len(w2) > Len(w) /\ w2[Len(w2)] = x
      /\ x.code = k[2] /\ k[2] # "E0"
      /\ \A j \in Len(w) + 1 .. Len(w2) - 1 : w2[j].code = "E0"
      /\ Len(w2) = Len(w) + 1 \/ Len(w2) = Len(w) + 2
  BY UnitKeys DEF UnitSent, Dec!E0
<1>0. ASSUME ~old
      PROVE  /\ \A j \in 1 .. Len(w) : KeyAt(w2, p, j) = KeyAt(w, p, j)
             /\ KeyAt(w2, p, Len(w2)) = k
  <2> HIDE DEF ShiftSent
  <2>1. WireEnds(w, p)
    BY <1>0, Zenon
  <2>2. /\ \A j \in 1 .. Len(w) : KeyAt(w2, p, j) = KeyAt(w, p, j)
        /\ KeyAt(w2, p, Len(w2)) = k
        /\ \A j \in Len(w) + 1 .. Len(w2) - 1 : w2[j].code = "E0"
    BY <2>1, UnitKeyAt, ZenonT(30)
  <2> QED
    BY <2>2, Zenon
<1>2. \A j \in 1 .. Len(w) : ShiftAt(w2, p, old, j) <=> ShiftAt(w, p, old, j)
  BY <1>0, <1>1, Zenon DEF ShiftAt
<1>3. {LeftShift, RightShift} \cap {"E0"} = {} /\ \A y \in Dec!Shifts : y[2] # "E0"
  BY KeyCodesAssumption, UnitKeys, Zenon DEF Dec!KeysOK, Dec!Shifts
<1>4. \A j \in Len(w) + 1 .. Len(w2) - 1 : ~ShiftAt(w2, p, old, j)
  BY <1>1, <1>3, Zenon DEF ShiftAt, KeyAt
<1>5. ShiftAt(w2, p, old, Len(w2)) <=> TakenForShift(k, old)
  <2>1. CASE old
    <3>1. k \in KeyCodes => (k[2] \in {LeftShift, RightShift} <=> k \in Dec!Shifts)
      BY UnitKeys, ZenonT(30) DEF Dec!Shifts
    <3>2. Dec!FakeShift[2] = LeftShift /\ Dec!FakeShift \notin KeyCodes
      BY FakeIsNoKey, Zenon DEF Dec!FakeShift
    <3>3. k[2] \in {LeftShift, RightShift} <=> k \in Dec!Shifts \/ k = Dec!FakeShift
      BY <3>1, <3>2, Zenon
    <3> QED
      BY <1>1, <2>1, <3>3, Zenon DEF ShiftAt, TakenForShift
  <2>2. CASE ~old
    BY <1>0, <2>2, Zenon DEF ShiftAt, TakenForShift
  <2> QED
    BY <2>1, <2>2, Zenon
<1>6. ASSUME NEW j \in 1 .. Len(w) + 1, NEW val, ShiftBefore(w, p, old, s, j, val)
      PROVE  ShiftBefore(w2, p, old, s, j, val)
  <2>1. \A i \in 1 .. j - 1 : i \in 1 .. Len(w)
    BY <1>1
  <2> QED
    BY <1>1, <1>2, <1>6, <2>1, ShiftBeforeSame
<1>7. ASSUME NEW val, ShiftBefore(w, p, old, s, Len(w) + 1, val)
      PROVE  ShiftBefore(w2, p, old, s, Len(w2), val)
  <2>1. ShiftBefore(w2, p, old, s, Len(w) + 1, val)
    BY <1>1, <1>6, <1>7
  <2>2. CASE Len(w2) = Len(w) + 1
    BY <2>1, <2>2, Zenon
  <2>3. CASE Len(w2) = Len(w) + 2
    <3>1. ~ShiftAt(w2, p, old, Len(w) + 1) /\ Len(w) + 1 \in Nat \ {0}
      BY <1>1, <1>4, <2>3
    <3>2. ShiftBefore(w2, p, old, s, (Len(w) + 1) + 1, val)
      BY <2>1, <3>1, ShiftBeforeSkip, Zenon
    <3>3. (Len(w) + 1) + 1 = Len(w2)
      BY <1>1, <2>3
    <3> QED
      BY <3>2, <3>3, Zenon
  <2> QED
    BY <1>1, <2>2, <2>3, Zenon
<1>8. ASSUME NEW j \in 1 .. Len(w2),
             w2[j].code \in Printable, ~w2[j].up, ~w2[j].excused
      PROVE  ShiftBefore(w2, p, old, s, j, w2[j].shifted)
  <2>1. "E0" \notin Printable
    BY KeyCodesAssumption, Zenon DEF Dec!KeysOK
  <2>2. j \in 1 .. Len(w) \/ j = Len(w2)
    BY <1>1, <1>8, <2>1
  <2>3. CASE j \in 1 .. Len(w)
    <3>1. ShiftBefore(w, p, old, s, j, w2[j].shifted)
      BY <1>1, <1>8, <2>3, Zenon DEF CaseOn
    <3> QED
      BY <1>1, <1>6, <2>3, <3>1
  <2>4. CASE j = Len(w2)
    <3>1. ~b /\ w2[j] = x /\ x.shifted \in BOOLEAN
      BY <1>1, <1>8, <2>4, Zenon DEF WireBytes
    <3>2. (down \cap Dec!Shifts # {}) = x.shifted
      BY <3>1, Zenon
    <3>3. ShiftBefore(w, p, old, s, Len(w) + 1, x.shifted)
      BY <3>1, <3>2, Zenon DEF CaseOn
    <3> QED
      BY <1>7, <2>4, <3>1, <3>3, Zenon
  <2> QED
    BY <2>2, <2>3, <2>4, Zenon
<1>9. ASSUME ~b2
      PROVE  ShiftBefore(w2, p, old, s, Len(w2) + 1, down2 \cap Dec!Shifts # {})
  <2>1. Len(w2) \in Nat \ {0}
    BY <1>1
  <2>2. CASE TakenForShift(k, old)
    <3> DEFINE val == down2 \cap Dec!Shifts # {}
    <3>1. ShiftAt(w2, p, old, Len(w2)) /\ (w2[Len(w2)].up <=> ~val)
      BY <1>1, <1>5, <1>9, <2>2, Zenon
    <3> HIDE DEF val
    <3>2. ShiftBefore(w2, p, old, s, Len(w2) + 1, val)
      BY <2>1, <3>1, ShiftBeforeSet, Zenon
    <3> QED
      BY <3>2, Zenon DEF val
  <2>3. CASE ~TakenForShift(k, old)
    <3> DEFINE val == down \cap Dec!Shifts # {}
    <3>1. ShiftBefore(w, p, old, s, Len(w) + 1, val)
      BY <1>9, <2>3, Zenon DEF CaseOn
    <3>2. val = (down2 \cap Dec!Shifts # {})
      BY <2>3, Zenon
    <3>3. ~ShiftAt(w2, p, old, Len(w2))
      BY <1>5, <1>9, <2>3, Zenon
    <3> HIDE DEF val
    <3>4. ShiftBefore(w2, p, old, s, Len(w2), val)
      BY <1>7, <3>1, Zenon
    <3>5. ShiftBefore(w2, p, old, s, Len(w2) + 1, val)
      BY <2>1, <3>3, <3>4, ShiftBeforeSkip, Zenon
    <3> QED
      BY <3>2, <3>5, Zenon
  <2> QED
    BY <2>2, <2>3, Zenon
<1> QED
  BY <1>8, <1>9, Zenon DEF CaseOn
-----------------------------------------------------------------------------
(* The keyboard's steps                                                    *)

(* A key or a fake shift sends bytes that the wire's type allows.          *)
LEMMA ByteOnWire ==
  ASSUME DecoderInv, NEW k \in KeyCodes \cup {Dec!FakeShift}, NEW up \in BOOLEAN
  PROVE  /\ Dec!Byte(k[2], up) \in WireBytes /\ Dec!Byte(k[2], up).code = k[2]
         /\ Dec!Byte(k[2], up).up = up /\ Dec!Byte(k[2], up).excused = astray
         /\ Dec!Byte(k[2], up).shifted <=> held \cap Dec!Shifts # {}
         /\ wire \o Dec!Bytes(k, up) \in Seq(WireBytes)
         /\ UnitSent(wire, wire \o Dec!Bytes(k, up), k, Dec!Byte(k[2], up))
         /\ Len(wire \o Dec!Bytes(k, up)) = Len(wire) + Len(Dec!Bytes(k, up))
<1>1. k[2] \in Codes /\ astray \in BOOLEAN /\ wire \in Seq(WireBytes)
  BY UnitKeys, Zenon DEF DecoderInv, WireOK, Dec!TypeOK
<1>2. /\ Dec!Byte(k[2], up) \in WireBytes /\ Dec!Byte(k[2], up).code = k[2]
      /\ Dec!Byte(k[2], up).up = up /\ Dec!Byte(k[2], up).excused = astray
      /\ Dec!Byte(k[2], up).shifted <=> held \cap Dec!Shifts # {}
  BY <1>1, Zenon DEF Dec!Byte, WireBytes
<1>3. Dec!Bytes(k, up) = IF k[1] THEN <<Dec!E0, Dec!Byte(k[2], up)>> ELSE <<Dec!Byte(k[2], up)>>
  BY Zenon DEF Dec!Bytes
<1>4. /\ wire \o Dec!Bytes(k, up) \in Seq(WireBytes)
      /\ UnitSent(wire, wire \o Dec!Bytes(k, up), k, Dec!Byte(k[2], up))
  BY <1>1, <1>2, <1>3, SendUnit, Zenon
<1>5. Len(Dec!Bytes(k, up)) = IF k[1] THEN 2 ELSE 1
  BY <1>3, Zenon
<1> QED
  BY <1>2, <1>4, <1>5, Zenon DEF UnitSent

(* A press, repeat or release without a fake shift.                        *)
LEMMA UnitStep ==
  ASSUME DecoderInv, NEW k \in KeyCodes, NEW up \in BOOLEAN, NEW b2 \in BOOLEAN, NEW down2,
         up => k \in held,
         down2 = IF up THEN held \ {k} ELSE held \cup {k},
         b2 = IF k \in Dec!Shifts THEN up /\ down2 \cap Dec!Shifts # {} ELSE astray
  PROVE  LET w2 == wire \o Dec!Bytes(k, up)
         IN  /\ driver # "i386" => SyncOn(w2, e0_prefix, key_pressed, down2)
             /\ CaseOn(w2, e0_prefix, driver = "i386", shift_pressed, b2, down2)
<1> DEFINE w2 == wire \o Dec!Bytes(k, up)  x == Dec!Byte(k[2], up)  old == driver = "i386"
<1>1. /\ x \in WireBytes /\ x.up = up /\ x.excused = astray
      /\ x.shifted <=> held \cap Dec!Shifts # {}
      /\ w2 \in Seq(WireBytes) /\ UnitSent(wire, w2, k, x)
  BY ByteOnWire, Zenon
<1>2. /\ wire \in Seq(WireBytes) /\ e0_prefix \in BOOLEAN /\ shift_pressed \in BOOLEAN
      /\ astray \in BOOLEAN /\ old \in BOOLEAN
      /\ ~old => SyncOn(wire, e0_prefix, key_pressed, held)
      /\ CaseOn(wire, e0_prefix, old, shift_pressed, astray, held)
  BY Zenon DEF DecoderInv, WireOK, Dec!TypeOK
<1> HIDE DEF w2, x, old
<1>3. ASSUME ~old PROVE SyncOn(w2, e0_prefix, key_pressed, down2)
  <2>1. \A y \in KeyCodes : y # k => (y \in down2 <=> y \in held)
    BY Zenon
  <2>2. x.up <=> k \notin down2
    BY <1>1, Zenon
  <2> QED
    BY <1>1, <1>2, <1>3, <2>1, <2>2, SyncSent, SMTT(30)
<1>4. CaseOn(w2, e0_prefix, old, shift_pressed, b2, down2)
  <2>1. ~old => WireEnds(wire, e0_prefix)
    BY <1>2, Zenon DEF SyncOn
  <2>2. TakenForShift(k, old) <=> k \in Dec!Shifts
    BY FakeIsNoKey, Zenon DEF TakenForShift
  <2>3. ASSUME ~b2, k \in Dec!Shifts PROVE x.up <=> down2 \cap Dec!Shifts = {}
    BY <1>1, <2>3, Zenon
  <2>4. k \notin Dec!Shifts => b2 = astray /\ down2 \cap Dec!Shifts = held \cap Dec!Shifts
    BY Zenon
  <2>5. ShiftSent(k, x, old, astray, b2, held, down2)
    BY <1>1, <2>2, <2>3, <2>4, Zenon DEF ShiftSent
  <2> QED
    BY <1>1, <1>2, <2>1, <2>5, CaseSent, SMTT(30)
<1> QED
  BY <1>3, <1>4, Zenon DEF w2, old

(* Sending bytes changes nothing in the driver: the rest of the invariant  *)
(* follows once the wire is described.                                     *)
LEMMA SentInv ==
  ASSUME DecoderInv, UNCHANGED <<driver, key_pressed, shift_pressed, e0_prefix, event, tick_count>>,
         wire' \in Seq(WireBytes), Len(wire') <= MaxWire, held' \subseteq KeyCodes,
         astray' \in BOOLEAN,
         driver # "i386" => SyncOn(wire', e0_prefix, key_pressed, held'),
         CaseOn(wire', e0_prefix, driver = "i386", shift_pressed, astray', held')
  PROVE  DecoderInv'
<1>1. Dec!TypeOK' /\ WireOK'
  BY Zenon DEF DecoderInv, Dec!TypeOK, WireOK
<1>2. Dec!CaseIsShift'
  BY Zenon DEF DecoderInv, Dec!CaseIsShift
<1>3. driver' # "i386" => SyncOn(wire', e0_prefix', key_pressed', held')
  BY Zenon
<1>4. CaseOn(wire', e0_prefix', driver' = "i386", shift_pressed', astray', held')
  BY Zenon
<1> QED
  BY <1>1, <1>2, <1>3, <1>4, Zenon DEF DecoderInv

(* A key goes down.                                                        *)
LEMMA PressStep ==
  ASSUME DecoderInv, NEW k \in KeyCodes, Dec!kbd_press(k)
  PROVE  DecoderInv'
<1>1. /\ UNCHANGED <<driver, key_pressed, shift_pressed, e0_prefix, event, tick_count>>
      /\ held' = held \cup {k} /\ k \notin held
      /\ astray' = (astray /\ k \notin Dec!Shifts)
      /\ wire' = wire \o Dec!Bytes(k, FALSE) /\ Len(wire) + Len(Dec!Bytes(k, FALSE)) <= MaxWire
  BY Zenon DEF Dec!kbd_press, Dec!driver_vars, Dec!Send
<1>2. held \subseteq KeyCodes /\ astray \in BOOLEAN /\ wire \in Seq(WireBytes)
  BY Zenon DEF DecoderInv, Dec!TypeOK, WireOK
<1>3. wire' \in Seq(WireBytes) /\ Len(wire') <= MaxWire
  BY <1>1, ByteOnWire, Zenon
<1>4. /\ held' \subseteq KeyCodes /\ astray' \in BOOLEAN
      /\ held' = IF FALSE THEN held \ {k} ELSE held \cup {k}
      /\ astray' = IF k \in Dec!Shifts THEN FALSE /\ held' \cap Dec!Shifts # {} ELSE astray
  BY <1>1, <1>2, Zenon
<1>5. /\ driver # "i386" => SyncOn(wire', e0_prefix, key_pressed, held')
      /\ CaseOn(wire', e0_prefix, driver = "i386", shift_pressed, astray', held')
  BY <1>1, <1>4, UnitStep, Zenon
<1> QED
  BY <1>1, <1>3, <1>4, <1>5, SentInv, Zenon

(* A key held down repeats.                                                *)
LEMMA RepeatStep ==
  ASSUME DecoderInv, NEW k \in KeyCodes, Dec!kbd_repeat(k)
  PROVE  DecoderInv'
<1>1. /\ UNCHANGED <<driver, key_pressed, shift_pressed, e0_prefix, event, tick_count>>
      /\ held' = held /\ k \in held
      /\ astray' = (astray /\ k \notin Dec!Shifts)
      /\ wire' = wire \o Dec!Bytes(k, FALSE) /\ Len(wire) + Len(Dec!Bytes(k, FALSE)) <= MaxWire
  BY Zenon DEF Dec!kbd_repeat, Dec!driver_vars, Dec!Send
<1>2. held \subseteq KeyCodes /\ astray \in BOOLEAN /\ wire \in Seq(WireBytes)
  BY Zenon DEF DecoderInv, Dec!TypeOK, WireOK
<1>3. wire' \in Seq(WireBytes) /\ Len(wire') <= MaxWire
  BY <1>1, ByteOnWire, Zenon
<1>4. /\ held' \subseteq KeyCodes /\ astray' \in BOOLEAN
      /\ held' = IF FALSE THEN held \ {k} ELSE held \cup {k}
      /\ astray' = IF k \in Dec!Shifts THEN FALSE /\ held' \cap Dec!Shifts # {} ELSE astray
  BY <1>1, <1>2, Zenon
<1>5. /\ driver # "i386" => SyncOn(wire', e0_prefix, key_pressed, held')
      /\ CaseOn(wire', e0_prefix, driver = "i386", shift_pressed, astray', held')
  BY <1>1, <1>4, UnitStep, Zenon
<1> QED
  BY <1>1, <1>3, <1>4, <1>5, SentInv, Zenon

(* A key goes up.                                                          *)
LEMMA ReleaseStep ==
  ASSUME DecoderInv, NEW k \in KeyCodes, Dec!kbd_release(k)
  PROVE  DecoderInv'
<1>1. /\ UNCHANGED <<driver, key_pressed, shift_pressed, e0_prefix, event, tick_count>>
      /\ held' = held \ {k} /\ k \in held
      /\ astray' = IF k \in Dec!Shifts THEN held' \cap Dec!Shifts # {} ELSE astray
      /\ wire' = wire \o Dec!Bytes(k, TRUE) /\ Len(wire) + Len(Dec!Bytes(k, TRUE)) <= MaxWire
  BY Zenon DEF Dec!kbd_release, Dec!driver_vars, Dec!Send
<1>2. held \subseteq KeyCodes /\ astray \in BOOLEAN /\ wire \in Seq(WireBytes)
  BY Zenon DEF DecoderInv, Dec!TypeOK, WireOK
<1>3. wire' \in Seq(WireBytes) /\ Len(wire') <= MaxWire
  BY <1>1, ByteOnWire, Zenon
<1>4. /\ held' \subseteq KeyCodes /\ astray' \in BOOLEAN
      /\ held' = IF TRUE THEN held \ {k} ELSE held \cup {k}
      /\ astray' = IF k \in Dec!Shifts THEN TRUE /\ held' \cap Dec!Shifts # {} ELSE astray
  BY <1>1, <1>2, Zenon
<1>5. /\ driver # "i386" => SyncOn(wire', e0_prefix, key_pressed, held')
      /\ CaseOn(wire', e0_prefix, driver = "i386", shift_pressed, astray', held')
  BY <1>1, <1>4, UnitStep, Zenon
<1> QED
  BY <1>1, <1>3, <1>4, <1>5, SentInv, Zenon

(* A fake shift, which is no key: the older handler takes it for a shift.  *)
LEMMA FakeStep ==
  ASSUME DecoderInv, NEW up \in BOOLEAN, Dec!kbd_fake(up)
  PROVE  DecoderInv'
<1> DEFINE f == Dec!FakeShift  x == Dec!Byte(f[2], up)  old == driver = "i386"
<1>1. /\ UNCHANGED <<driver, key_pressed, shift_pressed, e0_prefix, event, tick_count>>
      /\ held' = held
      /\ astray' = IF old THEN up = (held \cap Dec!Shifts # {}) ELSE astray
      /\ wire' = wire \o Dec!Bytes(f, up) /\ Len(wire) + Len(Dec!Bytes(f, up)) <= MaxWire
  BY Zenon DEF Dec!kbd_fake, Dec!driver_vars, Dec!Send
<1>2. /\ held \subseteq KeyCodes /\ astray \in BOOLEAN /\ wire \in Seq(WireBytes)
      /\ e0_prefix \in BOOLEAN /\ shift_pressed \in BOOLEAN /\ old \in BOOLEAN
      /\ ~old => SyncOn(wire, e0_prefix, key_pressed, held)
      /\ CaseOn(wire, e0_prefix, old, shift_pressed, astray, held)
  BY Zenon DEF DecoderInv, Dec!TypeOK, WireOK
<1>3. f \in KeyCodes \cup {Dec!FakeShift} /\ f \notin KeyCodes /\ f \notin Dec!Shifts
  BY FakeIsNoKey, Zenon
<1>4. /\ x \in WireBytes /\ x.up = up /\ x.excused = astray
      /\ x.shifted <=> held \cap Dec!Shifts # {}
      /\ wire' \in Seq(WireBytes) /\ UnitSent(wire, wire', f, x) /\ Len(wire') <= MaxWire
  BY <1>1, <1>3, ByteOnWire, Zenon
<1>5. astray' \in BOOLEAN
  BY <1>1, <1>2, Zenon
<1>6. TakenForShift(f, old) <=> old
  BY <1>3, Zenon DEF TakenForShift
<1>7. old /\ ~astray' => (x.up <=> held' \cap Dec!Shifts = {})
  BY <1>1, <1>4, Zenon
<1>8. ShiftSent(f, x, old, astray, astray', held, held')
  BY <1>1, <1>4, <1>6, <1>7, Zenon DEF ShiftSent
<1> HIDE DEF f, x, old
<1>9. ASSUME ~old PROVE SyncOn(wire', e0_prefix, key_pressed, held')
  <2>1. SyncOn(wire', e0_prefix, key_pressed, held)
    BY <1>2, <1>3, <1>4, <1>9, SyncSent, Zenon
  <2> QED
    BY <1>1, <2>1, Zenon
<1>10. CaseOn(wire', e0_prefix, old, shift_pressed, astray', held')
  <2>1. ~old => WireEnds(wire, e0_prefix)
    BY <1>2, Zenon DEF SyncOn
  <2> QED
    BY <1>2, <1>3, <1>4, <1>5, <1>8, <2>1, CaseSent, SMTT(30)
<1> QED
  BY <1>1, <1>2, <1>4, <1>5, <1>9, <1>10, SentInv, Zenon DEF old
-----------------------------------------------------------------------------
(* The handlers' steps                                                     *)

(* The cast to int8_t gives a timestamp in range (ps2k.c:141).             *)
LEMMA StampInRange ==
  ASSUME NEW n \in Nat
  PROVE  Dec!int8(n) \in -(TimestampRange \div 2) .. TimestampRange \div 2 - 1
<1>1. PICK r \in Nat : r = TimestampRange \div 2 /\ TimestampRange = 2 * r /\ r > 0
  BY KeyCodesAssumption DEF Dec!KeysOK
<1>2. (n + r) % (2 * r) \in 0 .. 2 * r - 1
  BY <1>1
<1> QED
  BY <1>1, <1>2 DEF Dec!int8

(* The byte at the front of the wire finds the shift state it was sent     *)
(* with, so an event made of it has the right case.                        *)
LEMMA EventCase ==
  ASSUME DecoderInv, wire # << >>, NEW upper,
         ~Head(wire).up, Head(wire).code \in Printable, upper = shift_pressed
  PROVE  \/ upper = Head(wire).shifted
         \/ Head(wire).excused
<1>1. Head(wire) = wire[1] /\ 1 \in 1 .. Len(wire) /\ wire[1] \in WireBytes
  BY DEF DecoderInv, WireOK
<1>2. shift_pressed \in BOOLEAN /\ wire[1].shifted \in BOOLEAN
  BY <1>1, Zenon DEF DecoderInv, Dec!TypeOK, WireBytes
<1>3. CASE ~Head(wire).excused
  <2>1. ShiftBefore(wire, e0_prefix, driver = "i386", shift_pressed, 1, wire[1].shifted)
    BY <1>1, <1>3, Zenon DEF DecoderInv, CaseOn
  <2>2. shift_pressed <=> wire[1].shifted
    BY <2>1 DEF ShiftBefore
  <2> QED
    BY <1>1, <1>2, <2>2, Zenon
<1> QED
  BY <1>3, Zenon

(* A handler's step keeps the invariant, given what it makes of the byte   *)
(* at the front of the wire.                                               *)
LEMMA TakenInv ==
  ASSUME DecoderInv, wire # << >>, wire' = Tail(wire),
         UNCHANGED <<driver, tick_count, held, astray>>,
         e0_prefix' \in BOOLEAN, shift_pressed' \in BOOLEAN,
         driver # "i386" =>
           /\ e0_prefix' <=> Head(wire).code = "E0"
           /\ key_pressed' = IF Head(wire).code = "E0" THEN key_pressed
                             ELSE IF Head(wire).up THEN key_pressed \ {<<e0_prefix, Head(wire).code>>}
                             ELSE key_pressed \cup {<<e0_prefix, Head(wire).code>>},
         driver = "i386" => key_pressed' = key_pressed,
         shift_pressed' <=> (IF ShiftAt(wire, e0_prefix, driver = "i386", 1)
                             THEN ~Head(wire).up ELSE shift_pressed),
         \/ event' = event
         \/ \E upper \in BOOLEAN : 
              /\ event' = Dec!Event(Head(wire), upper)
              /\ Head(wire).code \in Printable => ~Head(wire).up /\ upper = shift_pressed
  PROVE  DecoderInv'
<1>1. /\ wire \in Seq(WireBytes) /\ e0_prefix \in BOOLEAN /\ shift_pressed \in BOOLEAN
      /\ astray \in BOOLEAN /\ tick_count \in Nat /\ Len(wire) <= MaxWire
      /\ driver # "i386" => SyncOn(wire, e0_prefix, key_pressed, held)
      /\ CaseOn(wire, e0_prefix, driver = "i386", shift_pressed, astray, held)
  BY KeyCodesAssumption DEF DecoderInv, Dec!TypeOK, WireOK, Dec!KeysOK
<1>2. /\ Tail(wire) \in Seq(WireBytes) /\ Len(Tail(wire)) = Len(wire) - 1 /\ Len(wire) \in Nat \ {0}
      /\ Head(wire) = wire[1] /\ wire[1] \in WireBytes
  BY <1>1, TailKeyAt, Zenon
<1>3. ASSUME driver # "i386" PROVE SyncOn(wire', e0_prefix', key_pressed', held')
  <2>1. e0_prefix' = (Head(wire).code = "E0")
    BY <1>3, Zenon
  <2> QED
    BY <1>1, <1>3, <2>1, SyncTaken, Zenon
<1>4. CaseOn(wire', e0_prefix', driver' = "i386", shift_pressed', astray', held')
  <2> DEFINE old == driver = "i386"
  <2>1. /\ CaseOn(wire, e0_prefix, old, shift_pressed, astray, held) /\ old \in BOOLEAN
        /\ ShiftTaken(Head(wire), ShiftAt(wire, e0_prefix, old, 1), e0_prefix', old,
                      shift_pressed, shift_pressed')
    BY <1>1, Zenon DEF ShiftTaken
  <2> HIDE DEF old
  <2>2. CaseOn(Tail(wire), e0_prefix', old, shift_pressed', astray, held)
    BY <1>1, <2>1, CaseTaken, SMTT(30)
  <2> QED
    BY <2>2, Zenon DEF old
<1>5. key_pressed' \subseteq KeyCodes \cup {Dec!FakeShift}
  <2>1. key_pressed \subseteq KeyCodes \cup {Dec!FakeShift}
    BY Zenon DEF DecoderInv, Dec!TypeOK
  <2>2. CASE driver # "i386"
    <3>1. KeyAt(wire, e0_prefix, 1) = <<e0_prefix, Head(wire).code>>
      BY <1>2, Zenon DEF KeyAt, PrefixAt
    <3>2. Head(wire).code = "E0" \/ <<e0_prefix, Head(wire).code>> \in KeyCodes \cup {Dec!FakeShift}
      <4>1. 1 \in 1 .. Len(wire)
        BY <1>2
      <4> QED
        BY <1>1, <1>2, <2>2, <3>1, <4>1, Zenon DEF SyncOn
    <3> QED
      BY <2>1, <2>2, <3>2, Zenon
  <2> QED
    BY <2>1, <2>2, Zenon
<1>6. event'.stamp \in -(TimestampRange \div 2) .. TimestampRange \div 2 - 1
  BY <1>1, StampInRange DEF DecoderInv, Dec!TypeOK, Dec!Event
<1>7. Dec!CaseIsShift'
  <2>1. CASE event' = event
    BY <2>1, Zenon DEF DecoderInv, Dec!CaseIsShift
  <2>2. CASE event' # event
    <3>1. PICK upper \in BOOLEAN :
            /\ event' = Dec!Event(Head(wire), upper)
            /\ Head(wire).code \in Printable => ~Head(wire).up /\ upper = shift_pressed
      BY <2>2, Zenon
    <3>2. /\ event'.code = Head(wire).code /\ event'.upper = upper
          /\ event'.shifted = Head(wire).shifted /\ event'.excused = Head(wire).excused
      BY <3>1, Zenon DEF Dec!Event
    <3> QED
      BY <3>1, <3>2, EventCase, Zenon DEF Dec!CaseIsShift
  <2> QED
    BY <2>1, <2>2, Zenon
<1>8. Dec!TypeOK' /\ WireOK'
  <2>1. Len(wire') <= MaxWire
    BY <1>1, <1>2, KeyCodesAssumption DEF Dec!KeysOK
  <2> QED
    BY <1>1, <1>2, <1>5, <1>6, <2>1, Zenon DEF DecoderInv, Dec!TypeOK, WireOK
<1> QED
  BY <1>3, <1>4, <1>7, <1>8, Zenon DEF DecoderInv

(* The PS/2 driver's interrupt handler of x86_64 (ps2k.c:97-156).          *)
LEMMA Ps2kStep == ASSUME DecoderInv, Dec!ps2k_irq_handler PROVE DecoderInv'
<1>1. /\ driver = "ps2k" /\ wire # << >> /\ wire' = Tail(wire)
      /\ UNCHANGED <<driver, tick_count, held, astray>>
  BY Zenon DEF Dec!ps2k_irq_handler, Dec!Interrupt
<1>2. /\ wire \in Seq(WireBytes) /\ e0_prefix \in BOOLEAN /\ shift_pressed \in BOOLEAN
  BY Zenon DEF DecoderInv, Dec!TypeOK, WireOK
<1>3. Head(wire) = wire[1] /\ Head(wire).up \in BOOLEAN
  BY <1>1, <1>2, TailKeyAt, Zenon DEF WireBytes
<1>4. e0_prefix' = (Head(wire).code = "E0")
  BY Zenon DEF Dec!ps2k_irq_handler, Dec!NextPrefix
<1>5. ShiftAt(wire, e0_prefix, driver = "i386", 1) <=> <<e0_prefix, Head(wire).code>> \in Dec!Shifts
  BY <1>1, <1>3, Zenon DEF ShiftAt, KeyAt, PrefixAt
<1>6. CASE Head(wire).code = "E0"
  <2>1. key_pressed' = key_pressed /\ shift_pressed' = shift_pressed /\ event' = event
    BY <1>6, Zenon DEF Dec!ps2k_irq_handler
  <2>2. <<e0_prefix, Head(wire).code>> \notin Dec!Shifts
    BY <1>6, KeyCodesAssumption, Zenon DEF Dec!KeysOK, Dec!Shifts
  <2> QED
    BY <1>1, <1>2, <1>4, <1>5, <1>6, <2>1, <2>2, TakenInv, Zenon
<1>7. CASE Head(wire).code # "E0"
  <2>1. key_pressed' = IF Head(wire).up THEN key_pressed \ {<<e0_prefix, Head(wire).code>>}
                       ELSE key_pressed \cup {<<e0_prefix, Head(wire).code>>}
    BY <1>7, Zenon DEF Dec!ps2k_irq_handler, Dec!Table, Dec!Index
  <2>2. shift_pressed' = IF <<e0_prefix, Head(wire).code>> \in Dec!Shifts THEN ~Head(wire).up
                         ELSE shift_pressed
    BY <1>7, Zenon DEF Dec!ps2k_irq_handler, Dec!Shift, Dec!Index, Dec!IsShift
  <2>3. shift_pressed' \in BOOLEAN
    BY <1>2, <1>3, <2>2, Zenon
  <2>4. \/ event' = event
        \/ ~Head(wire).up /\ event' = Dec!Event(Head(wire), shift_pressed)
    BY <1>7, Zenon DEF Dec!ps2k_irq_handler
  <2> QED
    BY <1>1, <1>2, <1>4, <1>5, <1>7, <2>1, <2>2, <2>3, <2>4, TakenInv, Zenon
<1> QED
  BY <1>6, <1>7, Zenon

(* The shared driver's handler, which also makes events of the shift keys  *)
(* (keyboard.c:393-462).                                                   *)
LEMMA KeyboardStep == ASSUME DecoderInv, Dec!keyboard_interrupt_handler PROVE DecoderInv'
<1>1. /\ driver = "keyboard" /\ wire # << >> /\ wire' = Tail(wire)
      /\ UNCHANGED <<driver, tick_count, held, astray>>
  BY Zenon DEF Dec!keyboard_interrupt_handler, Dec!Interrupt
<1>2. /\ wire \in Seq(WireBytes) /\ e0_prefix \in BOOLEAN /\ shift_pressed \in BOOLEAN
  BY Zenon DEF DecoderInv, Dec!TypeOK, WireOK
<1>3. Head(wire) = wire[1] /\ Head(wire).up \in BOOLEAN
  BY <1>1, <1>2, TailKeyAt, Zenon DEF WireBytes
<1>4. e0_prefix' = (Head(wire).code = "E0")
  BY Zenon DEF Dec!keyboard_interrupt_handler, Dec!NextPrefix
<1>5. ShiftAt(wire, e0_prefix, driver = "i386", 1) <=> <<e0_prefix, Head(wire).code>> \in Dec!Shifts
  BY <1>1, <1>3, Zenon DEF ShiftAt, KeyAt, PrefixAt
<1>6. CASE Head(wire).code = "E0"
  <2>1. key_pressed' = key_pressed /\ shift_pressed' = shift_pressed /\ event' = event
    BY <1>6, Zenon DEF Dec!keyboard_interrupt_handler
  <2>2. <<e0_prefix, Head(wire).code>> \notin Dec!Shifts
    BY <1>6, KeyCodesAssumption, Zenon DEF Dec!KeysOK, Dec!Shifts
  <2> QED
    BY <1>1, <1>2, <1>4, <1>5, <1>6, <2>1, <2>2, TakenInv, Zenon
<1>7. CASE Head(wire).code # "E0"
  <2>1. key_pressed' = IF Head(wire).up THEN key_pressed \ {<<e0_prefix, Head(wire).code>>}
                       ELSE key_pressed \cup {<<e0_prefix, Head(wire).code>>}
    BY <1>7, Zenon DEF Dec!keyboard_interrupt_handler, Dec!Table, Dec!Index
  <2>2. shift_pressed' = IF <<e0_prefix, Head(wire).code>> \in Dec!Shifts THEN ~Head(wire).up
                         ELSE shift_pressed
    BY <1>7, Zenon DEF Dec!keyboard_interrupt_handler, Dec!Shift, Dec!Index, Dec!IsShift
  <2>3. shift_pressed' \in BOOLEAN
    BY <1>2, <1>3, <2>2, Zenon
  <2>4. \/ event' = event
        \/ ~Head(wire).up /\ event' = Dec!Event(Head(wire), shift_pressed')
    BY <1>7, <2>2, Zenon DEF Dec!keyboard_interrupt_handler, Dec!Shift, Dec!Index, Dec!IsShift
  <2>5. ASSUME Head(wire).code \in Printable PROVE shift_pressed' = shift_pressed
    <3>1. <<e0_prefix, Head(wire).code>> \notin Dec!Shifts
      BY <2>5, KeyCodesAssumption, Zenon DEF Dec!KeysOK, Dec!Shifts
    <3> QED
      BY <2>2, <3>1, Zenon
  <2> QED
    BY <1>1, <1>2, <1>4, <1>5, <1>7, <2>1, <2>2, <2>3, <2>4, <2>5, TakenInv, Zenon
<1> QED
  BY <1>6, <1>7, Zenon

(* The older handler, without a table and without prefixes (i386           *)
(* keyboard.c:377-424).                                                    *)
LEMMA OlderStep == ASSUME DecoderInv, Dec!keyboard_interrupt_handler_i386 PROVE DecoderInv'
<1>1. /\ driver = "i386" /\ wire # << >> /\ wire' = Tail(wire)
      /\ UNCHANGED <<driver, tick_count, held, astray, key_pressed, e0_prefix>>
  BY Zenon DEF Dec!keyboard_interrupt_handler_i386, Dec!Interrupt
<1>2. /\ wire \in Seq(WireBytes) /\ e0_prefix \in BOOLEAN /\ shift_pressed \in BOOLEAN
  BY Zenon DEF DecoderInv, Dec!TypeOK, WireOK
<1>3. Head(wire) = wire[1] /\ Head(wire).up \in BOOLEAN
  BY <1>1, <1>2, TailKeyAt, Zenon DEF WireBytes
<1>4. ShiftAt(wire, e0_prefix, driver = "i386", 1) <=> Head(wire).code \in {LeftShift, RightShift}
  BY <1>1, <1>3, Zenon DEF ShiftAt
<1>5. shift_pressed' = IF Head(wire).code \in {LeftShift, RightShift} THEN ~Head(wire).up
                       ELSE shift_pressed
  BY Zenon DEF Dec!keyboard_interrupt_handler_i386
<1>6. shift_pressed' \in BOOLEAN /\ e0_prefix' \in BOOLEAN
  BY <1>1, <1>2, <1>3, <1>5, Zenon
<1>7. \/ event' = event
      \/ ~Head(wire).up /\ event' = Dec!Event(Head(wire), shift_pressed)
  BY Zenon DEF Dec!keyboard_interrupt_handler_i386
<1> QED
  BY <1>1, <1>2, <1>4, <1>5, <1>6, <1>7, TakenInv, Zenon
-----------------------------------------------------------------------------
(* The theorems                                                            *)

(* Nothing is held, marked or on its way when the driver starts.           *)
LEMMA DecoderStart == Dec!Init => DecoderInv
<1> SUFFICES ASSUME Dec!Init PROVE DecoderInv
  BY Zenon
<1>1. wire = << >> /\ Len(wire) = 0 /\ held = {} /\ key_pressed = {} /\ ~astray /\ astray \in BOOLEAN
      /\ e0_prefix = FALSE /\ shift_pressed = FALSE /\ event = Dec!NoEvent /\ tick_count = 0
      /\ driver \in {"ps2k", "keyboard", "i386"}
  BY Zenon DEF Dec!Init
<1>2. 0 \in -(TimestampRange \div 2) .. TimestampRange \div 2 - 1 /\ 0 \in 0 .. MaxTicks /\ 0 <= MaxWire
  BY KeyCodesAssumption DEF Dec!KeysOK
<1>3. Dec!TypeOK /\ WireOK
  <2>1. event.stamp = 0
    BY <1>1, Zenon DEF Dec!NoEvent
  <2>2. wire \in Seq(WireBytes)
    BY <1>1
  <2>3. Len(wire) <= MaxWire
    BY <1>1, <1>2, Zenon
  <2>4. shift_pressed \in BOOLEAN /\ e0_prefix \in BOOLEAN
    BY <1>1, Zenon
  <2>5. event.stamp \in -(TimestampRange \div 2) .. TimestampRange \div 2 - 1 /\ tick_count \in 0 .. MaxTicks
    BY <1>1, <1>2, <2>1, Zenon
  <2>6. key_pressed \subseteq KeyCodes \cup {Dec!FakeShift} /\ held \subseteq KeyCodes
    BY <1>1, Zenon
  <2> QED
    BY <1>1, <2>2, <2>3, <2>4, <2>5, <2>6, Zenon DEF Dec!TypeOK, WireOK
<1>4. SyncOn(wire, e0_prefix, key_pressed, held)
  BY <1>1 DEF SyncOn, WireEnds
<1>5. CaseOn(wire, e0_prefix, driver = "i386", shift_pressed, astray, held)
  <2>1. held \cap Dec!Shifts = {}
    BY <1>1, Zenon
  <2> QED
    BY <1>1, <2>1 DEF CaseOn, ShiftBefore
<1>6. Dec!CaseIsShift
  BY <1>1, Zenon DEF Dec!CaseIsShift, Dec!NoEvent
<1> QED
  BY <1>3, <1>4, <1>5, <1>6, Zenon DEF DecoderInv

(* Every step of the keyboard, the handlers and the timer keeps the        *)
(* invariant.                                                              *)
LEMMA DecoderKept == DecoderInv /\ [Dec!Next]_(Dec!vars) => DecoderInv'
<1> SUFFICES ASSUME DecoderInv, [Dec!Next]_(Dec!vars) PROVE DecoderInv'
  BY Zenon
<1>1. CASE Dec!Keystroke
  BY <1>1, PressStep, RepeatStep, ReleaseStep, FakeStep, Zenon DEF Dec!Keystroke
<1>2. CASE Dec!Handler
  BY <1>2, Ps2kStep, KeyboardStep, OlderStep, Zenon DEF Dec!Handler
<1>3. CASE Dec!timer_tick
  <2>1. tick_count' \in 0 .. MaxTicks
    BY <1>3, KeyCodesAssumption DEF Dec!timer_tick, DecoderInv, Dec!TypeOK, Dec!KeysOK
  <2> QED
    BY <1>3, <2>1, Zenon DEF Dec!timer_tick, Dec!driver_vars, DecoderInv, Dec!TypeOK, WireOK, Dec!CaseIsShift
<1>4. CASE UNCHANGED Dec!vars
  BY <1>4, Zenon DEF Dec!vars, Dec!driver_vars, DecoderInv, Dec!TypeOK, WireOK, Dec!CaseIsShift
<1> QED
  BY <1>1, <1>2, <1>3, <1>4, Zenon DEF Dec!Next, Dec!Decoding

(* So do the steps of the composition.                                     *)
LEMMA KeyboardKept == KbdSpec => []DecoderInv
<1>1. KbdInit => DecoderInv
  BY DecoderStart, Zenon DEF KbdInit
<1>2. DecoderInv /\ [KbdNext]_keyboard_vars => DecoderInv'
  <2>1. KbdNext => [Dec!Next]_(Dec!vars)
    BY Zenon DEF KbdNext, Dec!Next, decoder_vars, Dec!vars, Dec!driver_vars
  <2>2. UNCHANGED keyboard_vars => UNCHANGED Dec!vars
    BY Zenon DEF keyboard_vars, decoder_vars, Dec!vars, Dec!driver_vars
  <2> QED
    BY <2>1, <2>2, DecoderKept, Zenon
<1> QED
  BY <1>1, <1>2, PTL DEF KbdSpec

(* Once every byte sent is handled, is_key_pressed() tells exactly which   *)
(* keys are held, whatever the interleaving of keys, repeats, prefixes and *)
(* fake shifts with the interrupts (ps2k.c:109-120, keyboard.c:401-422).   *)
THEOREM KeysInSync == KbdSpec => []InSync
<1>1. DecoderInv => InSync
  <2> SUFFICES ASSUME DecoderInv PROVE InSync
    BY Zenon
  <2>1. Dec!TypeOK
    BY Zenon DEF DecoderInv
  <2>2. ASSUME driver # "i386", wire = << >>
        PROVE  key_pressed \ {Dec!FakeShift} = held /\ ~e0_prefix
    <3>1. Len(wire) = 0 /\ SyncOn(wire, e0_prefix, key_pressed, held)
      BY <2>2, Zenon DEF DecoderInv
    <3>2. ~e0_prefix /\ \A k \in KeyCodes : k \in key_pressed <=> k \in held
      BY <3>1 DEF SyncOn, WireEnds
    <3> QED
      BY <2>1, <3>2, FakeIsNoKey, Zenon DEF Dec!TypeOK
  <2> QED
    BY <2>1, <2>2, Zenon DEF InSync, Dec!InSync
<1> QED
  BY <1>1, KeyboardKept, PTL

(* A character is upper case exactly if a shift was held when its key was  *)
(* pressed, unless the last byte taken for a shift's was the release of    *)
(* one with the other held or, by the older driver, a fake shift           *)
(* (ps2k.c:122-132, keyboard.c:425-434, i386 keyboard.c:392-397).          *)
THEOREM CaseFollowsShift == KbdSpec => []CaseIsShift
<1>1. DecoderInv => CaseIsShift
  BY Zenon DEF DecoderInv, CaseIsShift
<1> QED
  BY <1>1, KeyboardKept, PTL

(* The same of the driver with the timer running beside it, which the      *)
(* composition leaves out.                                                 *)
THEOREM DecodesUnderTimer == Dec!Spec => [](Dec!InSync /\ Dec!CaseIsShift)
<1>1. DecoderInv => Dec!InSync /\ Dec!CaseIsShift
  <2> SUFFICES ASSUME DecoderInv PROVE Dec!InSync
    BY Zenon DEF DecoderInv
  <2>1. ASSUME driver # "i386", wire = << >>
        PROVE  key_pressed \ {Dec!FakeShift} = held /\ ~e0_prefix
    <3>1. Len(wire) = 0 /\ SyncOn(wire, e0_prefix, key_pressed, held)
      BY <2>1, Zenon DEF DecoderInv
    <3>2. ~e0_prefix /\ \A k \in KeyCodes : k \in key_pressed <=> k \in held
      BY <3>1 DEF SyncOn, WireEnds
    <3> QED
      BY <3>2, FakeIsNoKey, Zenon DEF DecoderInv, Dec!TypeOK
  <2> QED
    BY <2>1, Zenon DEF Dec!InSync
<1> QED
  BY <1>1, DecoderStart, DecoderKept, PTL DEF Dec!Spec

-----------------------------------------------------------------------------
(* On the way to the driver: nothing, one byte, or two bytes.              *)
Nothing == owed = << >> /\ obuf = << >>

One(a) == \/ owed = <<a>> /\ obuf = << >>
          \/ owed = << >> /\ obuf = <<a>>

Two(a, b) == \/ owed = <<a, b>> /\ obuf = << >>
             \/ owed = <<b>> /\ obuf = <<a>>
             \/ owed = << >> /\ obuf = <<a, b>>

(* The first byte and the rest of what is on the way.                      *)
LEMMA Tuples ==
  \A a, b \in Bytes :
    /\ Head(<<a>>) = a /\ Tail(<<a>>) = << >> /\ Append(<< >>, a) = <<a>>
    /\ Head(<<a, b>>) = a /\ Tail(<<a, b>>) = <<b>> /\ Append(<<a>>, b) = <<a, b>>
<1> SUFFICES ASSUME NEW a \in Bytes, NEW b \in Bytes
             PROVE  /\ Head(<<a>>) = a /\ Tail(<<a>>) = << >> /\ Append(<< >>, a) = <<a>>
                    /\ Head(<<a, b>>) = a /\ Tail(<<a, b>>) = <<b>>
                    /\ Append(<<a>>, b) = <<a, b>>
  BY Zenon
<1>1. Head(<<a>>) = a /\ Head(<<a, b>>) = a
  OBVIOUS
<1>2. Tail(<<a>>) = << >>
  OBVIOUS
<1>3. Tail(<<a, b>>) = <<b>>
  OBVIOUS
<1>4. Append(<< >>, a) = <<a>>
  OBVIOUS
<1>5. Append(<<a>>, b) = <<a, b>>
  <2>1. <<a>> \in Seq(Bytes) /\ <<a, b>> \in Seq(Bytes) /\ Len(<<a>>) = 1
        /\ <<a>>[1] = a /\ Len(<<a, b>>) = 2 /\ <<a, b>>[1] = a /\ <<a, b>>[2] = b
    OBVIOUS
  <2>2. /\ Append(<<a>>, b) \in Seq(Bytes) /\ Len(Append(<<a>>, b)) = 2
        /\ Append(<<a>>, b)[1] = a /\ Append(<<a>>, b)[2] = b
    BY <2>1, AppendProperties
  <2> DEFINE s == Append(<<a>>, b)
             u == <<a, b>>
  <2>3. /\ s \in Seq(Bytes) /\ u \in Seq(Bytes) /\ Len(s) = 2 /\ Len(u) = 2
        /\ s[1] = u[1] /\ s[2] = u[2]
    BY <2>1, <2>2, Zenon
  <2> SUFFICES s = u
    BY Zenon
  <2> HIDE DEF s, u
  <2>4. \A i \in 1 .. Len(s) : s[i] = u[i]
    BY <2>3
  <2> QED
    BY <2>3, <2>4, SeqEqual, Zenon
<1> QED
  BY <1>1, <1>2, <1>3, <1>4, <1>5, Zenon

(* The stage of each command by its number.                                *)
LEMMA StagesAre ==
  /\ Len(Stages) = 7
  /\ Stages[1] = "disable" /\ Stages[2] = "config" /\ Stages[3] = "selftest"
  /\ Stages[4] = "porttest" /\ Stages[5] = "reset" /\ Stages[6] = "bat"
  /\ Stages[7] = "scan"
  BY Zenon DEF Stages

(* What each stage accepts (ps2k.c:166-269).                               *)
LEMMA AcceptedAre ==
  \A b : /\ Accepted("config", b) /\ Accepted("porttest", b)
         /\ Accepted("selftest", "55") /\ Accepted("reset", "FA")
         /\ Accepted("bat", "AA") /\ Accepted("scan", "FA")
  BY Zenon DEF Accepted

(* Up to the configuration byte, with answers that are right or late: what *)
(* is on the way is the byte asked for.                                    *)
ConfigInv ==
  /\ stage \in 1 .. 7 /\ waiting \in BOOLEAN
  /\ ~faulty =>
       /\ config \in {"none", "cfg"}
       /\ stage = 1 => ~waiting /\ owed = << >> /\ (obuf = << >> \/ \E b \in Stale : obuf = <<b>>)
       /\ stage = 2 => IF waiting THEN One("cfg") ELSE Nothing

(* All the way, with answers that are right and in time.                   *)
PromptInv ==
  ~faulty /\ timed_out = {} =>
    /\ outcome = "ready" => Nothing
    /\ outcome \notin {"panic", "halted"}
    /\ outcome = "running" =>
         /\ stage = 3 => IF waiting THEN One("55") ELSE Nothing
         /\ stage = 4 => IF waiting THEN One("00") ELSE Nothing
         /\ stage = 5 => IF waiting THEN Two("FA", "AA") ELSE Nothing
         /\ stage = 6 => One("AA")
         /\ stage = 7 => IF waiting THEN One("FA") ELSE Nothing

(* The flush takes the byte left at boot (ps2k.c:159-164).                 *)
LEMMA DisableStep ==
  ASSUME ConfigInv, PromptInv, disable_ports
  PROVE  ConfigInv' /\ PromptInv'
<1>1. stage = 1
  BY StagesAre DEF disable_ports, Current, ConfigInv
<1>2. stage' = 2 /\ outcome' = outcome
  BY <1>1, StagesAre DEF disable_ports, Advance, Current
<1>3. ~faulty => obuf' = << >>
  BY <1>1 DEF ConfigInv, disable_ports
<1> QED
  BY <1>1, <1>2, <1>3 DEF disable_ports, ConfigInv, PromptInv, Nothing

(* A command starts with nothing on the way, and is owed its answer        *)
(* (ps2k.c:166-269).                                                       *)
LEMMA SendStep ==
  ASSUME ConfigInv, PromptInv, send_command
  PROVE  ConfigInv' /\ PromptInv'
<1>1. stage \in 2 .. 7 /\ outcome = "running" /\ ~waiting /\ waiting'
  BY StagesAre DEF send_command, Current, Asking, ConfigInv
<1>2. UNCHANGED <<stage, config, outcome, obuf, timed_out>>
  BY Zenon DEF send_command
<1>3. ASSUME ~faulty'
      PROVE  ~faulty /\ owed' = IF stage = 6 THEN owed ELSE owed \o Answer(Current)
  <2>1. stage = 6 <=> Current = "bat"
    BY <1>1, StagesAre DEF Current
  <2>2. Current = "bat" => Current \notin Asking
    BY Zenon DEF Asking
  <2> QED
    BY <1>3, <2>1, <2>2 DEF send_command
<1>4. /\ stage = 2 => Answer(Current) = <<"cfg">>
      /\ stage = 3 => Answer(Current) = <<"55">>
      /\ stage = 4 => Answer(Current) = <<"00">>
      /\ stage = 5 => Answer(Current) = <<"FA", "AA">>
      /\ stage = 7 => Answer(Current) = <<"FA">>
  BY StagesAre, Zenon DEF Answer, Current
<1>5. ConfigInv'
  BY <1>1, <1>2, <1>3, <1>4 DEF ConfigInv, Nothing, One
<1>6. ASSUME ~faulty', timed_out' = {} PROVE PromptInv'
  <2>1. /\ ~faulty /\ timed_out = {} /\ outcome' = "running" /\ waiting' /\ ~waiting
        /\ stage' = stage /\ obuf' = obuf
    BY <1>1, <1>2, <1>3, <1>6, Zenon
  <2>2. CASE stage = 2
    BY <2>1, <2>2 DEF PromptInv
  <2>3. CASE stage = 6
    BY <1>1, <1>3, <1>6, <2>1, <2>3 DEF PromptInv, One
  <2>4. CASE stage \in {3, 4, 5, 7}
    <3>1. owed = << >> /\ obuf = << >>
      BY <1>1, <2>1, <2>4, Zenon DEF PromptInv, Nothing
    <3>2. owed' = Answer(Current)
      BY <1>3, <1>4, <1>6, <2>4, <3>1
    <3> QED
      BY <1>4, <2>1, <2>4, <3>1, <3>2 DEF PromptInv, One, Two
  <2> QED
    BY <1>1, <2>2, <2>3, <2>4
<1> QED
  BY <1>5, <1>6, Zenon DEF PromptInv

(* The driver reads the answer to the command, accepts it and goes on      *)
(* (ps2k.c:97-105, 166-269).                                               *)
LEMMA ReadStep ==
  ASSUME ConfigInv, PromptInv, NEW fatal, read_answer(fatal)
  PROVE  ConfigInv' /\ PromptInv'
<1>1. /\ outcome = "running" /\ waiting /\ obuf # << >> /\ obuf' = Tail(obuf) /\ ~waiting'
      /\ UNCHANGED <<owed, faulty, timed_out>>
  BY Zenon DEF read_answer
<1>2. stage \in 1 .. 7 /\ (~faulty => stage # 1)
  BY <1>1, Zenon DEF ConfigInv
<1>3. stage' \in 1 .. 7 /\ (stage' = 1 => stage = 1) /\ (stage' = 2 => stage \in {1, 2})
  BY <1>2, StagesAre DEF read_answer, Advance
<1>4. stage = 2 => stage' = 3 /\ outcome' = "running" /\ config' = Head(obuf)
  <2>1. ASSUME stage = 2 PROVE Current = "config" /\ Accepted(Current, Head(obuf))
    BY <2>1, StagesAre, AcceptedAre, Zenon DEF Current
  <2> QED
    BY <1>1, <2>1, StagesAre DEF read_answer, Advance
<1>5. stage # 2 => config' = config
  BY <1>2, StagesAre DEF read_answer, Current
<1>6. ASSUME ~faulty, stage = 2
      PROVE  Head(obuf) = "cfg" /\ obuf' = << >> /\ owed = << >>
  BY <1>1, <1>6 DEF ConfigInv, One
<1>7. ConfigInv'
  <2>1. ~faulty => config' \in {"none", "cfg"}
    BY <1>4, <1>5, <1>6, Zenon DEF ConfigInv
  <2>2. ~faulty => stage' # 1 /\ stage' # 2
    BY <1>2, <1>3, <1>4
  <2>3. faulty' = faulty /\ waiting' = FALSE
    BY Zenon DEF read_answer
  <2> QED
    BY <1>3, <2>1, <2>2, <2>3, Zenon DEF ConfigInv
<1>8. ASSUME ~faulty, timed_out = {} PROVE PromptInv'
  <2>1. CASE stage = 2
    BY <1>1, <1>4, <1>6, <1>8, <2>1 DEF PromptInv, Nothing
  <2>2. ASSUME stage \in {3, 4, 6, 7}
        PROVE  /\ obuf' = << >> /\ owed = << >>
               /\ stage = 3 => Head(obuf) = "55"
               /\ stage = 6 => Head(obuf) = "AA"
               /\ stage = 7 => Head(obuf) = "FA"
    <3>1. \A a \in Bytes : One(a) => obuf' = << >> /\ owed = << >> /\ Head(obuf) = a
      BY <1>1, Tuples, Zenon DEF One
    <3>2. /\ stage = 3 => One("55")
          /\ stage = 4 => One("00")
          /\ stage = 6 => One("AA")
          /\ stage = 7 => One("FA")
      BY <1>1, <1>8, Zenon DEF PromptInv
    <3> QED
      BY <2>2, <3>1, <3>2, Zenon DEF Bytes
  <2>3. ASSUME stage = 5
        PROVE  Head(obuf) = "FA" /\ (\/ obuf' = << >> /\ owed = <<"AA">>
                                     \/ obuf' = <<"AA">> /\ owed = << >>)
    BY <1>1, <1>8, <2>3, Tuples, ZenonT(60) DEF PromptInv, Two, Bytes
  <2>4. ASSUME stage \in 3 .. 7 PROVE Accepted(Current, Head(obuf))
    BY <2>2, <2>3, <2>4, StagesAre, AcceptedAre DEF Current
  <2>5. ASSUME stage \in 3 .. 6 PROVE stage' = stage + 1 /\ outcome' = "running"
    BY <1>1, <2>4, <2>5, StagesAre DEF read_answer, Advance
  <2>6. ASSUME stage = 7 PROVE stage' = 7 /\ outcome' = "ready"
    BY <1>1, <2>4, <2>6, StagesAre DEF read_answer, Advance, Current
  <2>7. CASE stage \in {3, 4, 6}
    BY <1>1, <2>2, <2>5, <2>7 DEF PromptInv, Nothing
  <2>8. CASE stage = 5
    BY <1>1, <2>3, <2>5, <2>8 DEF PromptInv, One
  <2>9. CASE stage = 7
    BY <1>1, <2>2, <2>6, <2>9, Zenon DEF PromptInv, Nothing
  <2> QED
    BY <1>2, <1>8, <2>1, <2>7, <2>8, <2>9
<1> QED
  BY <1>1, <1>7, <1>8, Zenon DEF PromptInv

(* A wait that ends is recorded; the command is skipped (ps2k.c:97-105).   *)
LEMMA GiveUpStep ==
  ASSUME ConfigInv, PromptInv, give_up
  PROVE  ConfigInv' /\ PromptInv'
<1>1. timed_out' # {}
  BY Zenon DEF give_up
<1>2. ~faulty => stage # 1
  BY Zenon DEF give_up, ConfigInv
<1>3. stage \in 1 .. 7 /\ stage' \in 1 .. 7 /\ ~waiting' /\ (stage' \in {1, 2} => stage = 1)
  BY StagesAre DEF give_up, Advance, Current, ConfigInv
<1> QED
  BY <1>1, <1>2, <1>3, Zenon DEF give_up, ConfigInv, PromptInv

(* The controller moves a byte it owes into its buffer.                    *)
LEMMA AnswerStep ==
  ASSUME ConfigInv, PromptInv, ctl_answer
  PROVE  ConfigInv' /\ PromptInv'
<1>1. /\ owed # << >> /\ obuf' = Append(obuf, Head(owed)) /\ owed' = Tail(owed)
      /\ UNCHANGED <<source, stage, waiting, config, outcome, faulty, timed_out>>
  BY Zenon DEF ctl_answer
<1>2. ~Nothing
  BY <1>1, Zenon DEF Nothing
<1>3. \A a \in Bytes : One(a) => One(a)'
  BY <1>1, Tuples, Zenon DEF One
<1>4. \A a, b \in Bytes : Two(a, b) => Two(a, b)'
  <2> SUFFICES ASSUME NEW a \in Bytes, NEW b \in Bytes, Two(a, b) PROVE Two(a, b)'
    BY Zenon
  <2>1. CASE owed = <<a, b>> /\ obuf = << >>
    BY <1>1, <2>1, Tuples, Zenon DEF Two
  <2>2. CASE owed = <<b>> /\ obuf = <<a>>
    BY <1>1, <2>2, Tuples, Zenon DEF Two
  <2> QED
    BY <1>1, <2>1, <2>2, Zenon DEF Two
<1>5. ConfigInv'
  BY <1>1, <1>2, <1>3, Zenon DEF ConfigInv, Bytes
<1>6. PromptInv'
  BY <1>1, <1>2, <1>3, <1>4, Zenon DEF PromptInv, Bytes
<1> QED
  BY <1>5, <1>6, Zenon

(* Both invariants hold in the three drivers, whatever the controller does. *)
LEMMA InitInvariant == CtlSpec => [](ConfigInv /\ PromptInv)
<1>1. CtlInit => ConfigInv /\ PromptInv
  <2> SUFFICES ASSUME CtlInit PROVE ConfigInv /\ PromptInv
    BY Zenon
  <2>1. obuf = << >> \/ \E b \in Stale : obuf = <<b>>
    BY Zenon DEF CtlInit
  <2>2. /\ stage = 1 /\ waiting = FALSE /\ config = "none" /\ outcome = "running"
        /\ owed = << >>
    BY Zenon DEF CtlInit
  <2>3. ~waiting /\ waiting \in BOOLEAN
    BY <2>2, Zenon
  <2>4. ConfigInv
    BY <2>1, <2>2, <2>3 DEF ConfigInv
  <2>5. PromptInv
    BY <2>2 DEF PromptInv
  <2> QED
    BY <2>4, <2>5, Zenon
<1>2. ConfigInv /\ PromptInv /\ [CtlNext]_ctl_vars => (ConfigInv /\ PromptInv)'
  <2> SUFFICES ASSUME ConfigInv, PromptInv, [CtlNext]_ctl_vars PROVE ConfigInv' /\ PromptInv'
    BY Zenon
  <2>1. CASE disable_ports
    BY <2>1, DisableStep, Zenon
  <2>2. CASE send_command
    BY <2>2, SendStep, Zenon
  <2>3. ASSUME NEW fatal, read_answer(fatal) PROVE ConfigInv' /\ PromptInv'
    BY <2>3, ReadStep, Zenon
  <2>4. CASE give_up
    BY <2>4, GiveUpStep, Zenon
  <2>5. CASE ctl_answer
    BY <2>5, AnswerStep, Zenon
  <2>6. CASE UNCHANGED ctl_vars
    BY <2>6, Zenon DEF ctl_vars, ConfigInv, PromptInv, Nothing, One, Two
  <2> QED
    BY <2>1, <2>2, <2>3, <2>4, <2>5, <2>6, Zenon
       DEF CtlNext, Driver, init_ps2k_driver, init_ps2_controller, init_ps2_controller_i386, Steps,
           finished
<1> QED
  BY <1>1, <1>2, PTL DEF CtlSpec

(* The configuration byte written back is never a byte left over from      *)
(* before, whatever those bytes are (ps2k.c:168-186).                      *)
THEOREM ConfigReported == CtlSpec => []ConfigIsReported
<1>1. ConfigInv => ConfigIsReported
  BY Zenon DEF ConfigInv, ConfigIsReported
<1> QED
  BY <1>1, InitInvariant, PTL

(* The initialisation fails only after a wrong, missing or late answer     *)
(* (ps2k.c:191-269, keyboard.c:309-395).                                   *)
THEOREM PanicCaused == CtlSpec => []PanicHasACause
<1>1. PromptInv => PanicHasACause
  BY Zenon DEF PromptInv, PanicHasACause, Nothing
<1> QED
  BY <1>1, InitInvariant, PTL

(* Every byte on the way is one the controller can send or was left there. *)
LEMMA BytesTyped == CtlSpec => []CtlTypeOK
<1>1. CtlInit => CtlTypeOK
  <2> SUFFICES ASSUME CtlInit PROVE CtlTypeOK
    BY Zenon
  <2>1. owed \in Seq(Bytes)
    BY DEF CtlInit
  <2>2. obuf \in Seq(Bytes \cup Stale)
    <3>1. CASE obuf = << >>
      BY <3>1
    <3>2. ASSUME NEW b \in Stale, obuf = <<b>> PROVE obuf \in Seq(Bytes \cup Stale)
      <4>1. b \in Bytes \cup Stale
        BY Zenon
      <4> QED
        BY <3>2, <4>1
    <3> QED
      BY <3>1, <3>2, Zenon DEF CtlInit
  <2>3. waiting \in BOOLEAN /\ faulty \in BOOLEAN
    BY Zenon DEF CtlInit
  <2> QED
    BY <2>1, <2>2, <2>3, StagesAre DEF CtlInit, CtlTypeOK
<1>2. CtlTypeOK /\ [CtlNext]_ctl_vars => CtlTypeOK'
  <2> SUFFICES ASSUME CtlTypeOK, [CtlNext]_ctl_vars PROVE CtlTypeOK'
    BY Zenon
  <2>0. /\ stage \in 1 .. 7 /\ owed \in Seq(Bytes) /\ obuf \in Seq(Bytes \cup Stale)
        /\ outcome \in {"running", "ready", "panic", "halted"}
    BY StagesAre, Zenon DEF CtlTypeOK
  <2>1. ASSUME NEW answered, Advance(answered)
        PROVE  stage' \in 1 .. Len(Stages) /\ outcome' \in {"running", "ready", "panic", "halted"}
    BY <2>0, <2>1, StagesAre DEF Advance
  <2>2. CASE disable_ports
    <3>1. obuf' \in Seq(Bytes \cup Stale)
      BY <2>0, <2>2 DEF disable_ports
    <3> QED
      BY <2>1, <2>2, <3>1, Zenon DEF disable_ports, CtlTypeOK
  <2>3. CASE send_command
    <3>1. owed' \in Seq(Bytes)
      <4>1. ASSUME Current \in Asking PROVE Answer(Current) \in Seq(Bytes)
        <5>1. /\ <<"cfg">> \in Seq(Bytes) /\ <<"55">> \in Seq(Bytes) /\ <<"00">> \in Seq(Bytes)
              /\ <<"FA", "AA">> \in Seq(Bytes) /\ <<"FA">> \in Seq(Bytes)
          BY DEF Bytes
        <5> QED
          BY <4>1, <5>1, Zenon DEF Asking, Answer
      <4>2. <<"bad">> \in Seq(Bytes)
        BY DEF Bytes
      <4> QED
        <5>1. \/ owed' = owed
              \/ Current \in Asking /\ owed' = owed \o Answer(Current)
              \/ owed' = owed \o <<"bad">>
          BY <2>3, Zenon DEF send_command
        <5>2. \A s \in Seq(Bytes) : owed \o s \in Seq(Bytes)
          BY <2>0
        <5> QED
          BY <2>0, <4>1, <4>2, <5>1, <5>2, Zenon
    <3>2. faulty' \in BOOLEAN /\ waiting' \in BOOLEAN
      BY <2>3, Zenon DEF send_command, CtlTypeOK
    <3> QED
      BY <2>3, <3>1, <3>2, Zenon DEF send_command, CtlTypeOK
  <2>4. ASSUME NEW fatal \in {"panic", "halted"}, read_answer(fatal) PROVE CtlTypeOK'
    <3>1. obuf' \in Seq(Bytes \cup Stale) /\ Head(obuf) \in Bytes \cup Stale
      BY <2>0, <2>4 DEF read_answer
    <3>2. stage' \in 1 .. Len(Stages) /\ outcome' \in {"running", "ready", "panic", "halted"}
      BY <2>0, <2>1, <2>4, StagesAre, Zenon DEF read_answer
    <3>3. waiting' \in BOOLEAN
      BY <2>4, Zenon DEF read_answer
    <3> QED
      BY <2>4, <3>1, <3>2, <3>3, Zenon DEF read_answer, CtlTypeOK
  <2>5. CASE give_up
    <3>1. Current \in {Stages[i] : i \in 1 .. Len(Stages)}
      BY <2>0, StagesAre, Zenon DEF Current
    <3>2. waiting' \in BOOLEAN
      BY <2>5, Zenon DEF give_up
    <3> QED
      BY <2>1, <2>5, <3>1, <3>2, Zenon DEF give_up, CtlTypeOK
  <2>6. CASE ctl_answer
    <3>1. obuf' \in Seq(Bytes \cup Stale) /\ owed' \in Seq(Bytes)
      BY <2>0, <2>6 DEF ctl_answer
    <3> QED
      BY <2>6, <3>1, Zenon DEF ctl_answer, CtlTypeOK
  <2>7. CASE UNCHANGED ctl_vars
    BY <2>7, Zenon DEF ctl_vars, CtlTypeOK
  <2> QED
    BY <2>2, <2>3, <2>4, <2>5, <2>6, <2>7, Zenon
       DEF CtlNext, Driver, init_ps2k_driver, init_ps2_controller, init_ps2_controller_i386, Steps,
           finished
<1> QED
  BY <1>1, <1>2, PTL DEF CtlSpec

(* Both together, of the three drivers and any controller.                 *)
THEOREM AnswersTaken == CtlSpec => []ControllerAnswers
<1>1. CtlTypeOK /\ PanicHasACause /\ ConfigIsReported => ControllerAnswers
  BY Zenon DEF ControllerAnswers
<1> QED
  BY <1>1, BytesTyped, PanicCaused, ConfigReported, PTL
=============================================================================
