---------------------------- MODULE DeviceProofs ----------------------------
(***************************************************************************)
(* The sound card plays the clip and nothing else, for a ring of any size, *)
(* any buffers and clips, and whenever interrupts are served.  The refills *)
(* due - the one the handler is at, and one for a completion it has not    *)
(* read - never exceed the free slots of the ring, so a refill lands       *)
(* behind what is still to be played.                                      *)
(*                                                                         *)
(* No wait ends early, for counters of any width and any frequencies.      *)
(* While the counter has not gone all the way round since the call, the    *)
(* difference that sleep_ms() and timeout() compute is the count since     *)
(* then, and uACPI's scaled clock has advanced by no more than the count   *)
(* scaled.                                                                 *)
(***************************************************************************)
EXTENDS Clocks, Ac97, FiniteSetTheorems, TLAPS

(* The slots from i up to j, going round.                                  *)
Gap(i, j) == IF i <= j THEN j - i ELSE j - i + NUM_BDL_ENTRIES

Ahead(i) == Gap(civ, i) <= Gap(civ, lvi)

(* Where the descriptors posted so far end.                                *)
Posted == IF handler = "post" THEN ring_buffer[last_valid_index].addr ELSE audio_cur_pos

(* A descriptor holds a piece of the clip, and not an empty one of a clip  *)
(* of whole frames.                                                        *)
Piece(c, e) == /\ c[1] <= e.addr /\ End(e) <= c[2]
               /\ (c[2] - c[1]) % 4 = 0 => e.samples > 0

(* Refills that are due: one that the handler is at, and one for a         *)
(* completion it has not read.                                             *)
Refilling == handler \in {"refill", "post"} \/ (handler = "ack" /\ "BCIS" \in status)
Unread == "BCIS" \in sr /\ ~(handler = "ack" /\ "BCIS" \in status)
Wanted == (IF Refilling THEN 1 ELSE 0) + (IF Unread THEN 1 ELSE 0)
Free == IF halted THEN NUM_BDL_ENTRIES ELSE NUM_BDL_ENTRIES - 1 - Gap(civ, lvi)

Clip(c) == c = <<c[1], c[2]>> /\ c[1] \in Nat /\ c[2] \in Nat

Stopped ==
  ~run => sr = {} /\ halted /\ (handler = "none" \/ (handler = "ack" /\ status = {}))

Starting ==
  /\ pc # "idle" => clip[1] < clip[2]
  /\ pc \in {"clear", "fill", "lvi", "run"} =>
       ~run /\ civ = 0 /\ sounding = clip /\ heard = clip[1]
  /\ pc \in {"lvi", "run"} =>
       /\ bdl_entries_filled = entries_filled(clip[1], clip[2])
       /\ audio_cur_pos = position_after(clip[1], clip[2]) /\ audio_data_end = clip[2]
       /\ \A i \in Slot : i < bdl_entries_filled =>
             ring_buffer[i] = Chunk(ChunkStart(clip[1], i), clip[2])
  /\ pc = "run" => /\ bdl_entries_filled > 0
                   /\ lvi = bdl_entries_filled - 1 /\ last_valid_index = lvi

(* The driver's position in the clip, and the handler's refill.            *)
Supplied ==
  run =>
    /\ audio_data_end = sounding[2] /\ sounding[1] <= audio_cur_pos
    /\ audio_cur_pos <= audio_data_end
    /\ WholeFrames => (audio_data_end - audio_cur_pos) % 4 = 0
    /\ last_valid_index = IF handler = "post" THEN next_slot(lvi) ELSE lvi
    /\ handler = "post" => /\ Piece(sounding, ring_buffer[last_valid_index])
                           /\ End(ring_buffer[last_valid_index]) = audio_cur_pos
    /\ handler = "refill" => "BCIS" \in status /\ audio_cur_pos < audio_data_end
    /\ handler = "ack" /\ "BCIS" \in status => "BCIS" \in sr

(* The descriptors ahead of the controller.                                *)
Chained ==
  /\ run /\ halted => civ = lvi /\ heard = Posted
  /\ run /\ ~halted => /\ ring_buffer[civ].addr = heard
                       /\ End(ring_buffer[lvi]) = Posted
  /\ run /\ ~halted => \A i \in Slot : Ahead(i) =>
                         /\ Piece(sounding, ring_buffer[i])
                         /\ i # lvi => ring_buffer[next_slot(i)].addr = End(ring_buffer[i])

(* There is room for every refill that is due.                             *)
Room == run => Wanted <= Free

SoundInv ==
  /\ SndTypeOK /\ Clip(clip) /\ Clip(sounding)
  /\ Stopped /\ Starting /\ Supplied /\ Chained /\ Room /\ DryIsRefilled
-----------------------------------------------------------------------------
(* The remainder is the only one in range.                                 *)
LEMMA Remainder ==
  ASSUME NEW w \in Nat \ {0}, NEW q \in Int, NEW r \in 0 .. w - 1
  PROVE  (w * q + r) % w = r
OBVIOUS

(* Going round once.                                                       *)
LEMMA Around ==
  ASSUME NEW w \in Nat \ {0}, NEW a \in 0 .. w - 1
  PROVE  a % w = a /\ (a + w) % w = a /\ (a - w) % w = a
<1>1. a = w * 0 + a /\ a + w = w * 1 + a /\ a - w = w * (-1) + a
  OBVIOUS
<1> QED
  BY <1>1, Remainder

(* The slot after another.                                                 *)
LEMMA NextSlot ==
  ASSUME NEW i \in Slot
  PROVE  /\ next_slot(i) = IF i = NUM_BDL_ENTRIES - 1 THEN 0 ELSE i + 1
         /\ next_slot(i) \in Slot
<1>1. CASE i = NUM_BDL_ENTRIES - 1
  <2>1. i + 1 = 0 + NUM_BDL_ENTRIES /\ 0 \in 0 .. NUM_BDL_ENTRIES - 1
    BY <1>1, SoundAssumption DEF Slot
  <2> QED
    BY <1>1, <2>1, Around, SoundAssumption DEF next_slot, Slot
<1>2. CASE i # NUM_BDL_ENTRIES - 1
  <2>1. i + 1 \in 0 .. NUM_BDL_ENTRIES - 1
    BY <1>2, SoundAssumption DEF Slot
  <2> QED
    BY <1>2, <2>1, Around, SoundAssumption, Zenon DEF next_slot, Slot
<1> QED
  BY <1>1, <1>2, Zenon

(* Distances round the ring.                                               *)
LEMMA Gaps ==
  ASSUME NEW i \in Slot, NEW j \in Slot
  PROVE  /\ Gap(i, j) \in 0 .. NUM_BDL_ENTRIES - 1
         /\ Gap(i, j) = 0 <=> i = j
         /\ i # j => Gap(next_slot(i), j) = Gap(i, j) - 1
         /\ Gap(i, j) < NUM_BDL_ENTRIES - 1 => /\ Gap(i, next_slot(j)) = Gap(i, j) + 1
                                               /\ next_slot(j) # i
<1>1. /\ next_slot(i) = IF i = NUM_BDL_ENTRIES - 1 THEN 0 ELSE i + 1
      /\ next_slot(j) = IF j = NUM_BDL_ENTRIES - 1 THEN 0 ELSE j + 1
  BY NextSlot, Zenon
<1> QED
  BY <1>1, SoundAssumption DEF Gap, Slot

(* A slot is found by its distance.                                        *)
LEMMA SameGap ==
  ASSUME NEW i \in Slot, NEW j \in Slot, NEW k \in Slot, Gap(i, j) = Gap(i, k)
  PROVE  j = k
BY SoundAssumption DEF Gap, Slot

(* samples_in_chunk(): a piece of what is left, empty only if less than a  *)
(* frame is.                                                               *)
LEMMA ChunkIs ==
  ASSUME NEW pos \in Nat, NEW end \in Nat, pos <= end
  PROVE  /\ Chunk(pos, end) \in Descriptor /\ Chunk(pos, end).addr = pos
         /\ pos <= End(Chunk(pos, end)) /\ End(Chunk(pos, end)) <= end
         /\ end - pos >= 4 => Chunk(pos, end).samples > 0
         /\ (end - pos) % 4 = 0 => (end - End(Chunk(pos, end))) % 4 = 0
         /\ (end - pos) % 4 = 0 /\ pos < end => end - pos >= 4
         /\ end - pos >= AC97_MAX_SAMPLES_PER_ENTRY * 2 =>
              End(Chunk(pos, end)) = pos + AC97_MAX_SAMPLES_PER_ENTRY * 2
<1> DEFINE x == end - pos
           s == samples_in_chunk(pos, end)
           M == AC97_MAX_SAMPLES_PER_ENTRY
<1>1. x \in Nat /\ M \in Nat /\ M >= 2 /\ M = 2 * (M \div 2) /\ M \div 2 \in Nat
  BY SoundAssumption
<1>2. x = 4 * (x \div 4) + (x % 4) /\ x % 4 \in 0 .. 3 /\ x \div 4 \in Nat
  BY <1>1
<1>3. s = IF x >= M * 2 THEN M ELSE (x \div 4) * 2
  BY Zenon DEF samples_in_chunk
<1>4. Chunk(pos, end).addr = pos /\ Chunk(pos, end).samples = s /\ End(Chunk(pos, end)) = pos + 2 * s
  BY Zenon DEF Chunk, End
<1> HIDE DEF s
<1>5. s \in 0 .. M /\ 2 * s <= x /\ (x >= 4 => s > 0)
  BY <1>1, <1>2, <1>3
<1>6. x % 4 = 0 => (x - 2 * s) % 4 = 0
  BY <1>1, <1>2, <1>3
<1>7. Chunk(pos, end) \in Descriptor
  BY <1>5, Zenon DEF Chunk, Descriptor, s
<1>8. end - End(Chunk(pos, end)) = x - 2 * s
  BY <1>4, <1>5
<1> QED
  BY <1>1, <1>2, <1>3, <1>4, <1>5, <1>6, <1>7, <1>8
(* Multiples up to a bound.                                                *)
LEMMA Multiples ==
  ASSUME NEW w \in Nat \ {0}, NEW y \in Nat
  PROVE  /\ y \div w \in Nat
         /\ \A i \in Nat : i * w <= y <=> i <= y \div w
<1> DEFINE q == y \div w
           r == y % w
<1>1. q \in Nat /\ r \in 0 .. w - 1 /\ y = w * q + r
  OBVIOUS
<1> HIDE DEF q, r
<1>2. ASSUME NEW i \in Nat, i <= q
      PROVE  i * w <= y
  <2>1. PICK k \in Nat : q = i + k
    BY <1>1, <1>2
  <2>2. w * q = i * w + w * k /\ w * k \in Nat
    BY <2>1
  <2> QED
    BY <1>1, <2>2
<1>3. ASSUME NEW i \in Nat, i > q
      PROVE  i * w > y
  <2>1. PICK k \in Nat : i = q + 1 + k
    <3>1. i - q - 1 \in Nat /\ i = q + 1 + (i - q - 1)
      BY <1>1, <1>3
    <3> QED
      BY <3>1, Zenon
  <2>2. i * w = w * q + w + w * k /\ w * k \in Nat /\ w * q \in Nat
    BY <1>1, <2>1
  <2> QED
    BY <1>1, <2>2
<1>4. ASSUME NEW i \in Nat
      PROVE  i * w <= y <=> i <= q
  <2>1. i * w \in Nat
    OBVIOUS
  <2> QED
    BY <1>1, <1>2, <1>3, <2>1
<1> QED
  BY <1>1, <1>4, Zenon DEF q

(* Where a chunk starts.                                                   *)
LEMMA Starts ==
  ASSUME NEW from \in Nat, NEW i \in Nat
  PROVE  /\ ChunkStart(from, i) \in Nat /\ from <= ChunkStart(from, i)
         /\ ChunkStart(from, i) = from + i * (AC97_MAX_SAMPLES_PER_ENTRY * 2)
         /\ ChunkStart(from, i + 1) = ChunkStart(from, i) + AC97_MAX_SAMPLES_PER_ENTRY * 2
         /\ (ChunkStart(from, i) - from) % 4 = 0
<1> DEFINE M == AC97_MAX_SAMPLES_PER_ENTRY
           h == M \div 2
<1>1. M \in Nat /\ h \in Nat /\ M = 2 * h
  BY SoundAssumption
<1> HIDE DEF h
<1>2. i * M * 2 = 4 * (i * h) /\ i * h \in Nat /\ i * M * 2 = i * (M * 2)
  BY <1>1
<1>3. (4 * (i * h)) % 4 = 0
  BY <1>2
<1>4. (i + 1) * M * 2 = i * M * 2 + M * 2 /\ i * M * 2 \in Nat
  BY <1>1
<1>5. ChunkStart(from, i) = from + i * M * 2 /\ ChunkStart(from, i + 1) = from + (i + 1) * M * 2
  BY Zenon DEF ChunkStart
<1>6. ChunkStart(from, i) - from = 4 * (i * h)
  BY <1>2, <1>4, <1>5
<1> QED
  BY <1>1, <1>2, <1>3, <1>4, <1>5, <1>6

(* The slots the setup loop fills are the first ones.                      *)
LEMMA FilledSlots ==
  ASSUME NEW from \in Nat, NEW end \in Nat
  PROVE  /\ entries_filled(from, end) \in 0 .. NUM_BDL_ENTRIES
         /\ \A i \in Slot : i < entries_filled(from, end) <=> ChunkStart(from, i) + 4 <= end
<1> DEFINE W == AC97_MAX_SAMPLES_PER_ENTRY * 2
           F == {i \in Slot : /\ ChunkStart(from, i) < end
                              /\ samples_in_chunk(ChunkStart(from, i), end) > 0}
<1>1. W \in Nat \ {0} /\ W >= 4 /\ NUM_BDL_ENTRIES \in Nat \ {0}
  BY SoundAssumption
<1>2. ASSUME NEW i \in Slot
      PROVE  /\ ChunkStart(from, i) \in Nat
             /\ ChunkStart(from, i) = from + i * W /\ i * W \in Nat
             /\ i \in F <=> ChunkStart(from, i) + 4 <= end
  <2>1. i \in Nat
    BY <1>1 DEF Slot
  <2>2. ChunkStart(from, i) \in Nat /\ ChunkStart(from, i) = from + i * W /\ i * W \in Nat
    <3>1. i * W \in Nat
      BY <1>1, <2>1
    <3>2. ChunkStart(from, i) \in Nat /\ ChunkStart(from, i) = from + i * W
      BY <2>1, Starts, Zenon
    <3> QED
      BY <3>1, <3>2, Zenon
  <2>3. ASSUME NEW x \in Nat
        PROVE  (x \div 4) * 2 > 0 <=> x >= 4
    OBVIOUS
  <2>4. ASSUME NEW p \in Nat, p < end
        PROVE  samples_in_chunk(p, end) > 0 <=> p + 4 <= end
    <3>1. end - p \in Nat
      BY <2>4
    <3>2. ((end - p) \div 4) * 2 > 0 <=> end - p >= 4
      BY <2>3, <3>1, Zenon
    <3> QED
      BY <1>1, <2>4, <3>1, <3>2, SoundAssumption DEF samples_in_chunk
  <2> QED
    BY <2>2, <2>4
<1>3. entries_filled(from, end) = Cardinality(F)
  BY Zenon DEF entries_filled
<1>e. \A i \in Slot : i \in F <=> ChunkStart(from, i) + 4 <= end
  BY <1>2, Zenon
<1> HIDE DEF F
<1>f. F \subseteq Slot
  BY Zenon DEF F
<1>4. SUFFICES ASSUME NEW m \in Int, F = 0 .. m, m \in -1 .. NUM_BDL_ENTRIES - 1
               PROVE  /\ Cardinality(F) \in 0 .. NUM_BDL_ENTRIES
                      /\ \A i \in Slot : i < Cardinality(F) <=> i \in F
  <2>1. CASE end < from + 4
    <3>1. F = 0 .. -1
      <4>1. \A i \in Slot : i \notin F
        BY <1>2, <2>1
      <4> QED
        BY <1>f, <4>1
    <3>2. -1 \in Int /\ -1 \in -1 .. NUM_BDL_ENTRIES - 1
      BY <1>1
    <3> QED
      BY <1>3, <1>4, <1>e, <3>1, <3>2, Zenon
  <2>2. CASE end >= from + 4
    <3> DEFINE y == end - from - 4
               q == y \div W
    <3>1. y \in Nat
      BY <2>2
    <3>2. q \in Nat /\ \A i \in Nat : i * W <= y <=> i <= q
      BY <1>1, <3>1, Multiples, Zenon
    <3> HIDE DEF q
    <3>3. \A i \in Slot : i \in F <=> i <= q
      <4> SUFFICES ASSUME NEW i \in Slot PROVE i \in F <=> i <= q
        BY Zenon
      <4>1. i \in Nat /\ (i * W <= y <=> i <= q)
        BY <1>1, <3>2 DEF Slot
      <4>2. i * W \in Nat /\ (i \in F <=> from + i * W + 4 <= end)
        BY <1>2, Zenon
      <4> QED
        BY <4>1, <4>2
    <3>q. q \in Nat
      BY <3>2, Zenon
    <3>4. PICK m \in Int : m <= q /\ m <= NUM_BDL_ENTRIES - 1 /\ 0 <= m /\ (m = q \/ m = NUM_BDL_ENTRIES - 1)
      <4>1. CASE q <= NUM_BDL_ENTRIES - 1
        BY <1>1, <3>q, <4>1
      <4>2. CASE q > NUM_BDL_ENTRIES - 1
        BY <1>1, <3>q, <4>2
      <4> QED
        BY <1>1, <3>q, <4>1, <4>2
    <3>5. F = 0 .. m
      <4>1. ASSUME NEW i \in F PROVE i \in 0 .. m
        BY <1>1, <1>f, <3>q, <3>3, <3>4, <4>1 DEF Slot
      <4>2. ASSUME NEW i \in 0 .. m PROVE i \in F
        <5>1. i \in Slot /\ i <= q
          BY <1>1, <3>q, <3>4, <4>2 DEF Slot
        <5> QED
          BY <3>3, <5>1, Zenon
      <4> QED
        BY <4>1, <4>2, Zenon
    <3>6. m \in -1 .. NUM_BDL_ENTRIES - 1
      BY <1>1, <3>4
    <3> QED
      BY <1>3, <1>4, <1>e, <3>4, <3>5, <3>6, Zenon
  <2> QED
    BY <2>1, <2>2
<1>5. Cardinality(F) = m + 1
  <2>1. Cardinality(0 .. m) = IF 0 > m THEN 0 ELSE m - 0 + 1
    <3>1. 0 \in Int /\ m \in Int
      BY <1>4
    <3> QED
      BY <3>1, FS_Interval, Zenon
  <2> QED
    BY <1>4, <2>1, <1>1
<1> QED
  BY <1>1, <1>4, <1>5 DEF Slot

(* A ring filled from the start of a clip: n consecutive pieces, up to p.  *)
FilledUp(from, end, n, p) ==
  /\ n \in 0 .. NUM_BDL_ENTRIES
  /\ ChunkStart(from, 0) = from
  /\ \A i \in Slot : i < n =>
       /\ ChunkStart(from, i) \in Nat /\ from <= ChunkStart(from, i)
       /\ ChunkStart(from, i) + 4 <= end
       /\ Chunk(ChunkStart(from, i), end).samples > 0
       /\ i + 1 < n => ChunkStart(from, i + 1) = End(Chunk(ChunkStart(from, i), end))
  /\ n > 0 => p = End(Chunk(ChunkStart(from, n - 1), end))
  /\ p \in Nat /\ from <= p /\ p <= end
  /\ (end - from) % 4 = 0 => (end - p) % 4 = 0

(* What ac97_setup_bdl() leaves.                                           *)
LEMMA FilledRing ==
  ASSUME NEW from \in Nat, NEW end \in Nat, from < end
  PROVE  FilledUp(from, end, entries_filled(from, end), position_after(from, end))
<1> DEFINE n == entries_filled(from, end)
<1>1. n \in 0 .. NUM_BDL_ENTRIES /\ \A i \in Slot : i < n <=> ChunkStart(from, i) + 4 <= end
  BY FilledSlots, Zenon
<1>p. position_after(from, end) = IF n = 0 THEN from ELSE End(Chunk(ChunkStart(from, n - 1), end))
  BY Zenon DEF position_after, End, Chunk
<1> HIDE DEF n
<1>2. \A i \in Slot : i \in Nat
  BY SoundAssumption DEF Slot
<1>3. ASSUME NEW i \in Slot, i < n
      PROVE  /\ ChunkStart(from, i) \in Nat /\ from <= ChunkStart(from, i)
             /\ ChunkStart(from, i) + 4 <= end
             /\ Chunk(ChunkStart(from, i), end).samples > 0
             /\ i + 1 < n => ChunkStart(from, i + 1) = End(Chunk(ChunkStart(from, i), end))
  <2> DEFINE p == ChunkStart(from, i)
  <2>1. p \in Nat /\ from <= p /\ p + 4 <= end
    BY <1>1, <1>2, <1>3, Starts, Zenon
  <2>2. ChunkStart(from, i + 1) = p + AC97_MAX_SAMPLES_PER_ENTRY * 2
    BY <1>2, Starts, Zenon
  <2>3. i + 1 < n => i + 1 \in Slot
    BY <1>1, <1>2, SoundAssumption DEF Slot
  <2>4. i + 1 < n => ChunkStart(from, i + 1) + 4 <= end
    BY <1>1, <2>3, Zenon
  <2> HIDE DEF p
  <2>5. p <= end /\ end - p >= 4
    BY <2>1
  <2>6. Chunk(p, end).samples > 0
    BY <2>1, <2>5, ChunkIs, Zenon
  <2>7. i + 1 < n => end - p >= AC97_MAX_SAMPLES_PER_ENTRY * 2
    BY <2>1, <2>2, <2>4, SoundAssumption
  <2>8. i + 1 < n => ChunkStart(from, i + 1) = End(Chunk(p, end))
    BY <2>1, <2>2, <2>5, <2>7, ChunkIs, Zenon
  <2> QED
    BY <2>1, <2>6, <2>8, Zenon DEF p
<1>4. ChunkStart(from, 0) = from
  BY SoundAssumption DEF ChunkStart
<1>5. CASE n = 0
  <2>1. position_after(from, end) = from
    BY <1>5, <1>p, Zenon
  <2> QED
    BY <1>1, <1>3, <1>4, <1>5, <2>1 DEF FilledUp, n
<1>6. CASE n > 0
  <2> DEFINE p == ChunkStart(from, n - 1)
  <2>1. n - 1 \in Slot /\ n - 1 < n
    BY <1>1, <1>6, SoundAssumption DEF Slot
  <2>2. p \in Nat /\ from <= p /\ p + 4 <= end
    BY <1>3, <2>1, Zenon
  <2>3. (p - from) % 4 = 0
    BY <1>2, <2>1, Starts, Zenon
  <2>4. position_after(from, end) = End(Chunk(p, end))
    BY <1>1, <1>6, <1>p
  <2> HIDE DEF p
  <2>5. /\ Chunk(p, end) \in Descriptor /\ Chunk(p, end).addr = p
        /\ p <= End(Chunk(p, end)) /\ End(Chunk(p, end)) <= end
        /\ (end - p) % 4 = 0 => (end - End(Chunk(p, end))) % 4 = 0
    BY <2>2, ChunkIs
  <2>6. End(Chunk(p, end)) \in Nat
    BY <2>5, SoundAssumption DEF End, Descriptor
  <2>7. (end - from) % 4 = 0 => (end - p) % 4 = 0
    BY <2>2, <2>3
  <2> QED
    BY <1>1, <1>3, <1>4, <2>2, <2>4, <2>5, <2>6, <2>7 DEF p, FilledUp, n
<1> QED
  BY <1>1, <1>5, <1>6

(* ac97_play() takes its arguments.                                        *)
LEMMA PlayKeeps ==
  ASSUME SoundInv, NEW c \in Clips, ac97_play(c)
  PROVE  SoundInv'
<1> USE DEF driver_vars, play_vars, irq_vars, hw_vars
<1>1. SndTypeOK'
  BY SoundAssumption DEF SoundInv, SndTypeOK, ac97_play, Process
<1>2. Clip(clip)'
  <2>1. clip' = c /\ c \in Nat \X Nat
    BY SoundAssumption, Zenon DEF ac97_play
  <2> QED
    BY <2>1 DEF Clip
<1>3. Clip(sounding)' /\ Stopped' /\ Supplied' /\ Chained' /\ Room'
  <2>1. UNCHANGED <<ring_buffer, last_valid_index, audio_cur_pos, audio_data_end, handler, status,
                    civ, lvi, run, halted, sr, sounding, heard>>
    BY Zenon DEF ac97_play
  <2> QED
    BY <2>1, Zenon DEF SoundInv, Clip, Stopped, Supplied, Chained, Room, WholeFrames, Piece, Posted,
                Ahead, Wanted, Free, Refilling, Unread
<1>4. Starting'
  BY <1>2 DEF SoundInv, Starting, ac97_play, Process, Clip
<1>5. DryIsRefilled'
  BY Zenon DEF SoundInv, DryIsRefilled, ac97_play, Process, WholeFrames
<1> QED
  BY <1>1, <1>2, <1>3, <1>4, <1>5, Zenon DEF SoundInv

(* The channel is reset.                                                   *)
LEMMA ResetKeeps ==
  ASSUME SoundInv, setup_reset
  PROVE  SoundInv'
<1> USE DEF driver_vars, irq_vars
<1>1. SndTypeOK'
  <2>1. 0 \in Slot /\ clip[1] \in Nat
    BY SoundAssumption DEF SoundInv, Slot, Clip
  <2>2. run' \in BOOLEAN /\ halted' \in BOOLEAN
    BY Zenon DEF setup_reset
  <2>3. /\ pc' = "clear" /\ civ' = 0 /\ lvi' = 0 /\ sr' = {} /\ heard' = clip[1]
        /\ UNCHANGED <<driver_vars, plays, irq_vars, latched, dead>>
    BY Zenon DEF setup_reset, Process
  <2> QED
    BY <2>1, <2>2, <2>3, Zenon DEF SoundInv, SndTypeOK
<1>2. ~run' /\ sr' = {} /\ halted' /\ handler' = "none" /\ pc' = "clear" /\ civ' = 0
  BY Zenon DEF setup_reset, Process
<1>3. Clip(clip)' /\ Clip(sounding)'
  BY Zenon DEF SoundInv, setup_reset, Clip
<1>4. Stopped' /\ Supplied' /\ Chained' /\ Room' /\ DryIsRefilled'
  BY <1>2, Zenon DEF Stopped, Supplied, Chained, Room, DryIsRefilled
<1>5. Starting'
  BY <1>2, Zenon DEF SoundInv, Starting, setup_reset, Process
<1> QED
  BY <1>1, <1>3, <1>4, <1>5, Zenon DEF SoundInv

(* The status bits are cleared.                                            *)
LEMMA ClearKeeps ==
  ASSUME SoundInv, setup_clear
  PROVE  SoundInv'
<1> USE DEF driver_vars, irq_vars
<1>1. SndTypeOK'
  BY Zenon DEF SoundInv, SndTypeOK, setup_clear, Process
<1>2. ~run' /\ sr' = {} /\ halted' /\ handler' = "none" /\ pc' = "fill"
  BY Zenon DEF SoundInv, Starting, Stopped, setup_clear, Process
<1>3. Clip(clip)' /\ Clip(sounding)'
  BY Zenon DEF SoundInv, setup_clear, Clip
<1>4. Stopped' /\ Supplied' /\ Chained' /\ Room' /\ DryIsRefilled'
  BY <1>2, Zenon DEF Stopped, Supplied, Chained, Room, DryIsRefilled
<1>5. Starting'
  BY <1>2, Zenon DEF SoundInv, Starting, setup_clear, Process
<1> QED
  BY <1>1, <1>3, <1>4, <1>5, Zenon DEF SoundInv

(* The ring is filled.                                                     *)
LEMMA FillKeeps ==
  ASSUME SoundInv, setup_fill
  PROVE  SoundInv'
<1> USE DEF irq_vars, hw_vars
<1> DEFINE from == clip[1]
           end == clip[2]
           n == entries_filled(from, end)
<1>0. from \in Nat /\ end \in Nat /\ from < end
  BY Zenon DEF SoundInv, Clip, Starting, setup_fill, Process
<1>1. /\ n \in 0 .. NUM_BDL_ENTRIES /\ position_after(from, end) \in Nat
      /\ \A i \in Slot : i < n => /\ ChunkStart(from, i) \in Nat
                                  /\ ChunkStart(from, i) + 4 <= end
  <2>1. FilledUp(from, end, n, position_after(from, end))
    BY <1>0, FilledRing, Zenon
  <2> QED
    BY <2>1, Zenon DEF FilledUp
<1>2. \A i \in Slot : i < n => Chunk(ChunkStart(from, i), end) \in Descriptor
  BY <1>0, <1>1, ChunkIs
<1>3. /\ ring_buffer' = [i \in Slot |-> IF i < n THEN Chunk(ChunkStart(from, i), end)
                                        ELSE ring_buffer[i]]
      /\ bdl_entries_filled' = n
      /\ audio_cur_pos' = position_after(from, end) /\ audio_data_end' = end
      /\ UNCHANGED <<last_valid_index, clip, plays, handler, status, latched, civ, lvi, run, halted,
                     sr, sounding, heard, dead>>
      /\ pc = "fill" /\ pc' = "lvi" /\ handler = "none"
  BY Zenon DEF setup_fill, Process, data_end
<1> HIDE DEF n, from, end
<1>4. SndTypeOK'
  <2>1. ring_buffer' \in [Slot -> Descriptor]
    BY <1>2, <1>3, Zenon DEF SoundInv, SndTypeOK
  <2> QED
    BY <1>0, <1>1, <1>3, <2>1, Zenon DEF SoundInv, SndTypeOK
<1>5. Clip(clip)' /\ Clip(sounding)'
  BY <1>3, Zenon DEF SoundInv, Clip
<1>6. ~run'
  BY <1>3, Zenon DEF SoundInv, Starting
<1>7. Stopped' /\ Supplied' /\ Chained' /\ Room' /\ DryIsRefilled'
  BY <1>3, <1>6, Zenon DEF SoundInv, Stopped, Supplied, Chained, Room, DryIsRefilled
<1>8. Starting'
  <2>1. \A i \in Slot : i < n => ring_buffer'[i] = Chunk(ChunkStart(from, i), end)
    BY <1>3, Zenon
  <2> QED
    BY <1>3, <2>1, Zenon DEF SoundInv, Starting, from, end, n
<1> QED
  BY <1>4, <1>5, <1>7, <1>8, Zenon DEF SoundInv

(* LVI is written.                                                         *)
LEMMA LviKeeps ==
  ASSUME SoundInv, start_lvi
  PROVE  SoundInv'
<1> USE DEF irq_vars
<1>1. SndTypeOK'
  BY SoundAssumption DEF SoundInv, SndTypeOK, start_lvi, Process, Slot
<1>2. ~run' /\ sr' = {} /\ halted' /\ handler' = "none"
  BY Zenon DEF SoundInv, Starting, Stopped, start_lvi, Process
<1>3. Clip(clip)' /\ Clip(sounding)'
  BY Zenon DEF SoundInv, start_lvi, Clip
<1>4. Stopped' /\ Supplied' /\ Chained' /\ Room' /\ DryIsRefilled'
  BY <1>2, Zenon DEF Stopped, Supplied, Chained, Room, DryIsRefilled
<1>5. Starting'
  BY DEF SoundInv, SndTypeOK, Starting, start_lvi, Process
<1> QED
  BY <1>1, <1>3, <1>4, <1>5, Zenon DEF SoundInv

(* The run bit is set, on a ring of consecutive pieces.                    *)
LEMMA RunKeeps ==
  ASSUME SoundInv, start_run
  PROVE  SoundInv'
<1> USE DEF driver_vars, irq_vars
<1> DEFINE from == clip[1]
           end == clip[2]
           n == entries_filled(from, end)
           p == position_after(from, end)
<1>0. /\ from \in Nat /\ end \in Nat /\ from < end
      /\ ~run /\ civ = 0 /\ sounding = clip /\ heard = from
      /\ n > 0 /\ lvi = n - 1 /\ last_valid_index = lvi
      /\ audio_cur_pos = p /\ audio_data_end = end
      /\ handler = "none" /\ sr = {}
      /\ \A i \in Slot : i < n => ring_buffer[i] = Chunk(ChunkStart(from, i), end)
  BY Zenon DEF SoundInv, Clip, Starting, Stopped, start_run, Process
<1>1. /\ n \in 0 .. NUM_BDL_ENTRIES /\ ChunkStart(from, 0) = from
      /\ \A i \in Slot : i < n =>
           /\ ChunkStart(from, i) \in Nat /\ from <= ChunkStart(from, i)
           /\ ChunkStart(from, i) + 4 <= end
           /\ Chunk(ChunkStart(from, i), end).samples > 0
           /\ i + 1 < n => ChunkStart(from, i + 1) = End(Chunk(ChunkStart(from, i), end))
      /\ n > 0 => p = End(Chunk(ChunkStart(from, n - 1), end))
      /\ p \in Nat /\ from <= p /\ p <= end
      /\ (end - from) % 4 = 0 => (end - p) % 4 = 0
  <2>1. from \in Nat /\ end \in Nat /\ from < end
    BY <1>0, Zenon
  <2>2. FilledUp(from, end, n, p)
    BY <2>1, FilledRing, Zenon
  <2> QED
    BY <2>2, Zenon DEF FilledUp
<1>2. /\ run' = TRUE /\ halted' = FALSE /\ pc' = "idle"
      /\ UNCHANGED <<ring_buffer, last_valid_index, bdl_entries_filled, audio_cur_pos,
                     audio_data_end, clip, plays, handler, status, latched, civ, lvi, sr,
                     sounding, heard, dead>>
  BY Zenon DEF start_run, Process
<1> HIDE DEF n, from, end, p
<1>3. \A i \in Slot : i < n => /\ Chunk(ChunkStart(from, i), end).addr = ChunkStart(from, i)
                               /\ End(Chunk(ChunkStart(from, i), end)) <= end
  <2> SUFFICES ASSUME NEW i \in Slot, i < n
               PROVE  /\ Chunk(ChunkStart(from, i), end).addr = ChunkStart(from, i)
                      /\ End(Chunk(ChunkStart(from, i), end)) <= end
    BY Zenon
  <2> DEFINE q == ChunkStart(from, i)
  <2>1. q \in Nat /\ q + 4 <= end
    BY <1>1, Zenon
  <2> HIDE DEF q
  <2>2. q <= end
    BY <1>0, <2>1
  <2>3. Chunk(q, end).addr = q /\ End(Chunk(q, end)) <= end
    <3>1. end \in Nat
      BY <1>0, Zenon
    <3> QED
      BY <2>1, <2>2, <3>1, ChunkIs, Zenon
  <2> QED
    BY <2>3, Zenon DEF q
<1>4. SndTypeOK'
  <2>1. run' \in BOOLEAN /\ halted' \in BOOLEAN
    BY <1>2, Zenon
  <2>2. /\ pc' = "idle"
        /\ UNCHANGED <<ring_buffer, last_valid_index, bdl_entries_filled, audio_cur_pos,
                       audio_data_end, plays, handler, status, latched, civ, lvi, sr,
                       heard, dead>>
    BY <1>2, Zenon
  <2> QED
    BY <2>1, <2>2, Zenon DEF SoundInv, SndTypeOK
<1>5. Clip(clip)' /\ Clip(sounding)'
  BY <1>2, Zenon DEF SoundInv, Clip
<1>6. Stopped' /\ Starting' /\ DryIsRefilled'
  BY <1>2, Zenon DEF Stopped, Starting, DryIsRefilled
<1>7. Supplied'
  BY <1>0, <1>1, <1>2, Zenon DEF Supplied, WholeFrames, from, end
<1>8. Chained'
  <2>1. Posted' = p
    BY <1>0, <1>2, Zenon DEF Posted
  <2>2. 0 \in Slot /\ n - 1 \in Slot /\ n - 1 < n /\ 0 < n
    BY <1>0, <1>1, SoundAssumption DEF Slot
  <2>3. ring_buffer[0].addr = from /\ End(ring_buffer[n - 1]) = p
    BY <1>0, <1>1, <1>3, <2>2, Zenon
  <2>4. ASSUME NEW i \in Slot, Ahead(i)'
        PROVE  /\ Piece(sounding', ring_buffer'[i])
               /\ i # lvi => ring_buffer[next_slot(i)].addr = End(ring_buffer[i])
    <3>1. i < n /\ i \in Nat
      BY <1>0, <1>1, <1>2, <2>4, SoundAssumption DEF Ahead, Gap, Slot
    <3>2. ring_buffer[i] = Chunk(ChunkStart(from, i), end)
      BY <1>0, <3>1, Zenon
    <3>3. Piece(sounding', ring_buffer'[i])
      <4>1. /\ from <= ring_buffer[i].addr /\ End(ring_buffer[i]) <= end
            /\ ring_buffer[i].samples > 0
        BY <1>1, <1>3, <3>1, <3>2, Zenon
      <4>2. sounding'[1] = from /\ sounding'[2] = end /\ ring_buffer' = ring_buffer
        BY <1>0, <1>2, Zenon DEF from, end
      <4> QED
        BY <4>1, <4>2, Zenon DEF Piece
    <3>4. ASSUME i # lvi PROVE ring_buffer[next_slot(i)].addr = End(ring_buffer[i])
      <4>1. i + 1 < n /\ i + 1 \in Slot /\ next_slot(i) = i + 1
        BY <1>0, <1>1, <3>1, <3>4, NextSlot, SoundAssumption DEF Slot
      <4>2. ring_buffer[i + 1].addr = ChunkStart(from, i + 1)
        BY <1>0, <1>3, <4>1, Zenon
      <4> QED
        BY <1>1, <3>1, <3>2, <4>1, <4>2, Zenon
    <3> QED
      BY <3>3, <3>4, Zenon
  <2> QED
    BY <1>0, <1>2, <2>1, <2>3, <2>4, Zenon DEF Chained
<1>9. Room'
  <2>1. Wanted' = 0
    BY <1>0, <1>2 DEF Wanted, Refilling, Unread
  <2>2. Gap(civ, lvi) \in 0 .. NUM_BDL_ENTRIES - 1
    BY Gaps, Zenon DEF SoundInv, SndTypeOK
  <2> QED
    BY <1>2, <2>1, <2>2, SoundAssumption DEF Room, Free
<1> QED
  BY <1>4, <1>5, <1>6, <1>7, <1>8, <1>9, Zenon DEF SoundInv

(* The handler reads the status.                                           *)
LEMMA ReadKeeps ==
  ASSUME SoundInv, irq_read
  PROVE  SoundInv'
<1> USE DEF driver_vars, play_vars
<1>1. /\ handler = "none" /\ handler' = "ack" /\ status' = sr
      /\ UNCHANGED <<ring_buffer, last_valid_index, bdl_entries_filled, audio_cur_pos,
                     audio_data_end, pc, clip, plays, civ, lvi, run, halted, sr, sounding, heard>>
  BY Zenon DEF irq_read
<1>2. SndTypeOK'
  <2>1. latched' \in BOOLEAN /\ dead' \in BOOLEAN
    <3>1. latched' = FALSE /\ dead' = ("FIFOE" \in sr)
      BY Zenon DEF irq_read
    <3>2. latched' \in BOOLEAN
      BY <3>1, Zenon
    <3>3. dead' \in BOOLEAN
      BY <3>1
    <3> QED
      BY <3>2, <3>3, Zenon
  <2> QED
    BY <1>1, <2>1, Zenon DEF SoundInv, SndTypeOK
<1>3. Clip(clip)' /\ Clip(sounding)'
  BY <1>1, Zenon DEF SoundInv, Clip
<1>4. Stopped' /\ Starting'
  BY <1>1, Zenon DEF SoundInv, Stopped, Starting
<1>5. Supplied'
  BY <1>1, Zenon DEF SoundInv, Supplied, WholeFrames
<1>6. Chained'
  BY <1>1, Zenon DEF SoundInv, Chained, Posted, Ahead
<1>7. Room'
  <2>1. Wanted' = Wanted /\ Free' = Free
    BY <1>1 DEF Wanted, Free, Refilling, Unread
  <2> QED
    BY <1>1, <2>1, Zenon DEF SoundInv, Room
<1>8. DryIsRefilled'
  BY <1>1 DEF SoundInv, DryIsRefilled, irq_read, WholeFrames
<1> QED
  BY <1>2, <1>3, <1>4, <1>5, <1>6, <1>7, <1>8, Zenon DEF SoundInv

(* The handler acknowledges what it has read.                              *)
LEMMA AckKeeps ==
  ASSUME SoundInv, irq_ack
  PROVE  SoundInv'
<1> USE DEF driver_vars, play_vars
<1>1. /\ handler = "ack" /\ sr' = sr \ status
      /\ handler' \in {"none", "refill"}
      /\ handler' = "refill" <=> Refills
      /\ UNCHANGED <<ring_buffer, last_valid_index, bdl_entries_filled, audio_cur_pos,
                     audio_data_end, pc, clip, plays, status, latched, civ, lvi, run, halted,
                     sounding, heard, dead>>
  BY Zenon DEF irq_ack
<1>2. SndTypeOK'
  BY <1>1, Zenon DEF SoundInv, SndTypeOK
<1>3. Clip(clip)' /\ Clip(sounding)'
  BY <1>1, Zenon DEF SoundInv, Clip
<1>4. Stopped' /\ Starting'
  BY <1>1, Zenon DEF SoundInv, Stopped, Starting, Refills
<1>5. Supplied'
  BY <1>1, Zenon DEF SoundInv, Supplied, WholeFrames, Refills
<1>6. Chained'
  BY <1>1, Zenon DEF SoundInv, Chained, Posted, Ahead
<1>7. Room'
  <2>1. Wanted' <= Wanted /\ Free' = Free /\ Wanted \in Nat /\ Wanted' \in Nat
    BY <1>1 DEF Wanted, Free, Refilling, Unread, Refills
  <2>2. Free \in Int
    BY Gaps, SoundAssumption DEF SoundInv, SndTypeOK, Free
  <2> QED
    BY <1>1, <2>1, <2>2 DEF SoundInv, Room
<1>8. DryIsRefilled'
  BY <1>1, Zenon DEF SoundInv, DryIsRefilled, WholeFrames, Refills
<1> QED
  BY <1>2, <1>3, <1>4, <1>5, <1>6, <1>7, <1>8, Zenon DEF SoundInv

(* The descriptor after one that is ahead, but for the last, is ahead too. *)
LEMMA NextAhead ==
  ASSUME civ \in Slot, lvi \in Slot, NEW i \in Slot, Ahead(i), i # lvi
  PROVE  next_slot(i) \in Slot /\ Ahead(next_slot(i))
<1>1. /\ Gap(civ, i) \in 0 .. NUM_BDL_ENTRIES - 1
      /\ Gap(civ, lvi) \in 0 .. NUM_BDL_ENTRIES - 1
      /\ Gap(civ, i) < NUM_BDL_ENTRIES - 1 => Gap(civ, next_slot(i)) = Gap(civ, i) + 1
  BY Gaps, Zenon
<1>2. Gap(civ, i) # Gap(civ, lvi) /\ Gap(civ, i) <= Gap(civ, lvi)
  BY SameGap, Zenon DEF Ahead
<1> QED
  BY <1>1, <1>2, NextSlot, SoundAssumption DEF Ahead

(* A refill that is due has a slot to go to, which the controller will not *)
(* reach before LVI does.                                                  *)
LEMMA FreeSlot ==
  ASSUME SndTypeOK, Room, run, handler \in {"refill", "post"}
  PROVE  /\ next_slot(lvi) \in Slot
         /\ ~halted => /\ Gap(civ, next_slot(lvi)) = Gap(civ, lvi) + 1
                       /\ ~Ahead(next_slot(lvi))
<1>1. civ \in Slot /\ lvi \in Slot
  BY Zenon DEF SndTypeOK
<1>2. Gap(civ, lvi) \in 0 .. NUM_BDL_ENTRIES - 1
  BY <1>1, Gaps, Zenon
<1>3. Wanted \in Nat /\ Wanted >= 1
  BY DEF Wanted, Refilling
<1>4. ~halted => Gap(civ, lvi) < NUM_BDL_ENTRIES - 1
  BY <1>2, <1>3, SoundAssumption DEF Room, Free
<1> QED
  BY <1>1, <1>2, <1>4, Gaps, NextSlot, SoundAssumption DEF Ahead

(* The handler fills the slot after the last valid one.                    *)
LEMMA RefillKeeps ==
  ASSUME SoundInv, irq_refill
  PROVE  SoundInv'
<1> USE DEF play_vars, hw_vars
<1> DEFINE slot == next_slot(last_valid_index)
           chunk == Chunk(audio_cur_pos, audio_data_end)
<1>1. /\ handler = "refill" /\ handler' = "post"
      /\ ring_buffer' = [ring_buffer EXCEPT ![slot] = chunk]
      /\ audio_cur_pos' = End(chunk)
      /\ last_valid_index' = slot
      /\ UNCHANGED <<bdl_entries_filled, audio_data_end, pc, clip, plays, status, latched, civ,
                     lvi, run, halted, sr, sounding, heard, dead>>
  BY Zenon DEF irq_refill, End, Chunk
<1>2. /\ run /\ last_valid_index = lvi
      /\ audio_data_end = sounding[2] /\ sounding[1] <= audio_cur_pos
      /\ audio_cur_pos < audio_data_end
      /\ WholeFrames => (audio_data_end - audio_cur_pos) % 4 = 0
  BY <1>1, Zenon DEF SoundInv, Stopped, Supplied
<1>3. audio_cur_pos \in Nat /\ audio_data_end \in Nat /\ sounding[1] \in Nat /\ sounding[2] \in Nat
  BY Zenon DEF SoundInv, SndTypeOK, Clip
<1>4. /\ slot \in Slot /\ slot = next_slot(lvi)
      /\ ~halted => ~Ahead(slot)
  BY <1>1, <1>2, FreeSlot, Zenon DEF SoundInv
<1>5. /\ chunk \in Descriptor /\ chunk.addr = audio_cur_pos
      /\ audio_cur_pos <= End(chunk) /\ End(chunk) <= audio_data_end
      /\ WholeFrames => chunk.samples > 0 /\ (audio_data_end - End(chunk)) % 4 = 0
  BY <1>2, <1>3, ChunkIs
<1>6. End(chunk) \in Nat
  BY <1>3, <1>5, SoundAssumption DEF End, Descriptor
<1> HIDE DEF slot, chunk
<1>7. ring_buffer \in [Slot -> Descriptor]
  BY Zenon DEF SoundInv, SndTypeOK
<1>8. /\ ring_buffer' \in [Slot -> Descriptor] /\ ring_buffer'[slot] = chunk
      /\ \A i \in Slot : i # slot => ring_buffer'[i] = ring_buffer[i]
  BY <1>1, <1>4, <1>5, <1>7, Zenon
<1>9. SndTypeOK'
  BY <1>1, <1>4, <1>6, <1>8, Zenon DEF SoundInv, SndTypeOK
<1>10. Clip(clip)' /\ Clip(sounding)'
  BY <1>1, Zenon DEF SoundInv, Clip
<1>11. Stopped' /\ Starting' /\ DryIsRefilled'
  BY <1>1, <1>2, Zenon DEF SoundInv, Stopped, Starting, DryIsRefilled
<1>12. Piece(sounding, chunk)
  BY <1>2, <1>3, <1>5, Zenon DEF Piece, WholeFrames
<1>13. Supplied'
  <2>1. WholeFrames' = WholeFrames
    BY <1>1, Zenon DEF WholeFrames
  <2>2. sounding[1] <= End(chunk)
    BY <1>2, <1>3, <1>5, <1>6
  <2>3. Piece(sounding', ring_buffer'[last_valid_index'])
    BY <1>1, <1>8, <1>12, Zenon
  <2>4. "BCIS" \in status
    BY <1>1, <1>2, Zenon DEF SoundInv, Supplied
  <2> QED
    BY <1>1, <1>2, <1>4, <1>5, <1>8, <2>1, <2>2, <2>3, <2>4, Zenon DEF Supplied
<1>14. Chained'
  <2>1. Posted' = audio_cur_pos /\ Posted = audio_cur_pos
    BY <1>1, <1>5, <1>8, Zenon DEF Posted
  <2>2. CASE halted
    <3>1. civ = lvi /\ heard = Posted
      BY <1>2, <2>2, Zenon DEF SoundInv, Chained
    <3> QED
      BY <1>1, <2>1, <2>2, <3>1, Zenon DEF Chained
  <2>3. CASE ~halted
    <3>1. civ \in Slot /\ lvi \in Slot /\ Ahead(civ) /\ Ahead(lvi)
      <4>1. civ \in Slot /\ lvi \in Slot
        BY Zenon DEF SoundInv, SndTypeOK
      <4>2. Gap(civ, civ) = 0 /\ Gap(civ, lvi) \in 0 .. NUM_BDL_ENTRIES - 1
        BY <4>1, Gaps, Zenon
      <4> QED
        BY <4>1, <4>2, SoundAssumption DEF Ahead
    <3>2. \A i \in Slot : Ahead(i) => ring_buffer'[i] = ring_buffer[i]
      BY <1>4, <1>8, <2>3, Zenon
    <3>3. \A i \in Slot : Ahead(i)' <=> Ahead(i)
      BY <1>1, Zenon DEF Ahead
    <3>4. ASSUME NEW i \in Slot, Ahead(i)
          PROVE  /\ Piece(sounding', ring_buffer'[i])
                 /\ i # lvi => ring_buffer'[next_slot(i)].addr = End(ring_buffer'[i])
      <4>1. /\ Piece(sounding, ring_buffer[i])
            /\ i # lvi => ring_buffer[next_slot(i)].addr = End(ring_buffer[i])
        BY <1>2, <2>3, <3>4, Zenon DEF SoundInv, Chained
      <4>2. ring_buffer'[i] = ring_buffer[i]
        BY <3>2, <3>4, Zenon
      <4>3. Piece(sounding', ring_buffer'[i])
        BY <1>1, <4>1, <4>2, Zenon
      <4>4. i # lvi => ring_buffer'[next_slot(i)] = ring_buffer[next_slot(i)]
        BY <3>1, <3>2, <3>4, NextAhead, Zenon
      <4> QED
        BY <4>1, <4>2, <4>3, <4>4, Zenon
    <3>5. ring_buffer[civ].addr = heard /\ End(ring_buffer[lvi]) = Posted
      BY <1>2, <2>3, Zenon DEF SoundInv, Chained
    <3>6. ring_buffer'[civ].addr = heard' /\ End(ring_buffer'[lvi]) = Posted'
      BY <1>1, <2>1, <3>1, <3>2, <3>5, Zenon
    <3> QED
      BY <1>1, <2>3, <3>3, <3>4, <3>6, Zenon DEF Chained
  <2> QED
    BY <2>2, <2>3, Zenon
<1>15. Room'
  <2>1. Wanted' = Wanted /\ Free' = Free
    BY <1>1, Zenon DEF Wanted, Free, Refilling, Unread
  <2> QED
    BY <1>1, <2>1, Zenon DEF SoundInv, Room
<1> QED
  BY <1>9, <1>10, <1>11, <1>13, <1>14, <1>15, Zenon DEF SoundInv

(* LVI makes the refilled slot valid; a DMA that has run dry starts again. *)
LEMMA PostKeeps ==
  ASSUME SoundInv, irq_post
  PROVE  SoundInv'
<1> USE DEF driver_vars, play_vars
<1> DEFINE slot == next_slot(lvi)
<1>1. /\ handler = "post" /\ handler' = "none"
      /\ lvi' = last_valid_index
      /\ run /\ halted => halted' = FALSE /\ civ' = next_slot(civ)
      /\ ~(run /\ halted) => halted' = halted /\ civ' = civ
      /\ UNCHANGED <<ring_buffer, last_valid_index, bdl_entries_filled, audio_cur_pos,
                     audio_data_end, pc, clip, plays, status, latched, run, sr, sounding,
                     heard, dead>>
  BY Zenon DEF irq_post
<1>2. /\ run /\ last_valid_index = slot
      /\ Piece(sounding, ring_buffer[slot]) /\ End(ring_buffer[slot]) = audio_cur_pos
      /\ Posted = ring_buffer[slot].addr /\ Posted' = audio_cur_pos
  BY <1>1, Zenon DEF SoundInv, Stopped, Supplied, Posted
<1>3. /\ slot \in Slot
      /\ ~halted => Gap(civ, slot) = Gap(civ, lvi) + 1 /\ ~Ahead(slot)
  BY <1>1, <1>2, FreeSlot, Zenon DEF SoundInv
<1> HIDE DEF slot
<1>4. civ \in Slot /\ lvi \in Slot /\ run \in BOOLEAN /\ halted \in BOOLEAN
  BY Zenon DEF SoundInv, SndTypeOK
<1>5. SndTypeOK'
  <2>1. civ' \in Slot
    BY <1>1, <1>4, NextSlot, Zenon
  <2>2. halted' \in BOOLEAN
    BY <1>1, <1>4, Zenon
  <2>3. lvi' \in Slot
    BY <1>1, <1>2, <1>3, Zenon
  <2>4. /\ handler' = "none"
        /\ UNCHANGED <<ring_buffer, last_valid_index, bdl_entries_filled, audio_cur_pos,
                       audio_data_end, pc, plays, status, latched, run, sr, heard, dead>>
    BY <1>1, Zenon
  <2> QED
    BY <2>1, <2>2, <2>3, <2>4, Zenon DEF SoundInv, SndTypeOK
<1>6. Clip(clip)' /\ Clip(sounding)'
  BY <1>1, Zenon DEF SoundInv, Clip
<1>7. Stopped' /\ DryIsRefilled'
  <2>1. ~halted'
    BY <1>1, <1>2, Zenon
  <2> QED
    BY <1>1, <1>2, <2>1, Zenon DEF Stopped, DryIsRefilled
<1>8. Starting'
  BY <1>1, <1>2, Zenon DEF SoundInv, Starting
<1>9. Supplied'
  BY <1>1, <1>2, Zenon DEF SoundInv, Supplied, WholeFrames
<1>10. CASE halted
  <2>1. civ = lvi /\ heard = Posted
    BY <1>2, <1>10, Zenon DEF SoundInv, Chained
  <2>2. ~halted' /\ civ' = slot /\ lvi' = slot
    BY <1>1, <1>2, <1>10, <2>1, Zenon DEF slot
  <2>3. Gap(slot, slot) = 0 /\ \A i \in Slot : Gap(slot, i) \in Nat /\ (Gap(slot, i) = 0 <=> i = slot)
    BY <1>3, Gaps, SoundAssumption
  <2>4. \A i \in Slot : Ahead(i)' => i = slot
    BY <2>2, <2>3 DEF Ahead
  <2>5. Chained'
    BY <1>1, <1>2, <2>1, <2>2, <2>4, Zenon DEF Chained
  <2>6. Room'
    <3>1. Free = NUM_BDL_ENTRIES /\ Free' = NUM_BDL_ENTRIES - 1
      BY <1>10, <2>2, <2>3, SoundAssumption DEF Free
    <3>2. Wanted' = Wanted - 1 /\ Wanted \in Nat
      BY <1>1 DEF Wanted, Refilling, Unread
    <3> QED
      BY <1>2, <3>1, <3>2, SoundAssumption DEF SoundInv, Room
  <2> QED
    BY <1>5, <1>6, <1>7, <1>8, <1>9, <2>5, <2>6, Zenon DEF SoundInv
<1>11. CASE ~halted
  <2>1. ~halted' /\ civ' = civ /\ lvi' = slot
    BY <1>1, <1>2, <1>11
  <2>2. Gap(civ, lvi) \in 0 .. NUM_BDL_ENTRIES - 1 /\ Gap(civ, slot) = Gap(civ, lvi) + 1
    BY <1>3, <1>4, <1>11, Gaps, Zenon
  <2>3. ASSUME NEW i \in Slot, Ahead(i)', i # slot
        PROVE  Ahead(i)
    <3>1. Gap(civ, i) # Gap(civ, slot)
      BY <1>3, <1>4, <2>3, SameGap, Zenon
    <3>2. Gap(civ, i) \in 0 .. NUM_BDL_ENTRIES - 1
      BY <1>4, Gaps, Zenon
    <3>3. Gap(civ, i) <= Gap(civ, slot)
      BY <2>1, <2>3, Zenon DEF Ahead
    <3> QED
      BY <2>2, <3>1, <3>2, <3>3, SoundAssumption DEF Ahead
  <2>4. /\ ring_buffer[civ].addr = heard /\ End(ring_buffer[lvi]) = Posted
        /\ \A i \in Slot : Ahead(i) =>
             /\ Piece(sounding, ring_buffer[i])
             /\ i # lvi => ring_buffer[next_slot(i)].addr = End(ring_buffer[i])
    BY <1>2, <1>11, Zenon DEF SoundInv, Chained
  <2>5. ASSUME NEW i \in Slot, Ahead(i)'
        PROVE  /\ Piece(sounding, ring_buffer[i])
               /\ i # slot => ring_buffer[next_slot(i)].addr = End(ring_buffer[i])
    <3>1. CASE i = slot
      BY <1>2, <3>1, Zenon
    <3>2. CASE i # slot
      <4>1. Ahead(i)
        BY <2>3, <2>5, <3>2, Zenon
      <4>2. CASE i = lvi
        BY <1>2, <2>4, <4>1, <4>2, Zenon DEF slot
      <4>3. CASE i # lvi
        BY <2>4, <4>1, <4>3, Zenon
      <4> QED
        BY <4>2, <4>3, Zenon
    <3> QED
      BY <3>1, <3>2, Zenon
  <2>6. Chained'
    BY <1>1, <1>2, <2>1, <2>4, <2>5, Zenon DEF Chained
  <2>7. Room'
    <3>1. Free' = Free - 1 /\ Free \in Int
      BY <1>11, <2>1, <2>2, SoundAssumption DEF Free
    <3>2. Wanted' = Wanted - 1 /\ Wanted \in Nat
      BY <1>1 DEF Wanted, Refilling, Unread
    <3> QED
      BY <1>2, <3>1, <3>2, SoundAssumption DEF SoundInv, Room
  <2> QED
    BY <1>5, <1>6, <1>7, <1>8, <1>9, <2>6, <2>7, Zenon DEF SoundInv
<1> QED
  BY <1>10, <1>11, Zenon

(* A buffer has been played.                                               *)
LEMMA CompleteKeeps ==
  ASSUME SoundInv, hw_complete
  PROVE  SoundInv'
<1> USE DEF driver_vars, play_vars, irq_vars
<1>1. /\ run /\ ~halted /\ heard' = End(ring_buffer[civ])
      /\ civ = lvi => halted' = TRUE /\ civ' = civ
      /\ civ # lvi => halted' = halted /\ civ' = next_slot(civ)
      /\ UNCHANGED <<ring_buffer, last_valid_index, bdl_entries_filled, audio_cur_pos,
                     audio_data_end, pc, clip, plays, handler, status, lvi, run, sounding, dead>>
  BY Zenon DEF hw_complete, End
<1>2. /\ sr \subseteq sr' /\ sr' \subseteq sr \cup {"BCIS", "LVBCI"}
      /\ ring_buffer[civ].samples # 0 => "BCIS" \in sr'
  <2>1. PICK reported \in {TRUE} \cup {x \in {FALSE} : ring_buffer[civ].samples = 0} :
          sr' = sr \cup {b \in {"BCIS"} : reported} \cup {b \in {"LVBCI"} : civ = lvi}
    BY Zenon DEF hw_complete
  <2>2. sr \subseteq sr' /\ sr' \subseteq sr \cup {"BCIS", "LVBCI"}
    BY <2>1, Zenon
  <2>3. ring_buffer[civ].samples # 0 => reported
    BY <2>1, Zenon
  <2>4. reported => "BCIS" \in sr'
    BY <2>1, Zenon
  <2> QED
    BY <2>2, <2>3, <2>4, Zenon
<1>3. /\ civ \in Slot /\ lvi \in Slot /\ ring_buffer \in [Slot -> Descriptor]
      /\ halted \in BOOLEAN /\ latched \in BOOLEAN /\ sr \subseteq StatusBits
  BY Zenon DEF SoundInv, SndTypeOK
<1>4. SndTypeOK'
  <2>1. civ' \in Slot
    BY <1>1, <1>3, NextSlot, Zenon
  <2>2. halted' \in BOOLEAN
    BY <1>1, <1>3, Zenon
  <2>3. latched' \in BOOLEAN
    <3>1. latched' = (latched \/ sr' # {})
      BY Zenon DEF hw_complete
    <3> QED
      BY <3>1, Zenon
  <2>4. End(ring_buffer[civ]) \in Nat
    BY <1>3, SoundAssumption DEF End, Descriptor
  <2>5. sr' \subseteq StatusBits
    BY <1>2, <1>3, Zenon DEF StatusBits
  <2>6. /\ heard' = End(ring_buffer[civ])
        /\ UNCHANGED <<ring_buffer, last_valid_index, bdl_entries_filled, audio_cur_pos,
                       audio_data_end, pc, plays, handler, status, lvi, run, dead>>
    BY <1>1, Zenon
  <2> QED
    BY <2>1, <2>2, <2>3, <2>4, <2>5, <2>6, Zenon DEF SoundInv, SndTypeOK
<1>5. Clip(clip)' /\ Clip(sounding)'
  BY <1>1, Zenon DEF SoundInv, Clip
<1>6. Stopped'
  BY <1>1, Zenon DEF Stopped
<1>7. Starting'
  BY <1>1, Zenon DEF SoundInv, Starting
<1>8. Supplied'
  BY <1>1, <1>2, Zenon DEF SoundInv, Supplied, WholeFrames
<1>9. /\ ring_buffer[civ].addr = heard /\ End(ring_buffer[lvi]) = Posted
      /\ \A i \in Slot : Ahead(i) =>
           /\ Piece(sounding, ring_buffer[i])
           /\ i # lvi => ring_buffer[next_slot(i)].addr = End(ring_buffer[i])
  BY <1>1, Zenon DEF SoundInv, Chained
<1>10. Posted' = Posted
  BY <1>1, Zenon DEF Posted
<1>11. Wanted' <= Wanted + 1 /\ Wanted \in Nat /\ Wanted' \in Nat
  BY <1>1, <1>2 DEF Wanted, Refilling, Unread
<1>12. Gap(civ, civ) = 0 /\ Gap(civ, lvi) \in 0 .. NUM_BDL_ENTRIES - 1 /\ Ahead(civ)
  <2>1. Gap(civ, civ) = 0 /\ Gap(civ, lvi) \in 0 .. NUM_BDL_ENTRIES - 1
    BY <1>3, Gaps, Zenon
  <2> QED
    BY <2>1, SoundAssumption DEF Ahead
<1>13. CASE civ = lvi
  <2>1. halted' /\ civ' = civ /\ lvi' = lvi /\ run'
    BY <1>1, <1>13, Zenon
  <2>2. Chained'
    BY <1>1, <1>9, <1>10, <1>13, <2>1, Zenon DEF Chained
  <2>3. Room'
    <3>1. Free = NUM_BDL_ENTRIES - 1 /\ Free' = NUM_BDL_ENTRIES
      BY <1>1, <1>12, <1>13, <2>1, SoundAssumption DEF Free
    <3> QED
      BY <1>1, <1>11, <3>1, SoundAssumption DEF SoundInv, Room
  <2>4. DryIsRefilled'
    <3>1. WholeFrames => ring_buffer[civ].samples > 0
      BY <1>3, <1>9, <1>12, Zenon DEF Piece, WholeFrames
    <3>2. WholeFrames => "BCIS" \in sr'
      BY <1>2, <1>3, <3>1, SoundAssumption DEF Descriptor
    <3>3. WholeFrames' <=> WholeFrames
      BY <1>1, Zenon DEF WholeFrames
    <3> QED
      BY <3>2, <3>3, Zenon DEF DryIsRefilled
  <2> QED
    BY <1>4, <1>5, <1>6, <1>7, <1>8, <2>2, <2>3, <2>4, Zenon DEF SoundInv
<1>14. CASE civ # lvi
  <2>1. ~halted' /\ civ' = next_slot(civ) /\ lvi' = lvi /\ run'
    BY <1>1, <1>14
  <2>2. Gap(civ', lvi) = Gap(civ, lvi) - 1 /\ civ' \in Slot
    BY <1>3, <1>14, <2>1, Gaps, NextSlot
  <2>3. ASSUME NEW i \in Slot, Ahead(i)'
        PROVE  Ahead(i)
    <3>1. Gap(civ', i) <= Gap(civ', lvi)
      BY <2>1, <2>3, Zenon DEF Ahead
    <3>2. CASE i = civ
      BY <1>12, <3>2, Zenon
    <3>3. CASE i # civ
      <4>1. Gap(civ', i) = Gap(civ, i) - 1 /\ Gap(civ, i) \in 0 .. NUM_BDL_ENTRIES - 1
        BY <1>3, <2>1, <3>3, Gaps, Zenon
      <4> QED
        BY <1>12, <2>2, <3>1, <4>1, SoundAssumption DEF Ahead
    <3> QED
      BY <3>2, <3>3, Zenon
  <2>4. ring_buffer[civ'].addr = heard'
    BY <1>1, <1>3, <1>9, <1>12, <1>14, <2>1, Zenon
  <2>5. Chained'
    BY <1>1, <1>9, <1>10, <2>1, <2>3, <2>4, Zenon DEF Chained
  <2>6. Room'
    <3>1. Free' = Free + 1 /\ Free \in Int
      BY <1>1, <1>12, <2>1, <2>2, SoundAssumption DEF Free
    <3> QED
      BY <1>1, <1>11, <3>1, SoundAssumption DEF SoundInv, Room
  <2>7. DryIsRefilled'
    BY <2>1, Zenon DEF DryIsRefilled
  <2> QED
    BY <1>4, <1>5, <1>6, <1>7, <1>8, <2>5, <2>6, <2>7, Zenon DEF SoundInv
<1> QED
  BY <1>13, <1>14, Zenon

(* A FIFO error is flagged.                                                *)
LEMMA FifoKeeps ==
  ASSUME SoundInv, hw_fifo_error
  PROVE  SoundInv'
<1> USE DEF driver_vars, play_vars, irq_vars
<1>1. /\ run /\ ~halted /\ sr' = sr \cup {"FIFOE"} /\ latched' = TRUE
      /\ UNCHANGED <<ring_buffer, last_valid_index, bdl_entries_filled, audio_cur_pos,
                     audio_data_end, pc, clip, plays, handler, status, civ, lvi, run, halted,
                     sounding, heard, dead>>
  BY Zenon DEF hw_fifo_error
<1>2. SndTypeOK'
  <2>1. latched' \in BOOLEAN
    BY <1>1, Zenon
  <2>2. /\ sr' = sr \cup {"FIFOE"}
        /\ UNCHANGED <<ring_buffer, last_valid_index, bdl_entries_filled, audio_cur_pos,
                       audio_data_end, pc, plays, handler, status, civ, lvi, run, halted,
                       heard, dead>>
    BY <1>1, Zenon
  <2> QED
    BY <2>1, <2>2, Zenon DEF SoundInv, SndTypeOK, StatusBits
<1>3. Clip(clip)' /\ Clip(sounding)'
  BY <1>1, Zenon DEF SoundInv, Clip
<1>4. Stopped' /\ Starting' /\ DryIsRefilled'
  BY <1>1, Zenon DEF SoundInv, Stopped, Starting, DryIsRefilled
<1>5. Supplied'
  BY <1>1, Zenon DEF SoundInv, Supplied, WholeFrames
<1>6. Chained'
  BY <1>1, Zenon DEF SoundInv, Chained, Posted, Ahead
<1>7. Room'
  <2>1. Wanted' = Wanted /\ Free' = Free
    BY <1>1, Zenon DEF Wanted, Free, Refilling, Unread
  <2> QED
    BY <1>1, <2>1, Zenon DEF SoundInv, Room
<1> QED
  BY <1>2, <1>3, <1>4, <1>5, <1>6, <1>7, Zenon DEF SoundInv

(* A step that changes nothing.                                            *)
LEMMA SilenceKeeps ==
  ASSUME SoundInv, UNCHANGED snd_vars
  PROVE  SoundInv'
<1> USE DEF snd_vars, driver_vars, play_vars, irq_vars, hw_vars
<1>1. SndTypeOK' /\ Clip(clip)' /\ Clip(sounding)'
  BY DEF SoundInv, SndTypeOK, Clip
<1>2. Stopped' /\ Starting' /\ Supplied' /\ DryIsRefilled'
  BY Zenon DEF SoundInv, Stopped, Starting, Supplied, DryIsRefilled, WholeFrames
<1>3. Chained' /\ Room'
  BY Zenon DEF SoundInv, Chained, Room, Posted, Ahead, Wanted, Free, Refilling, Unread
<1> QED
  BY <1>1, <1>2, <1>3, Zenon DEF SoundInv

(* The state before the first clip.                                        *)
LEMMA SoundStarts == SndInit => SoundInv
<1> SUFFICES ASSUME SndInit PROVE SoundInv
  BY Zenon
<1>1. SndTypeOK
  <2>1. run \in BOOLEAN /\ halted \in BOOLEAN /\ latched \in BOOLEAN /\ dead \in BOOLEAN
    BY Zenon DEF SndInit
  <2>2. /\ ring_buffer = [i \in Slot |-> [addr |-> 0, samples |-> 0]]
        /\ last_valid_index = 0 /\ bdl_entries_filled = 0
        /\ audio_cur_pos = 0 /\ audio_data_end = 0 /\ pc = "idle" /\ plays = 0
        /\ handler = "none" /\ status = {} /\ civ = 0 /\ lvi = 0 /\ sr = {} /\ heard = 0
    BY Zenon DEF SndInit
  <2>3. [addr |-> 0, samples |-> 0] \in Descriptor /\ 0 \in Slot
    BY SoundAssumption DEF Descriptor, Slot
  <2> QED
    BY <2>1, <2>2, <2>3, SoundAssumption DEF SndTypeOK
<1>2. Clip(clip) /\ Clip(sounding)
  BY Zenon DEF SndInit, Clip
<1> QED
  BY <1>1, <1>2, Zenon DEF SndInit, SoundInv, Stopped, Starting, Supplied, Chained, Room, DryIsRefilled

(* SoundInv is inductive.                                                  *)
LEMMA SoundSteps == SoundInv /\ [SndNext]_snd_vars => SoundInv'
BY PlayKeeps, ResetKeeps, ClearKeeps, FillKeeps, LviKeeps, RunKeeps, ReadKeeps, AckKeeps,
   RefillKeeps, PostKeeps, CompleteKeeps, FifoKeeps, SilenceKeeps, Zenon
   DEF SndNext, Play, Irq, silent

(* Slots ahead of the controller, by their distance.                       *)
LEMMA QueueSlots ==
  ASSUME civ \in Slot, lvi \in Slot, NEW k \in 1 .. Gap(civ, lvi) + 1
  PROVE  /\ (lvi - civ) % NUM_BDL_ENTRIES = Gap(civ, lvi)
         /\ (civ + k - 1) % NUM_BDL_ENTRIES \in Slot
         /\ Gap(civ, (civ + k - 1) % NUM_BDL_ENTRIES) = k - 1
<1> DEFINE N == NUM_BDL_ENTRIES
           g == Gap(civ, lvi)
<1>1. g \in 0 .. N - 1
  BY Gaps, Zenon
<1>2. (lvi - civ) % N = g
  <2>1. lvi - civ = g \/ lvi - civ = g - N
    BY SoundAssumption DEF Gap, Slot
  <2> QED
    BY <1>1, <2>1, Around, SoundAssumption, Zenon
<1>3. CASE civ + k - 1 < N
  <2>1. civ + k - 1 \in 0 .. N - 1
    BY <1>1, <1>3, SoundAssumption DEF Slot
  <2>2. (civ + k - 1) % N = civ + k - 1
    BY <2>1, Around, SoundAssumption, Zenon
  <2> QED
    BY <1>2, <2>1, <2>2, SoundAssumption DEF Gap, Slot
<1>4. CASE civ + k - 1 >= N
  <2> DEFINE a == civ + k - 1 - N
  <2>1. a \in 0 .. N - 1 /\ civ + k - 1 = a + N /\ a < civ
    BY <1>1, <1>4, SoundAssumption DEF Slot
  <2>2. (civ + k - 1) % N = a
    BY <2>1, Around, SoundAssumption, Zenon
  <2> QED
    BY <1>2, <2>1, <2>2, SoundAssumption DEF Gap, Slot
<1> QED
  BY <1>1, <1>3, <1>4, SoundAssumption DEF Slot

(* The invariant says what the controller is going to play.                *)
LEMMA QueueIsClip == SoundInv => PlaysTheClip
<1> SUFFICES ASSUME SoundInv PROVE PlaysTheClip
  BY Zenon
<1>1. CASE ~run \/ halted
  <2>1. Queue = << >>
    BY <1>1, Zenon DEF Queue
  <2> QED
    BY <2>1 DEF PlaysTheClip
<1>2. CASE run /\ ~halted
  <2> DEFINE g == Gap(civ, lvi)
             at(k) == (civ + k - 1) % NUM_BDL_ENTRIES
  <2>1. civ \in Slot /\ lvi \in Slot /\ ring_buffer \in [Slot -> Descriptor]
    BY Zenon DEF SoundInv, SndTypeOK
  <2>2. g \in 0 .. NUM_BDL_ENTRIES - 1 /\ g \in Nat
    BY <2>1, Gaps, SoundAssumption
  <2>3. /\ (lvi - civ) % NUM_BDL_ENTRIES = g
        /\ \A k \in 1 .. g + 1 : at(k) \in Slot /\ Gap(civ, at(k)) = k - 1
    <3>1. 1 \in 1 .. g + 1
      BY <2>2
    <3> QED
      BY <2>1, <3>1, QueueSlots, Zenon
  <2>4. Queue = [k \in 1 .. g + 1 |-> ring_buffer[at(k)]]
    BY <1>2, <2>3, Zenon DEF Queue
  <2> HIDE DEF g, at
  <2>5. Len(Queue) = g + 1 /\ \A k \in 1 .. g + 1 : Queue[k] = ring_buffer[at(k)]
    BY <2>2, <2>4
  <2>6. /\ ring_buffer[civ].addr = heard
        /\ \A i \in Slot : Ahead(i) =>
             /\ Piece(sounding, ring_buffer[i])
             /\ i # lvi => ring_buffer[next_slot(i)].addr = End(ring_buffer[i])
    BY <1>2, Zenon DEF SoundInv, Chained
  <2>7. Queue[1].addr = heard
    <3>1. 1 \in 1 .. g + 1 /\ at(1) \in Slot /\ Gap(civ, at(1)) = 0
      BY <2>2, <2>3
    <3>2. at(1) = civ
      BY <2>1, <3>1, Gaps, Zenon
    <3> QED
      BY <2>5, <2>6, <3>1, <3>2, Zenon
  <2>8. ASSUME NEW k \in 1 .. g + 1
        PROVE  /\ sounding[1] <= Queue[k].addr /\ End(Queue[k]) <= sounding[2]
               /\ k > 1 => Queue[k].addr = End(Queue[k - 1])
    <3>1. at(k) \in Slot /\ Gap(civ, at(k)) = k - 1 /\ Ahead(at(k))
      BY <2>2, <2>3 DEF Ahead, g
    <3>2. sounding[1] <= Queue[k].addr /\ End(Queue[k]) <= sounding[2]
      BY <2>5, <2>6, <3>1, Zenon DEF Piece
    <3>3. ASSUME k > 1 PROVE Queue[k].addr = End(Queue[k - 1])
      <4>1. k - 1 \in 1 .. g + 1
        BY <2>2, <3>3
      <4>2. at(k - 1) \in Slot /\ Gap(civ, at(k - 1)) = k - 2 /\ Ahead(at(k - 1))
        <5>1. at(k - 1) \in Slot /\ Gap(civ, at(k - 1)) = k - 1 - 1
          BY <2>3, <4>1, Zenon
        <5>2. k - 2 <= g /\ k - 1 - 1 = k - 2
          BY <2>2
        <5> QED
          BY <5>1, <5>2, Zenon DEF Ahead, g
      <4>3. k - 2 < NUM_BDL_ENTRIES - 1 /\ k - 2 # g /\ k - 2 + 1 = k - 1
        BY <2>2, <3>3, SoundAssumption
      <4>4. at(k - 1) # lvi
        BY <4>2, <4>3, Zenon DEF g
      <4>5. next_slot(at(k - 1)) \in Slot /\ Gap(civ, next_slot(at(k - 1))) = k - 1
        BY <2>1, <4>2, <4>3, Gaps, NextSlot
      <4>6. next_slot(at(k - 1)) = at(k)
        BY <2>1, <3>1, <4>5, SameGap, Zenon
      <4>7. ring_buffer[at(k)].addr = End(ring_buffer[at(k - 1)])
        BY <2>6, <4>2, <4>4, <4>6, Zenon
      <4> QED
        BY <2>5, <4>1, <4>7, Zenon
    <3> QED
      BY <3>2, <3>3, Zenon
  <2> QED
    BY <2>5, <2>7, <2>8, Zenon DEF PlaysTheClip
<1> QED
  BY <1>1, <1>2, Zenon

(* However late interrupts are served and however completions run          *)
(* together, the descriptors ahead of the controller are consecutive       *)
(* pieces of the clip, and one that has run dry has a refill coming: for   *)
(* every ring size, buffer size and set of clips.                          *)
THEOREM SoundIsSupplied == SndSpec => []SoundSupplied
<1>1. SoundInv => SoundSupplied
  BY QueueIsClip, Zenon DEF SoundSupplied, SoundInv
<1> QED
  BY SoundStarts, SoundSteps, <1>1, PTL DEF SndSpec

-----------------------------------------------------------------------------
(* The quotient and the remainder.                                         *)
LEMMA DivMod ==
  ASSUME NEW w \in Nat \ {0}, NEW a \in Int
  PROVE  a = w * (a \div w) + (a % w) /\ a % w \in 0 .. w - 1 /\ a \div w \in Int
OBVIOUS

(* The remainder is the only one in range.                                 *)
LEMMA ModUnique ==
  ASSUME NEW w \in Nat \ {0}, NEW q \in Int, NEW r \in 0 .. w - 1
  PROVE  (w * q + r) % w = r
OBVIOUS

(* Multiplication over a sum and a difference.                             *)
LEMMA Distribute ==
  ASSUME NEW a \in Int, NEW b \in Int, NEW c \in Int
  PROVE  (a + b) * c = a * c + b * c /\ (a - b) * c = a * c - b * c
OBVIOUS

(* Whole turns of the counter do not show.                                 *)
LEMMA ModTurn ==
  ASSUME NEW w \in Nat \ {0}, NEW a \in Int, NEW k \in Int
  PROVE  (a - w * k) % w = a % w
<1>1. a = w * (a \div w) + (a % w) /\ a % w \in 0 .. w - 1 /\ a \div w \in Int
  BY DivMod, Zenon
<1>2. a \div w - k \in Int /\ w * (a \div w - k) = w * (a \div w) - w * k
  BY <1>1
<1> DEFINE q == a \div w - k
           r == a % w
<1>3. q \in Int /\ r \in 0 .. w - 1 /\ a - w * k = w * q + r
  BY <1>1, <1>2
<1> HIDE DEF q, r
<1>4. (w * q + r) % w = r
  BY <1>3, ModUnique, Zenon
<1> QED
  BY <1>3, <1>4, Zenon DEF r

(* A sum leaves no more than its first part leaves, plus the second.       *)
LEMMA ModGrows ==
  ASSUME NEW w \in Nat \ {0}, NEW a \in Nat, NEW b \in Nat
  PROVE  (a + b) % w <= (a % w) + b
<1> DEFINE r == a % w
           q == a \div w
<1>1. a = w * q + r /\ r \in 0 .. w - 1 /\ q \in Int
  BY DivMod
<1> HIDE DEF r, q
<1> DEFINE x == a + b
           y == r + b
           p == y \div w
           m == y % w
<1>2. x \in Int /\ y \in Nat /\ y = x - w * q
  BY <1>1
<1>3. y = w * p + m /\ m \in 0 .. w - 1 /\ p \in Int
  <2> HIDE DEF y
  <2>1. y \in Int
    BY <1>2
  <2> QED
    BY <2>1, DivMod, Zenon
<1>4. x % w = m
  <2> HIDE DEF x, y
  <2>1. (x - w * q) % w = x % w
    BY <1>1, <1>2, ModTurn, Zenon
  <2> QED
    BY <1>2, <2>1, Zenon
<1>5. m <= y
  <2> HIDE DEF x, y, p, m
  <2>1. CASE p >= 0
    <3>1. w * p >= 0
      BY <1>3, <2>1
    <3> QED
      BY <1>2, <1>3, <3>1
  <2>2. CASE p < 0
    <3>1. w * p <= -w
      BY <1>3, <2>2
    <3> QED
      BY <1>2, <1>3, <3>1
  <2> QED
    BY <1>3, <2>1, <2>2
<1> HIDE DEF m, p
<1> QED
  BY <1>4, <1>5, Zenon DEF r
-----------------------------------------------------------------------------
Scaled(c) == uacpi_kernel_get_nanoseconds_since_boot(c)

(* The count modulo WIDTH, without the modulus.                            *)
Turned(s, n) == IF s + n < WIDTH THEN s + n ELSE s + n - WIDTH

(* The time that was asked for has passed.                                 *)
Passed ==
  /\ op = "sleep_ms" => el >= asked
  /\ op = "timeout" /\ ~condition => el >= asked
  /\ op = "uacpi" => el * NANO > (asked - 1) * FREQ

ClockInv ==
  /\ now \in 0 .. WIDTH - 1 /\ start \in 0 .. WIDTH - 1 /\ el \in 0 .. WIDTH
  /\ asked \in Nat /\ condition \in BOOLEAN
  /\ op \in {"none", "sleep_ms", "timeout", "uacpi"}
  /\ result \in {"none", "busy", "over", "ok", "late"}
  /\ op = "none" <=> result = "none"
  /\ op # "none" /\ el < WIDTH => now = Turned(start, el)
  /\ op \in {"sleep_ms", "timeout"} => limit = asked /\ asked <= WIDTH
  /\ op = "uacpi" => limit = Scaled(start) + asked
  /\ result \in {"over", "ok", "late"} => Passed
  /\ result = "late" => op = "timeout" /\ ~condition

(* timer_interrupt_handler()'s increment (time.c:27-30).                   *)
LEMMA CountMod ==
  ASSUME NEW k \in 0 .. WIDTH - 1
  PROVE  (k + 1) % WIDTH = IF k + 1 < WIDTH THEN k + 1 ELSE 0
<1> USE ClockAssumption
<1>1. CASE k + 1 < WIDTH
  BY <1>1
<1>2. CASE k + 1 = WIDTH
  BY <1>2
<1> QED
  BY <1>1, <1>2

(* The difference that sleep_ms() and timeout() take, tick_count - start   *)
(* in 32 bits, is the count since the call (time.c:48-54, time.h:7-15).    *)
LEMMA Difference ==
  ASSUME NEW s \in 0 .. WIDTH - 1, NEW n \in 0 .. WIDTH - 1
  PROVE  (Turned(s, n) - s) % WIDTH = n
<1> USE ClockAssumption
<1>1. CASE s + n < WIDTH
  <2>1. Turned(s, n) - s = n
    BY <1>1 DEF Turned
  <2> QED
    BY <2>1
<1>2. CASE s + n >= WIDTH
  <2>1. Turned(s, n) - s = n - WIDTH
    BY <1>2 DEF Turned
  <2>2. (n - WIDTH) % WIDTH = n
    OBVIOUS
  <2> QED
    BY <2>1, <2>2, Zenon
<1> QED
  BY <1>1, <1>2

(* The bounds of uACPI's scaled clock.                                     *)
LEMMA ScaledBounds ==
  ASSUME NEW c \in Nat
  PROVE  /\ Scaled(c) \in Nat /\ Scaled(c) <= (WIDTH - 1) \div FREQ
         /\ Scaled(c) * FREQ <= (c * NANO) % WIDTH
         /\ (c * NANO) % WIDTH < (Scaled(c) + 1) * FREQ
         /\ (c * NANO) % WIDTH \in 0 .. WIDTH - 1
<1> DEFINE r == (c * NANO) % WIDTH
           x == r \div FREQ
           z == (WIDTH - 1) \div FREQ
<1>0. WIDTH \in Nat \ {0} /\ NANO \in Nat \ {0} /\ FREQ \in Nat \ {0}
  BY ClockAssumption, Zenon
<1>1. r \in 0 .. WIDTH - 1
  <2>1. c * NANO \in Int
    BY <1>0
  <2> QED
    BY <1>0, <2>1, DivMod, Zenon
<1>2. Scaled(c) = x
  BY Zenon DEF Scaled, uacpi_kernel_get_nanoseconds_since_boot
<1> HIDE DEF r
<1>3. r = FREQ * x + (r % FREQ) /\ r % FREQ \in 0 .. FREQ - 1 /\ x \in Int
  BY <1>0, <1>1
<1>4. WIDTH - 1 = FREQ * z + ((WIDTH - 1) % FREQ) /\ (WIDTH - 1) % FREQ \in 0 .. FREQ - 1 /\ z \in Int
  <2> DEFINE v == WIDTH - 1
  <2>1. v \in Int
    BY <1>0
  <2> HIDE DEF v
  <2>2. v = FREQ * (v \div FREQ) + (v % FREQ) /\ v % FREQ \in 0 .. FREQ - 1 /\ v \div FREQ \in Int
    BY <1>0, <2>1
  <2> QED
    BY <2>2, Zenon DEF v
<1> DEFINE e == r % FREQ
           g == (WIDTH - 1) % FREQ
<1>5. r = FREQ * x + e /\ e \in 0 .. FREQ - 1 /\ WIDTH - 1 = FREQ * z + g /\ g \in 0 .. FREQ - 1
  BY <1>3, <1>4, Zenon
<1> HIDE DEF x, z, e, g
<1>6. x \in Nat
  <2>1. ASSUME x < 0 PROVE FALSE
    <3>1. FREQ * x <= -FREQ
      BY <1>0, <1>3, <2>1
    <3> QED
      BY <1>0, <1>1, <1>3, <1>5, <3>1
  <2> QED
    BY <1>3, <2>1
<1>7. x <= z
  <2>1. ASSUME z + 1 <= x PROVE FALSE
    <3>1. FREQ * (z + 1) <= FREQ * x /\ FREQ * (z + 1) = FREQ * z + FREQ
      BY <1>0, <1>3, <1>4, <2>1
    <3> QED
      BY <1>0, <1>1, <1>3, <1>4, <1>5, <3>1
  <2> QED
    BY <1>3, <1>4, <2>1
<1>8. x * FREQ <= r /\ r < (x + 1) * FREQ
  BY <1>0, <1>3, <1>5
<1> QED
  BY <1>1, <1>2, <1>6, <1>7, <1>8, Zenon DEF z, r

(* The scaled clock reaches the target only when the cycles that have      *)
(* passed make up the delay, to within a nanosecond.                       *)
LEMMA UacpiPassed ==
  ASSUME ClockInv, op = "uacpi", Scaled(now) >= limit
  PROVE  el * NANO > (asked - 1) * FREQ
<1> DEFINE r == (start * NANO) % WIDTH
           t == (now * NANO) % WIDTH
           x == Scaled(start)
           y == Scaled(now)
           k == el * NANO
<1>0. WIDTH \in Nat \ {0} /\ NANO \in Nat \ {0} /\ FREQ \in Nat \ {0}
  BY ClockAssumption, Zenon
<1>1. /\ start \in 0 .. WIDTH - 1 /\ now \in 0 .. WIDTH - 1 /\ el \in 0 .. WIDTH /\ asked \in Nat
      /\ y >= x + asked
  BY Zenon DEF ClockInv
<1>2. /\ x \in Nat /\ r < (x + 1) * FREQ /\ r \in 0 .. WIDTH - 1
      /\ y \in Nat /\ y * FREQ <= t /\ t \in 0 .. WIDTH - 1
  BY <1>0, <1>1, ScaledBounds
<1>3. k \in Nat
  BY <1>0, <1>1
<1>4. (x + asked) * FREQ <= t
  <2> HIDE DEF x, y, t
  <2>1. (x + asked) * FREQ <= y * FREQ
    BY <1>0, <1>1, <1>2
  <2>2. (x + asked) * FREQ \in Int /\ y * FREQ \in Int
    BY <1>0, <1>1, <1>2
  <2> QED
    BY <1>2, <2>1, <2>2
<1>5. CASE el = WIDTH
  <2>1. k >= WIDTH
    BY <1>0, <1>5
  <2> HIDE DEF x, t, k
  <2>2. (asked - 1) * FREQ <= (x + asked) * FREQ
    BY <1>0, <1>1, <1>2
  <2>3. (asked - 1) * FREQ \in Int /\ (x + asked) * FREQ \in Int
    BY <1>0, <1>1, <1>2
  <2>4. k > (asked - 1) * FREQ
    BY <1>0, <1>2, <1>3, <1>4, <2>1, <2>2, <2>3
  <2> QED
    BY <2>4, Zenon DEF k
<1>6. CASE el < WIDTH
  <2>1. t <= r + k
    <3>1. now = start + el \/ now = start + el - WIDTH
      BY <1>6, Zenon DEF ClockInv, Turned
    <3> DEFINE a == start * NANO
               b == a + k
    <3>2. a \in Nat /\ b \in Int /\ NANO \in Int
      BY <1>0, <1>1, <1>3
    <3>3. now * NANO = b \/ now * NANO = b - WIDTH * NANO
      BY <1>0, <1>1, <3>1
    <3>4. t = b % WIDTH
      <4> DEFINE c == now * NANO
      <4> HIDE DEF b, c
      <4>1. c = b \/ c = b - WIDTH * NANO
        BY <3>3, Zenon DEF c
      <4>2. c % WIDTH = b % WIDTH
        BY <1>0, <3>2, <4>1, ModTurn, ZenonT(30)
      <4> QED
        BY <4>2, Zenon DEF c
    <3>5. b % WIDTH <= (a % WIDTH) + k
      <4> HIDE DEF a, k
      <4> QED
        BY <1>0, <1>3, <3>2, ModGrows, Zenon
    <3> QED
      BY <3>4, <3>5, Zenon
  <2> HIDE DEF x, y, r, t, k
  <2>2. (x + asked) * FREQ < k + (x + 1) * FREQ
    <3>1. (x + asked) * FREQ \in Int /\ (x + 1) * FREQ \in Int
      BY <1>0, <1>1, <1>2
    <3> QED
      BY <1>2, <1>3, <1>4, <2>1, <3>1
  <2>3. (x + asked) * FREQ = (x + 1) * FREQ + (asked - 1) * FREQ
    <3> DEFINE u == x + 1
               v == asked - 1
    <3>1. u \in Int /\ v \in Int /\ FREQ \in Int /\ u + v = x + asked
      BY <1>0, <1>1, <1>2
    <3> HIDE DEF u, v
    <3>2. (u + v) * FREQ = u * FREQ + v * FREQ
      BY <3>1, Distribute, Zenon
    <3> QED
      BY <3>1, <3>2, Zenon DEF u, v
  <2>4. k > (asked - 1) * FREQ
    <3>1. (x + 1) * FREQ \in Int /\ (asked - 1) * FREQ \in Int
      BY <1>0, <1>1, <1>2
    <3> QED
      BY <1>3, <2>2, <2>3, <3>1
  <2> QED
    BY <2>4, Zenon DEF k
<1>7. el = WIDTH \/ el < WIDTH
  BY <1>0, <1>1
<1> QED
  BY <1>5, <1>6, <1>7, Zenon

(* When the loop ends the time has passed.                                 *)
LEMMA WaitedLongEnough ==
  ASSUME ClockInv, op # "none", ~Waiting
  PROVE  Passed
<1>0. WIDTH \in Nat \ {0} /\ asked \in Nat
  BY ClockAssumption, Zenon DEF ClockInv
<1>1. ASSUME op \in {"sleep_ms", "timeout"}, ~((now - start) % WIDTH < limit)
      PROVE  el >= asked
  <2>1. limit = asked /\ asked <= WIDTH /\ el \in 0 .. WIDTH
    BY <1>1, Zenon DEF ClockInv
  <2>2. CASE el = WIDTH
    BY <1>0, <2>1, <2>2, Zenon
  <2>3. CASE el < WIDTH
    <3>1. now = Turned(start, el) /\ start \in 0 .. WIDTH - 1 /\ el \in 0 .. WIDTH - 1
      BY <1>0, <1>1, <2>1, <2>3 DEF ClockInv
    <3>2. (now - start) % WIDTH = el
      BY <3>1, Difference, Zenon
    <3> QED
      BY <1>0, <1>1, <2>1, <3>2
  <2> QED
    BY <1>0, <2>1, <2>2, <2>3
<1>2. CASE op = "sleep_ms"
  BY <1>1, <1>2, Zenon DEF Waiting, Passed
<1>3. CASE op = "timeout"
  BY <1>1, <1>3, Zenon DEF Waiting, Passed
<1>4. CASE op = "uacpi"
  <2>1. now \in Nat /\ start \in Nat
    BY <1>0 DEF ClockInv
  <2>2. Scaled(now) \in Nat /\ Scaled(start) \in Nat
    BY <2>1, ScaledBounds, Zenon
  <2>3. limit = Scaled(start) + asked /\ ~(Scaled(now) < limit)
    BY <1>4, Zenon DEF ClockInv, Waiting, Scaled
  <2>4. Scaled(now) >= limit
    BY <1>0, <2>2, <2>3
  <2> QED
    BY <1>4, <2>4, UacpiPassed, Zenon DEF Passed
<1> QED
  BY <1>2, <1>3, <1>4, Zenon DEF ClockInv

(* A call starts the count afresh (time.c:48-58, time.h:7-15,              *)
(* kernel_api.c:403-428).                                                  *)
LEMMA EnterStep ==
  ASSUME ClockInv, NEW f \in {"sleep_ms", "timeout", "uacpi"}, NEW l, NEW a \in Nat,
         Enter(f, l, a),
         f \in {"sleep_ms", "timeout"} => l = a /\ a <= WIDTH,
         f = "uacpi" => l = Scaled(now) + a
  PROVE  ClockInv'
<1>1. /\ op' = f /\ start' = now /\ limit' = l /\ asked' = a /\ el' = 0 /\ result' = "busy"
      /\ now' = now /\ condition' \in BOOLEAN
  BY Zenon DEF Enter
<1>2. now \in 0 .. WIDTH - 1 /\ WIDTH \in Nat \ {0}
  BY ClockAssumption, Zenon DEF ClockInv
<1>3. now' = Turned(start', el') /\ el' \in 0 .. WIDTH
  BY <1>1, <1>2 DEF Turned
<1>4. f = "uacpi" => limit' = Scaled(start') + asked'
  BY <1>1, Zenon DEF Scaled
<1> QED
  BY <1>1, <1>2, <1>3, <1>4, Zenon DEF ClockInv

(* A tick, or a cycle (time.c:27-30).                                      *)
LEMMA CountStep ==
  ASSUME ClockInv, count
  PROVE  ClockInv'
<1>0. /\ WIDTH \in Nat \ {0} /\ NANO \in Nat \ {0} /\ FREQ \in Nat \ {0}
      /\ now \in 0 .. WIDTH - 1 /\ start \in 0 .. WIDTH - 1 /\ el \in 0 .. WIDTH /\ asked \in Nat
  BY ClockAssumption, Zenon DEF ClockInv
<1>1. UNCHANGED <<op, start, limit, asked, condition, result>>
  BY Zenon DEF count
<1>2. now' = (IF now + 1 < WIDTH THEN now + 1 ELSE 0) /\ now' \in 0 .. WIDTH - 1
  BY <1>0, CountMod DEF count
<1>3. el' \in 0 .. WIDTH /\ el' >= el /\ (op # "none" /\ el' < WIDTH => el < WIDTH /\ el' = el + 1)
  BY <1>0 DEF count, MaxEl
<1>4. op # "none" /\ el' < WIDTH => now' = Turned(start', el')
  BY <1>0, <1>1, <1>2, <1>3 DEF ClockInv, Turned
<1>5. Passed => Passed'
  <2>1. el' * NANO >= el * NANO /\ el' * NANO \in Int /\ el * NANO \in Int /\ (asked - 1) * FREQ \in Int
    <3>1. \A a, b, c \in Nat : a <= b => a * c <= b * c
      OBVIOUS
    <3>2. el \in Nat /\ el' \in Nat /\ NANO \in Nat /\ el <= el'
      BY <1>0, <1>3
    <3>3. el * NANO <= el' * NANO
      BY <3>1, <3>2, Zenon
    <3>4. \A a, b \in Int : a * b \in Int
      OBVIOUS
    <3>5. el * NANO \in Int /\ el' * NANO \in Int
      BY <3>2, <3>4
    <3>6. (asked - 1) * FREQ \in Int
      BY <1>0, <3>4
    <3> QED
      BY <3>3, <3>5, <3>6, Zenon
  <2>2. el * NANO > (asked - 1) * FREQ => el' * NANO > (asked' - 1) * FREQ
    BY <1>1, <2>1
  <2>3. el >= asked => el' >= asked'
    BY <1>0, <1>1, <1>3
  <2> QED
    BY <1>1, <2>2, <2>3, Zenon DEF Passed
<1>6. op' = "uacpi" => limit' = Scaled(start') + asked'
  BY <1>1, Zenon DEF ClockInv, Scaled
<1>7. /\ op \in {"none", "sleep_ms", "timeout", "uacpi"} /\ condition \in BOOLEAN
      /\ result \in {"none", "busy", "over", "ok", "late"}
      /\ op = "none" <=> result = "none"
      /\ op \in {"sleep_ms", "timeout"} => limit = asked /\ asked <= WIDTH
      /\ result \in {"over", "ok", "late"} => Passed
      /\ result = "late" => op = "timeout" /\ ~condition
  BY Zenon DEF ClockInv
<1> QED
  BY <1>0, <1>1, <1>2, <1>3, <1>4, <1>5, <1>6, <1>7, Zenon DEF ClockInv

(* The loop's test, and the test after the loop.                           *)
LEMMA PollStep ==
  ASSUME ClockInv, poll
  PROVE  ClockInv'
<1>1. UNCHANGED <<now, op, start, limit, asked, el, condition>>
  BY Zenon DEF poll
<1>2. Passed => Passed'
  BY <1>1, Zenon DEF Passed
<1>3. op' = "uacpi" => limit' = Scaled(start') + asked'
  BY <1>1, Zenon DEF ClockInv, Scaled
<1>4. op # "none" /\ result' \in {"busy", "over", "ok", "late"}
  BY Zenon DEF poll, ClockInv
<1>5. result' \in {"over", "ok", "late"} => Passed
  BY <1>4, WaitedLongEnough, Zenon DEF poll, ClockInv
<1>6. result' = "late" => op = "timeout" /\ ~condition
  BY Zenon DEF poll
<1>7. op # "none" /\ el < WIDTH => now' = Turned(start', el')
  BY <1>1, Zenon DEF ClockInv, Turned
<1> QED
  BY <1>1, <1>2, <1>3, <1>4, <1>5, <1>6, <1>7, Zenon DEF ClockInv

(* ClockInv holds in every reachable state.                                *)
LEMMA ClockKept == CSpec => []ClockInv
<1>1. CInit => ClockInv
  <2> SUFFICES ASSUME CInit PROVE ClockInv
    BY Zenon
  <2>1. condition \in BOOLEAN
    BY Zenon DEF CInit
  <2>2. 0 \in 0 .. WIDTH - 1 /\ 0 \in 0 .. WIDTH
    BY ClockAssumption
  <2> QED
    BY <2>1, <2>2, Zenon DEF CInit, ClockInv
<1>2. ClockInv /\ [CNext]_clock_vars => ClockInv'
  <2> SUFFICES ASSUME ClockInv, [CNext]_clock_vars PROVE ClockInv'
    BY Zenon
  <2>0. WIDTH \in Nat \ {0} /\ TIMER_HZ \in Nat /\ MaxGap \in Nat /\ now \in Nat
        /\ \A d \in Delays : d \in Nat /\ d <= WIDTH /\ d + (WIDTH - 1) \div FREQ < WIDTH
    BY ClockAssumption DEF ClockInv
  <2>1. ASSUME NEW d \in Delays, sleep_ms(d) PROVE ClockInv'
    BY <2>0, <2>1, EnterStep, Zenon DEF sleep_ms
  <2>2. ASSUME NEW d \in Delays, sleep(d) PROVE ClockInv'
    <3> DEFINE t == d * TIMER_HZ
    <3>1. t \in Nat /\ t <= WIDTH /\ Enter("sleep_ms", t, t)
      BY <2>0, <2>2 DEF sleep
    <3> HIDE DEF t
    <3> QED
      BY <3>1, EnterStep, Zenon
  <2>3. ASSUME NEW d \in Delays, timeout(d) PROVE ClockInv'
    BY <2>0, <2>3, EnterStep, Zenon DEF timeout
  <2>4. ASSUME NEW d \in Delays, uacpi_kernel_stall(d) PROVE ClockInv'
    <3> DEFINE l == (uacpi_kernel_get_nanoseconds_since_boot(now) + d) % WIDTH
    <3>1. l = Scaled(now) + d
      <4>1. Scaled(now) \in Nat /\ Scaled(now) <= (WIDTH - 1) \div FREQ
        BY <2>0, ScaledBounds, Zenon
      <4>2. (WIDTH - 1) \div FREQ \in Int
        BY <2>0, ClockAssumption
      <4>3. Scaled(now) + d \in 0 .. WIDTH - 1
        <5> DEFINE z == (WIDTH - 1) \div FREQ
        <5>1. z \in Int /\ Scaled(now) <= z /\ d + z < WIDTH
          BY <2>0, <4>1, <4>2, Zenon
        <5> HIDE DEF z
        <5> QED
          BY <2>0, <4>1, <5>1
      <4>4. \A k \in 0 .. WIDTH - 1 : k % WIDTH = k
        BY <2>0
      <4> QED
        BY <4>3, <4>4, Zenon DEF Scaled
    <3>2. Enter("uacpi", l, d)
      BY <2>4, Zenon DEF uacpi_kernel_stall
    <3> HIDE DEF l
    <3> QED
      BY <2>0, <3>1, <3>2, EnterStep, Zenon
  <2>5. CASE poll
    BY <2>5, PollStep, Zenon
  <2>6. CASE leave
    <3>1. condition' \in BOOLEAN
      BY <2>6, Zenon DEF leave
    <3>2. 0 \in 0 .. WIDTH - 1 /\ 0 \in 0 .. WIDTH
      BY <2>0
    <3> QED
      BY <2>6, <3>1, <3>2, Zenon DEF leave, ClockInv
  <2>7. CASE count
    BY <2>7, CountStep, Zenon
  <2>8. CASE answer
    <3>1. Passed => Passed'
      BY <2>8, Zenon DEF answer, Passed
    <3>2. op' = "uacpi" => limit' = Scaled(start') + asked'
      BY <2>8, Zenon DEF answer, ClockInv, Scaled
    <3>3. op # "none" /\ el < WIDTH => now' = Turned(start', el')
      BY <2>8, Zenon DEF answer, ClockInv, Turned
    <3>4. condition' \in BOOLEAN
      BY <2>8, Zenon DEF answer
    <3> QED
      BY <2>8, <3>1, <3>2, <3>3, <3>4, Zenon DEF answer, ClockInv
  <2>9. CASE UNCHANGED clock_vars
    <3>1. Passed => Passed'
      BY <2>9, Zenon DEF clock_vars, Passed
    <3>2. op' = "uacpi" => limit' = Scaled(start') + asked'
      BY <2>9, Zenon DEF clock_vars, ClockInv, Scaled
    <3>3. op # "none" /\ el < WIDTH => now' = Turned(start', el')
      BY <2>9, Zenon DEF clock_vars, ClockInv, Turned
    <3> QED
      BY <2>9, <3>1, <3>2, <3>3, Zenon DEF clock_vars, ClockInv
  <2> QED
    BY <2>1, <2>2, <2>3, <2>4, <2>5, <2>6, <2>7, <2>8, <2>9, Zenon DEF CNext
<1> QED
  BY <1>1, <1>2, PTL DEF CSpec

(* No wait ends early: not sleep() or sleep_ms(), not timeout(), and not   *)
(* uACPI's by a nanosecond, wherever in its range the counter starts and   *)
(* however often it wraps (time.c:48-58, time.h:7-15).                     *)
THEOREM WaitsLastLongEnough == CSpec => []NeverEarly
<1>1. ClockInv => NeverEarly
  BY Zenon DEF ClockInv, Passed, NeverEarly
<1> QED
  BY <1>1, ClockKept, PTL
=============================================================================
