------------------------- MODULE KeyboardFifoProofs -------------------------
(***************************************************************************)
(* Proofs about the keyboard rings, for any number of listeners, levels,   *)
(* slots and keys.  Indices and events stay within bounds in every mode.   *)
(* Without preemption register_keyboard_listener() never gives one level   *)
(* to two listeners; the run keyboard_claim shows that with preemption it  *)
(* does.                                                                   *)
(*                                                                         *)
(* Without preemption, and with listeners that stay, a ring is a queue.    *)
(* Keys are numbered in the order they are pressed, so a ring that holds n *)
(* keys holds the last n: the key in a slot follows from the distance of   *)
(* the slot from the head.  A poll that a key press interrupts is the      *)
(* difficult case: when the ring is full the tail moves on over the entry  *)
(* the poll is about to copy, which is not overwritten before the poll     *)
(* ends.                                                                   *)
(*                                                                         *)
(* With preemption any number of keys may be pressed during a poll, so a   *)
(* poll may write back a tail that the keys have overtaken.  What remains  *)
(* is an order: behind the head there is a stretch of slots whose keys     *)
(* rise, the entries from the tail lie in it and are newer than the last   *)
(* key the listener was given, and so does the slot a poll has in hand.    *)
(***************************************************************************)
EXTENDS KeyboardQueue, TLAPS

(* succ() stays inside the ring (keyboard.c:25, 60).                       *)
LEMMA SuccInRing == \A i \in Index : succ(i) \in Index
  BY RingAssumption, SMT DEF succ, Index

(* Every level has a first slot, which boot and remove_keyboard_listener() *)
(* reset its indices to (keyboard.c:151-156).                              *)
LEMMA ZeroInRange == 0 \in Index /\ 0 \in Levels /\ 0 \in Keys
  BY RingAssumption, QueueLevelsAssumption, MaxKeysAssumption, SMT
     DEF Index, Levels, Keys

(* Copying one field of an event leaves a pair of keys (keyboard.c:63).    *)
LEMMA CopyField ==
  ASSUME NEW o \in Keys \X Keys, NEW k \in Keys
  PROVE  [o EXCEPT ![1] = k] \in Keys \X Keys /\ [o EXCEPT ![2] = k] \in Keys \X Keys
<1>1. o = <<o[1], o[2]>> /\ o[1] \in Keys /\ o[2] \in Keys
  OBVIOUS
<1>2. [o EXCEPT ![1] = k] = <<k, o[2]>>
  BY <1>1
<1>3. [o EXCEPT ![2] = k] = <<o[1], k>>
  BY <1>1
<1> QED
  BY <1>1, <1>2, <1>3

-----------------------------------------------------------------------------
(* Type correctness                                                        *)

(* The initial state, rings zeroed and nobody registered, is well typed.   *)
LEMMA TypeInit == Init => TypeOK
  BY ZeroInRange, MaxKeysAssumption DEF Init, TypeOK, RestPoints, Keys

(* The interrupt handler keeps every ring and index in bounds              *)
(* (keyboard.c:14-43).                                                     *)
LEMMA PushType == TypeOK /\ keyboard_push => TypeOK'
<1> SUFFICES ASSUME TypeOK, keyboard_push PROVE TypeOK'
  BY Zenon
<1>1. pressed' \in Keys /\ pressed' = pressed + 1 /\ pressed' \in 0 .. MaxKeys
  BY MaxKeysAssumption DEF TypeOK, keyboard_push, Keys
<1>2. ring' \in [Levels -> [Index -> Keys]]
  BY <1>1, Zenon DEF TypeOK, keyboard_push
<1>3. head' \in [Levels -> Index] /\ tail' \in [Levels -> Index]
  BY SuccInRing, Zenon DEF TypeOK, keyboard_push
<1>4. pc' \in [Listeners -> RestPoints \cup WaitPoints \cup CallPoints]
  BY Zenon DEF TypeOK, keyboard_push, RestPoints
<1>5. during' \in [Listeners -> 0 .. 1]
  BY DEF TypeOK, keyboard_push
<1> QED
  BY <1>1, <1>2, <1>3, <1>4, <1>5, Zenon DEF TypeOK, keyboard_push, poll_vars

(* So does every step of a listener's calls (keyboard.c:49-156).           *)
LEMMA ListenerType ==
  ASSUME NEW p \in Listeners, TypeOK,
         \/ timer_tick(p)
         \/ keyboard_block_read(p)
         \/ register_keyboard_listener(p)
         \/ remove_keyboard_listener(p)
  PROVE  TypeOK'
<1> USE DEF TypeOK, queue_vars, poll_vars, Begin, Step, RestPoints, WaitPoints, CallPoints
<1>1. CASE timer_tick(p)
  BY <1>1, Zenon DEF timer_tick
<1>2. CASE poll_head(p)
  BY <1>2 DEF poll_head
<1>3. CASE poll_tail(p)
  BY <1>3, Zenon DEF poll_tail
<1>4. CASE poll_compare(p)
  BY <1>4, Zenon DEF poll_compare
<1>5. CASE poll_copy_first(p)
  <2>1. ring[lvl[p]][t[p]] \in Keys
    OBVIOUS
  <2>2. out' = [out EXCEPT ![p] = [out[p] EXCEPT ![1] = ring[lvl[p]][t[p]]]]
    BY <1>5, Zenon DEF poll_copy_first
  <2>3. out' \in [Listeners -> Keys \X Keys]
    BY <2>1, <2>2, CopyField, Zenon
  <2> QED
    BY <1>5, <2>3, Zenon DEF poll_copy_first
<1>6. CASE poll_copy_rest(p)
  <2>1. ring[lvl[p]][t[p]] \in Keys
    OBVIOUS
  <2>2. out' = [out EXCEPT ![p] = [out[p] EXCEPT ![2] = ring[lvl[p]][t[p]]]]
    BY <1>6, Zenon DEF poll_copy_rest
  <2>3. out' \in [Listeners -> Keys \X Keys]
    BY <2>1, <2>2, CopyField, Zenon
  <2> QED
    BY <1>6, <2>3, Zenon DEF poll_copy_rest
<1>7. CASE poll_advance(p)
  <2>1. out[p][2] \in Keys /\ succ(t[p]) \in Index
    BY SuccInRing, Zenon
  <2> QED
    BY <1>7, <2>1, Zenon DEF poll_advance
<1>8. CASE register_scan(p)
  <2>1. lvl' \in [Listeners -> Levels]
    BY <1>8, Zenon DEF register_scan, Unused
  <2>2. \E to \in {"panic", "claim"} : Begin(p, "off", to)
    BY <1>8, Zenon DEF register_scan
  <2>3. UNCHANGED <<queue_vars, pressed, poll_vars, last>>
    BY <1>8, Zenon DEF register_scan
  <2> QED
    BY <2>1, <2>2, <2>3
<1>9. CASE register_claim(p)
  BY <1>9, ZeroInRange, Zenon DEF register_claim
<1>10. CASE remove_head(p)
  BY <1>10, ZeroInRange DEF remove_head
<1>11. CASE remove_tail(p)
  BY <1>11, ZeroInRange, Zenon DEF remove_tail
<1>12. CASE remove_used(p)
  BY <1>12, Zenon DEF remove_used
<1> QED
  BY <1>1, <1>2, <1>3, <1>4, <1>5, <1>6, <1>7, <1>8, <1>9, <1>10, <1>11, <1>12, Zenon
     DEF keyboard_block_read, register_keyboard_listener, remove_keyboard_listener

(* Whatever is preempted where, keyboard.c indexes its rings in bounds and *)
(* hands out only events that were pushed or the zeroed one.               *)
THEOREM RingsTyped == Spec => []TypeOK
<1>1. TypeOK /\ [Next]_vars => TypeOK'
  <2> SUFFICES ASSUME TypeOK, [Next]_vars PROVE TypeOK'
    BY Zenon
  <2>1. CASE keyboard_push
    BY <2>1, PushType, Zenon
  <2>2. CASE UNCHANGED vars
    BY <2>2, Zenon DEF vars, queue_vars, poll_vars, TypeOK
  <2> QED
    BY <2>1, <2>2, ListenerType, Zenon DEF Next
<1> QED
  BY <1>1, TypeInit, PTL DEF Spec

-----------------------------------------------------------------------------
(* One listener per level                                                  *)

(* Why it holds without preemption: at most one listener is inside a call, *)
(* so the level it has found is still unused when it claims it.            *)
Exclusive ==
  /\ \A p, q \in Listeners : InCall(p) /\ InCall(q) => p = q
  /\ \A p \in Listeners : pc[p] = "claim" => ~used[lvl[p]]
  /\ \A p \in Listeners : Registered(p) => used[lvl[p]]
  /\ OneListenerPerLevel

(* A key press changes nobody's level or claim (keyboard.c:14-43).         *)
LEMMA PushExclusive == TypeOK /\ Exclusive /\ keyboard_push => Exclusive'
<1> SUFFICES ASSUME TypeOK, Exclusive, keyboard_push PROVE Exclusive'
  BY Zenon
<1>1. \A p \in Listeners : /\ InCall(p)' <=> InCall(p)
                           /\ (pc[p] = "claim")' <=> pc[p] = "claim"
                           /\ Registered(p)' <=> Registered(p)
  BY Zenon DEF TypeOK, keyboard_push, InCall, CallPoints, Registered
<1>2. lvl' = lvl /\ used' = used
  BY Zenon DEF keyboard_push
<1> QED
  BY <1>1, <1>2, Zenon DEF Exclusive, OneListenerPerLevel

(* A step of a listener's calls keeps it (keyboard.c:49-156).              *)
LEMMA ListenerExclusive ==
  ASSUME ~Preemptive, NEW p \in Listeners, TypeOK, Exclusive,
         \/ timer_tick(p)
         \/ keyboard_block_read(p)
         \/ register_keyboard_listener(p)
         \/ remove_keyboard_listener(p)
  PROVE  Exclusive'
<1> DEFINE Elsewhere == \A q \in Listeners \ {p} : pc'[q] = pc[q] /\ lvl'[q] = lvl[q]
<1> USE DEF TypeOK, Exclusive, OneListenerPerLevel, Registered, InCall, CallPoints,
            Begin, Step, OnCPU, queue_vars
<1>1. CASE timer_tick(p)
  BY <1>1 DEF timer_tick
<1>2. CASE keyboard_block_read(p)
  <2>1. /\ pc[p] \in {"ready", "read_tail", "compare", "copy_first", "copy_rest", "advance"}
        /\ pc'[p] \in {"read_tail", "compare", "hlt", "copy_first", "copy_rest", "advance", "ready"}
        /\ Elsewhere /\ lvl' = lvl /\ used' = used
        /\ \A q \in Listeners \ {p} : ~InCall(q)
    BY <1>2 DEF keyboard_block_read, poll_head, poll_tail, poll_compare, poll_copy_first,
               poll_copy_rest, poll_advance
  <2> QED
    BY <2>1, ZenonT(60)
<1>3. CASE register_scan(p)
  <2>1. pc[p] = "off" /\ pc'[p] \in {"panic", "claim"} /\ Elsewhere /\ used' = used
        /\ \A q \in Listeners \ {p} : ~InCall(q)
    BY <1>3 DEF register_scan
  <2>2. pc'[p] = "claim" => ~used[lvl'[p]]
    BY <1>3 DEF register_scan, Unused
  <2>3. \A q, r \in Listeners : InCall(q)' /\ InCall(r)' => q = r
    BY <2>1, Zenon
  <2>4. \A q \in Listeners : (pc[q] = "claim" => ~used[lvl[q]])'
    BY <2>1, <2>2, Zenon
  <2>5. \A q \in Listeners : Registered(q)' => q # p /\ Registered(q) /\ lvl'[q] = lvl[q]
    BY <2>1, Zenon
  <2>6. \A q \in Listeners : Registered(q)' => used'[lvl'[q]]
    BY <2>1, <2>5, Zenon
  <2>7. OneListenerPerLevel'
    BY <2>5
  <2> QED
    BY ONLY <2>3, <2>4, <2>6, <2>7, Zenon DEF Exclusive
<1>4. CASE register_claim(p)
  BY <1>4 DEF register_claim
<1>5. CASE remove_head(p)
  BY <1>5 DEF remove_head
<1>6. CASE remove_tail(p)
  BY <1>6 DEF remove_tail
<1>7. CASE remove_used(p)
  BY <1>7 DEF remove_used
<1> QED
  BY <1>1, <1>2, <1>3, <1>4, <1>5, <1>6, <1>7, Zenon
     DEF register_keyboard_listener, remove_keyboard_listener

(* Claims stay exclusive.                                                  *)
LEMMA LevelsExclusive ==
  ASSUME ~Preemptive
  PROVE  Spec => []Exclusive
<1>1. Init => Exclusive
  BY DEF Init, Exclusive, OneListenerPerLevel, Registered, InCall, CallPoints
<1>2. TypeOK /\ Exclusive /\ [Next]_vars => Exclusive'
  <2> SUFFICES ASSUME TypeOK, Exclusive, [Next]_vars PROVE Exclusive'
    BY Zenon
  <2>1. CASE keyboard_push
    BY <2>1, PushExclusive, Zenon
  <2>2. CASE UNCHANGED vars
    BY <2>2, Zenon DEF vars, queue_vars, Exclusive, OneListenerPerLevel, Registered, InCall
  <2> QED
    BY <2>1, <2>2, ListenerExclusive, Zenon DEF Next
<1> QED
  BY <1>1, <1>2, RingsTyped, PTL DEF Spec

(* Without preemption register_keyboard_listener() gives every listener a  *)
(* level of its own, whoever comes and goes (keyboard.c:86-110).           *)
THEOREM LevelsNotShared ==
  ASSUME ~Preemptive
  PROVE  Spec => []OneListenerPerLevel
<1>1. Exclusive => OneListenerPerLevel
  BY Zenon DEF Exclusive
<1> QED
  BY <1>1, LevelsExclusive, PTL
-----------------------------------------------------------------------------

(* The number of slots from i up to j, going round.                        *)
Dist(i, j) == IF i <= j THEN j - i ELSE j - i + RING_BUFFER_SIZE

(* The number of keys in a ring.                                           *)
Count(l) == Dist(tail[l], head[l])

(* What the rings hold.                                                    *)
Contents ==
  \A l \in Levels :
    /\ Count(l) <= pressed
    /\ ~used[l] => head[l] = tail[l]
    /\ \A i \in Index :
         Dist(tail[l], i) < Count(l) =>
           ring[l][i] = pressed + 1 - Dist(i, head[l])

(* The entry a poll is about to take is the oldest of its ring, or the one *)
(* that a key press during this poll has just dropped from a full ring.    *)
InPlace(p) ==
  \/ t[p] = tail[lvl[p]] /\ head[lvl[p]] # tail[lvl[p]]
  \/ /\ during[p] = 1
     /\ head[lvl[p]] = t[p] /\ tail[lvl[p]] = succ(t[p])
     /\ ring[lvl[p]][t[p]] = pressed + 1 - RING_BUFFER_SIZE
     /\ last[p] + RING_BUFFER_SIZE <= pressed

(* What a listener knows at each point of its calls.                       *)
Reading(p) ==
  /\ pc[p] \notin {"clear_tail", "clear_used"}
  /\ pc[p] = "read_tail" =>
       IF during[p] = 0 THEN h[p] = head[lvl[p]]
       ELSE head[lvl[p]] # tail[lvl[p]]
  /\ InHand(p) => InPlace(p)
  /\ pc[p] \in {"copy_rest", "advance"} => out[p][1] = ring[lvl[p]][t[p]]
  /\ pc[p] = "advance" => out[p][2] = ring[lvl[p]][t[p]]
  /\ Registered(p) => last[p] + Count(lvl[p]) <= pressed

FifoInv == Contents /\ \A p \in Listeners : Reading(p)

-----------------------------------------------------------------------------
(* Going round the ring                                                    *)

(* succ() without the remainder (keyboard.c:25).                           *)
LEMMA SuccIs ==
  \A i \in Index : succ(i) = IF i = RING_BUFFER_SIZE - 1 THEN 0 ELSE i + 1
  BY RingAssumption, SMT DEF succ, Index

(* The number of keys in a ring is less than its slots.                    *)
LEMMA DistRange ==
  \A i, j \in Index : Dist(i, j) \in Index /\ (Dist(i, j) = 0 <=> i = j)
  BY RingAssumption, SMT DEF Dist, Index

(* Indices and distances are numbers.                                      *)
LEMMA IndexNat == Index \subseteq Nat
  BY DEF Index

(* What moving the head does to the distances (keyboard.c:25-41).          *)
LEMMA HeadMoves ==
  ASSUME NEW hd \in Index, NEW i \in Index, i # succ(hd)
  PROVE  Dist(i, succ(hd)) = Dist(i, hd) + 1
  BY SuccIs, RingAssumption, SMT DEF Dist, Index

(* What moving the tail does to them (keyboard.c:34, 65).                  *)
LEMMA TailMoves ==
  ASSUME NEW tl \in Index, NEW i \in Index, i # tl
  PROVE  Dist(succ(tl), i) = Dist(tl, i) - 1
  BY SuccIs, RingAssumption, SMT DEF Dist, Index

(* Of the slots from a tail to a head, those up to a slot and those after  *)
(* it make up the whole.                                                   *)
LEMMA DistSplits ==
  ASSUME NEW tl \in Index, NEW hd \in Index, NEW i \in Index,
         Dist(tl, i) < Dist(tl, hd)
  PROVE  Dist(i, hd) = Dist(tl, hd) - Dist(tl, i) /\ i # hd
  BY RingAssumption, SMT DEF Dist, Index

(* The distance all the way round but one slot.                            *)
LEMMA DistBack ==
  \A i \in Index : Dist(succ(i), i) = RING_BUFFER_SIZE - 1 /\ succ(i) # i
                    /\ Dist(i, succ(i)) = 1
  BY SuccIs, RingAssumption, SMT DEF Dist, Index

-----------------------------------------------------------------------------
(* The interrupt handler                                                   *)

(* A key press leaves the ring of a level without a listener alone.  In    *)
(* the others the ring grows by the new key, or drops its oldest one for   *)
(* it (keyboard.c:14-43).                                                  *)
LEMMA PushLevel ==
  ASSUME TypeOK, keyboard_push, NEW l \in Levels
  PROVE  /\ ~used[l] => head'[l] = head[l] /\ tail'[l] = tail[l] /\ ring'[l] = ring[l]
         /\ used[l] =>
              /\ head'[l] = succ(head[l])
              /\ head'[l] # tail'[l]
              /\ \A i \in Index \ {head[l]} : ring'[l][i] = ring[l][i]
              /\ ring'[l][head[l]] = pressed + 1
              /\ succ(head[l]) # tail[l] => tail'[l] = tail[l] /\ Dist(tail'[l], head'[l]) = Count(l) + 1
              /\ succ(head[l]) = tail[l] => /\ tail'[l] = succ(tail[l])
                                           /\ Count(l) = RING_BUFFER_SIZE - 1
                                           /\ Dist(tail'[l], head'[l]) = Count(l)
<1>1. head[l] \in Index /\ tail[l] \in Index /\ ring[l] \in [Index -> Keys]
  BY Zenon DEF TypeOK
<1>2. ~used[l] => head'[l] = head[l] /\ tail'[l] = tail[l] /\ ring'[l] = ring[l]
  BY Zenon DEF keyboard_push
<1>3. ASSUME used[l]
      PROVE  /\ head'[l] = succ(head[l])
             /\ ring'[l] = [ring[l] EXCEPT ![head[l]] = pressed + 1]
             /\ tail'[l] = IF succ(head[l]) = tail[l] THEN succ(tail[l]) ELSE tail[l]
  BY <1>3, Zenon DEF keyboard_push, full
<1>4. ASSUME used[l], succ(head[l]) # tail[l]
      PROVE  /\ tail'[l] = tail[l] /\ Dist(tail'[l], head'[l]) = Count(l) + 1
             /\ head'[l] # tail'[l]
  BY <1>1, <1>3, <1>4, HeadMoves, Zenon DEF Count
<1>5. ASSUME used[l], succ(head[l]) = tail[l]
      PROVE  /\ tail'[l] = succ(tail[l]) /\ Count(l) = RING_BUFFER_SIZE - 1
             /\ Dist(tail'[l], head'[l]) = Count(l) /\ head'[l] # tail'[l]
  BY <1>1, <1>3, <1>5, DistBack DEF Count
<1> QED
  BY <1>1, <1>2, <1>3, <1>4, <1>5, Zenon

(* The rings still hold the last keys.                                     *)
LEMMA PushContents ==
  ASSUME TypeOK, Contents, keyboard_push
  PROVE  Contents'
<1> SUFFICES ASSUME NEW l \in Levels
             PROVE  /\ Dist(tail'[l], head'[l]) <= pressed'
                    /\ ~used'[l] => head'[l] = tail'[l]
                    /\ \A i \in Index :
                         Dist(tail'[l], i) < Dist(tail'[l], head'[l]) =>
                           ring'[l][i] = pressed' + 1 - Dist(i, head'[l])
  BY Zenon DEF Contents, Count, Dist
<1>1. pressed' = pressed + 1 /\ used' = used /\ pressed \in Nat
  BY DEF keyboard_push, TypeOK
<1>2. head[l] \in Index /\ tail[l] \in Index /\ Count(l) \in Index
  BY DistRange DEF TypeOK, Count
<1>3. Index \subseteq Int /\ RING_BUFFER_SIZE \in Int
  BY RingAssumption DEF Index
<1>4. CASE ~used[l]
  <2>1. Count(l) = 0 /\ Dist(tail'[l], head'[l]) = 0
    BY <1>2, <1>4, PushLevel, DistRange DEF Contents, Count
  <2>2. \A i \in Index : ~(Dist(tail'[l], i) < 0)
    <3>1. tail'[l] = tail[l]
      BY <1>4, PushLevel, Zenon
    <3>2. \A i \in Index : Dist(tail[l], i) \in 0 .. RING_BUFFER_SIZE - 1
      BY <1>2, DistRange, Zenon DEF Index
    <3> QED
      BY <1>3, <3>1, <3>2
  <2> QED
    BY <1>1, <1>4, <2>1, <2>2, PushLevel DEF Contents
<1>5. CASE used[l]
  <2>1. Dist(tail'[l], head'[l]) <= pressed'
    <3>1. Count(l) <= pressed
      BY Zenon DEF Contents
    <3>2. \/ Dist(tail'[l], head'[l]) = Count(l) + 1
          \/ Dist(tail'[l], head'[l]) = Count(l)
      BY <1>5, PushLevel, Zenon
    <3>3. Count(l) \in Int
      BY <1>2, <1>3, Zenon
    <3> QED
      BY <1>1, <3>1, <3>2, <3>3
  <2>2. ASSUME NEW i \in Index, Dist(tail'[l], i) < Dist(tail'[l], head'[l])
        PROVE  ring'[l][i] = pressed' + 1 - Dist(i, head'[l])
    <3>1. CASE i = head[l]
      BY <1>1, <1>2, <1>5, <3>1, PushLevel, DistBack
    <3>2. CASE i # head[l]
      <4>1. tail'[l] \in Index /\ head'[l] \in Index
        BY <1>2, <1>5, PushLevel, SuccInRing, Zenon
      <4>2. i # head'[l]
        BY <2>2, <4>1, DistSplits, Zenon DEF Count
      <4>3. Dist(i, head'[l]) = Dist(i, head[l]) + 1
        BY <1>2, <1>5, <4>2, PushLevel, HeadMoves
      <4>4. Dist(tail[l], i) < Count(l)
        <5>1. CASE succ(head[l]) # tail[l]
          <6>1. tail'[l] = tail[l] /\ Dist(tail'[l], head'[l]) = Count(l) + 1
            BY <1>5, <5>1, PushLevel, Zenon
          <6>2. Dist(tail[l], i) # Dist(tail[l], head[l])
            BY <1>2, <3>2, RingAssumption, SMT DEF Dist, Index
          <6> QED
            BY <1>2, <1>3, <2>2, <6>1, <6>2, DistRange DEF Count
        <5>2. CASE succ(head[l]) = tail[l]
          <6>1. Count(l) = RING_BUFFER_SIZE - 1
            BY <1>5, <5>2, PushLevel, Zenon
          <6>2. Dist(tail[l], i) # Dist(tail[l], head[l])
            BY <1>2, <3>2, RingAssumption, SMT DEF Dist, Index
          <6>3. Dist(tail[l], i) \in 0 .. RING_BUFFER_SIZE - 1
            BY <1>2, DistRange, Zenon DEF Index
          <6> QED
            BY <1>3, <6>1, <6>2, <6>3 DEF Count
        <5> QED
          BY <5>1, <5>2, Zenon
      <4>5. ring[l][i] = pressed + 1 - Dist(i, head[l])
        BY <4>4, Zenon DEF Contents
      <4>6. Dist(i, head[l]) \in Int
        BY <1>2, <1>3, DistRange, Zenon
      <4> QED
        BY <1>1, <1>5, <3>2, <4>3, <4>5, <4>6, PushLevel
    <3> QED
      BY <3>1, <3>2, Zenon
  <2> QED
    BY <1>1, <1>5, <2>1, <2>2, Zenon
<1> QED
  BY <1>4, <1>5, Zenon

(* A poll that a key press interrupts still finds its entry: a press       *)
(* writes the slot at the head, which is not the one being read.           *)
LEMMA PushReading ==
  ASSUME ~Preemptive, TypeOK, Exclusive, Contents, keyboard_push,
         NEW p \in Listeners, Reading(p)
  PROVE  Reading(p)'
<1> DEFINE l == lvl[p]
           n == Dist(tail'[l], head'[l])
<1>1. /\ pressed' = pressed + 1 /\ used' = used /\ lvl' = lvl
      /\ h' = h /\ t' = t /\ out' = out /\ last' = last
      /\ pc'[p] = IF pc[p] = "hlt" THEN "ready" ELSE pc[p]
      /\ InCall(p) => during[p] = 0 /\ during'[p] = 1
  BY Zenon DEF keyboard_push, poll_vars
<1>2. /\ l \in Levels /\ head[l] \in Index /\ tail[l] \in Index /\ t[p] \in Index
      /\ pressed \in Int /\ last[p] \in Int /\ ring[l] \in [Index -> Keys]
      /\ RING_BUFFER_SIZE \in Int
  BY RingAssumption, MaxKeysAssumption DEF TypeOK, Keys
<1>3. Index \subseteq Int /\ Count(l) \in Int
  <2>1. Index \subseteq Int
    BY <1>2 DEF Index
  <2>2. Count(l) \in Index
    BY <1>2, DistRange, Zenon DEF Count
  <2> QED
    BY <2>1, <2>2, Zenon
<1>4. ASSUME Registered(p)
      PROVE  last[p] + n <= pressed' /\ head'[l] # tail'[l]
  <2>1. used[l]
    BY <1>4, Zenon DEF Exclusive
  <2>2. n = Count(l) + 1 \/ n = Count(l)
    BY <1>2, <2>1, PushLevel, Zenon
  <2>3. last[p] + Count(l) <= pressed
    BY <1>4, Zenon DEF Reading
  <2>4. head'[l] # tail'[l]
    BY <1>2, <2>1, PushLevel, Zenon
  <2>5. \A a, b, c \in Int : \A d : (d = b + 1 \/ d = b) /\ a + b <= c => a + d <= c + 1
    OBVIOUS
  <2> HIDE DEF n
  <2>6. last[p] + n <= pressed + 1
    BY <1>2, <1>3, <2>2, <2>3, <2>5, Zenon
  <2> QED
    BY <1>1, <2>4, <2>6, Zenon
<1>5. ASSUME InHand(p)
      PROVE  /\ ring'[l][t[p]] = ring[l][t[p]]
             /\ \/ t[p] = tail'[l] /\ head'[l] # tail'[l]
                \/ /\ during'[p] = 1 /\ head'[l] = t[p] /\ tail'[l] = succ(t[p])
                   /\ ring'[l][t[p]] = pressed' + 1 - RING_BUFFER_SIZE
                   /\ last[p] + RING_BUFFER_SIZE <= pressed'
  <2>1. InCall(p) /\ Registered(p)
    BY <1>5, Zenon DEF InHand, InCall, CallPoints, Registered
  <2>2. used[l] /\ during[p] = 0 /\ during'[p] = 1
    BY <1>1, <2>1, Zenon DEF Exclusive
  <2>3. t[p] = tail[l] /\ head[l] # tail[l]
    BY <1>5, <2>2 DEF Reading, InPlace
  <2>4. ring'[l][t[p]] = ring[l][t[p]]
    BY <1>2, <2>2, <2>3, PushLevel, Zenon
  <2>5. CASE succ(head[l]) # tail[l]
    BY <1>2, <2>2, <2>3, <2>4, <2>5, PushLevel, Zenon
  <2>6. CASE succ(head[l]) = tail[l]
    <3>1. Count(l) = RING_BUFFER_SIZE - 1 /\ head'[l] = t[p] /\ tail'[l] = succ(t[p])
      BY <1>2, <2>2, <2>3, <2>6, PushLevel, Zenon
    <3>2. Dist(tail[l], tail[l]) = 0
      BY <1>2, DistRange, Zenon
    <3>3. ring[l][t[p]] = pressed + 1 - Count(l)
      BY <1>2, <2>3, <3>1, <3>2, RingAssumption DEF Contents, Count
    <3>4. last[p] + Count(l) <= pressed
      BY <2>1, Zenon DEF Reading
    <3> QED
      BY <1>1, <1>2, <2>2, <2>4, <3>1, <3>3, <3>4
  <2> QED
    BY <2>5, <2>6, Zenon
<1>6. /\ (Registered(p))' => Registered(p)
      /\ (InHand(p))' => InHand(p)
      /\ pc'[p] \in {"copy_rest", "advance"} => InHand(p) /\ pc'[p] = pc[p]
      /\ pc'[p] = "read_tail" => InCall(p) /\ Registered(p)
  BY <1>1, Zenon DEF Registered, InHand, InCall, CallPoints
<1>7. (InHand(p))' => (InPlace(p))'
  BY <1>1, <1>5, <1>6, Zenon DEF InPlace, succ
<1>8. Registered(p)' => (last[p] + Count(lvl[p]) <= pressed)'
  BY <1>1, <1>4, <1>6, Zenon DEF Count, Dist
<1>9. pc'[p] = "read_tail" => during'[p] = 1 /\ head'[l] # tail'[l]
  BY <1>1, <1>4, <1>6, Zenon
<1>10. /\ pc'[p] \in {"copy_rest", "advance"} => out'[p][1] = ring'[l][t'[p]]
       /\ pc'[p] = "advance" => out'[p][2] = ring'[l][t'[p]]
  BY <1>1, <1>5, <1>6, Zenon DEF Reading
<1>11. pc'[p] \notin {"clear_tail", "clear_used"}
  BY <1>1, Zenon DEF Reading
<1> QED
  BY <1>1, <1>7, <1>8, <1>9, <1>10, <1>11 DEF Reading

-----------------------------------------------------------------------------
(* The listeners' calls                                                    *)

(* The one step of a call that changes a ring: writing back the tail makes *)
(* the ring one key shorter, or confirms what a key press has dropped      *)
(* (keyboard.c:65).                                                        *)
LEMMA AdvanceLevel ==
  ASSUME TypeOK, Exclusive, Contents, NEW p \in Listeners, Reading(p), poll_advance(p)
  PROVE  /\ \A m \in Levels \ {lvl[p]} : tail'[m] = tail[m]
         /\ tail'[lvl[p]] \in Index
         /\ \/ /\ tail'[lvl[p]] = succ(tail[lvl[p]])
               /\ Count(lvl[p]) # 0
               /\ Dist(tail'[lvl[p]], head[lvl[p]]) = Count(lvl[p]) - 1
               /\ ring[lvl[p]][t[p]] = pressed + 1 - Count(lvl[p])
            \/ /\ tail'[lvl[p]] = tail[lvl[p]]
               /\ Count(lvl[p]) = RING_BUFFER_SIZE - 1
               /\ ring[lvl[p]][t[p]] = pressed - Count(lvl[p])
<1> DEFINE l == lvl[p]
<1>1. /\ l \in Levels /\ head[l] \in Index /\ tail[l] \in Index /\ t[p] \in Index
      /\ pressed \in Int /\ RING_BUFFER_SIZE \in Int
      /\ tail' = [tail EXCEPT ![l] = succ(t[p])] /\ tail \in [Levels -> Index]
  BY RingAssumption, MaxKeysAssumption DEF TypeOK, poll_advance
<1>2. tail'[l] = succ(t[p]) /\ tail'[l] \in Index /\ \A m \in Levels \ {l} : tail'[m] = tail[m]
  BY <1>1, SuccInRing, Zenon
<1>3. InPlace(p)
  BY Zenon DEF Reading, InHand, poll_advance, Step
<1>4. CASE t[p] = tail[l] /\ head[l] # tail[l]
  <2>1. Dist(succ(tail[l]), head[l]) = Count(l) - 1 /\ Count(l) # 0
    BY <1>1, <1>4, TailMoves, DistRange, Zenon DEF Count
  <2>2. Dist(tail[l], tail[l]) = 0 /\ Count(l) > 0
    <3>1. Dist(tail[l], tail[l]) = 0 /\ Count(l) \in 0 .. RING_BUFFER_SIZE - 1
      BY <1>1, DistRange, Zenon DEF Count, Index
    <3> QED
      BY <1>1, <2>1, <3>1
  <2>3. ring[l][t[p]] = pressed + 1 - Count(l)
    BY <1>1, <1>4, <2>2 DEF Contents, Count
  <2> QED
    BY <1>2, <1>4, <2>1, <2>3, Zenon
<1>5. CASE head[l] = t[p] /\ tail[l] = succ(t[p])
           /\ ring[l][t[p]] = pressed + 1 - RING_BUFFER_SIZE
  <2>1. Count(l) = RING_BUFFER_SIZE - 1
    BY <1>1, <1>5, DistBack, Zenon DEF Count
  <2> QED
    BY <1>1, <1>2, <1>5, <2>1
<1> QED
  BY <1>3, <1>4, <1>5, Zenon DEF InPlace

(* The rings still hold the last keys.                                     *)
LEMMA AdvanceContents ==
  ASSUME TypeOK, Exclusive, Contents, NEW p \in Listeners, Reading(p), poll_advance(p)
  PROVE  Contents'
<1> SUFFICES ASSUME NEW l \in Levels
             PROVE  /\ Dist(tail'[l], head'[l]) <= pressed'
                    /\ ~used'[l] => head'[l] = tail'[l]
                    /\ \A i \in Index :
                         Dist(tail'[l], i) < Dist(tail'[l], head'[l]) =>
                           ring'[l][i] = pressed' + 1 - Dist(i, head'[l])
  BY Zenon DEF Contents, Count, Dist
<1>1. head' = head /\ ring' = ring /\ used' = used /\ pressed' = pressed
  BY Zenon DEF poll_advance
<1>2. CASE tail'[l] = tail[l]
  BY <1>1, <1>2, Zenon DEF Contents, Count
<1>3. CASE tail'[l] # tail[l]
  <2>1. /\ l = lvl[p] /\ tail'[l] = succ(tail[l])
        /\ Count(l) # 0 /\ Dist(tail'[l], head[l]) = Count(l) - 1
    BY <1>3, AdvanceLevel, Zenon
  <2>2. /\ head[l] \in Index /\ tail[l] \in Index /\ pressed \in Int
        /\ RING_BUFFER_SIZE \in Int /\ Count(l) \in 0 .. RING_BUFFER_SIZE - 1
    <3>1. /\ head[l] \in Index /\ tail[l] \in Index /\ pressed \in Int
          /\ RING_BUFFER_SIZE \in Int
      BY RingAssumption, MaxKeysAssumption DEF TypeOK
    <3> QED
      BY <3>1, DistRange, Zenon DEF Count, Index
  <2>3. used[l] /\ Count(l) <= pressed
    BY <2>1, Zenon DEF Exclusive, Registered, poll_advance, Step, Contents
  <2>4. ASSUME NEW i \in Index, Dist(tail'[l], i) < Dist(tail'[l], head[l])
        PROVE  Dist(tail[l], i) < Count(l)
    <3>1. CASE i = tail[l]
      BY <2>1, <2>2, <2>4, <3>1, DistBack
    <3>2. CASE i # tail[l]
      <4>1. Dist(tail'[l], i) = Dist(tail[l], i) - 1
        BY <2>1, <2>2, <3>2, TailMoves
      <4>2. Dist(tail[l], i) \in 0 .. RING_BUFFER_SIZE - 1
        BY <2>2, DistRange, Zenon DEF Index
      <4> QED
        BY <2>1, <2>2, <2>4, <4>1, <4>2
    <3> QED
      BY <3>1, <3>2, Zenon
  <2> QED
    BY <1>1, <2>1, <2>2, <2>3, <2>4 DEF Contents
<1> QED
  BY <1>2, <1>3, Zenon

(* The other steps change no ring, and at most start a level that is       *)
(* empty (keyboard.c:49-110).                                              *)
LEMMA OtherContents ==
  ASSUME Contents, UNCHANGED <<ring, head, tail, pressed>>,
         \A l \in Levels : used[l] => used'[l]
  PROVE  Contents'
  BY DEF Contents, Count, Dist

(* A step of one listener's call does not disturb the others: they are not *)
(* inside a call, and their levels are not its level.                      *)
LEMMA OthersReading ==
  ASSUME TypeOK, Exclusive, NEW p \in Listeners, NEW q \in Listeners \ {p}, Reading(q),
         pc'[q] = pc[q], lvl'[q] = lvl[q], h'[q] = h[q], t'[q] = t[q],
         out'[q] = out[q], last'[q] = last[q], during'[q] = during[q],
         ring' = ring, head' = head, pressed' = pressed,
         tail' = tail \/ (Registered(p) /\ \A m \in Levels \ {lvl[p]} : tail'[m] = tail[m])
  PROVE  Reading(q)'
<1>1. CASE ~Registered(q)
  BY <1>1, Zenon DEF Reading, Registered, InHand
<1>2. CASE Registered(q)
  <2>1. tail'[lvl[q]] = tail[lvl[q]]
    BY <1>2, Zenon DEF Exclusive, OneListenerPerLevel, TypeOK
  <2>2. InPlace(q)' <=> InPlace(q)
    BY <2>1, Zenon DEF InPlace, succ
  <2>3. (Count(lvl[q]))' = Count(lvl[q])
    BY <2>1, Zenon DEF Count, Dist
  <2> QED
    BY <2>1, <2>2, <2>3, Zenon DEF Reading, InHand, Registered
<1> QED
  BY <1>1, <1>2, Zenon

(* Each step of a poll knows what the step before has seen                 *)
(* (keyboard.c:49-67).                                                     *)
LEMMA PollReading ==
  ASSUME TypeOK, Exclusive, Contents, NEW p \in Listeners, Reading(p),
         keyboard_block_read(p)
  PROVE  Reading(p)'
<1>0. lvl[p] \in Levels /\ out[p] \in Keys \X Keys /\ t[p] \in Index
  BY Zenon DEF TypeOK
<1> USE DEF Reading, InHand, Registered, Begin, Step, queue_vars, poll_vars
<1>1. CASE poll_head(p)
  BY <1>1, Zenon DEF poll_head, TypeOK, Count, Dist
<1>2. CASE poll_tail(p)
  <2>1. pc'[p] = "compare" /\ t'[p] = tail[lvl[p]] /\ h'[p] = h[p]
    BY <1>2, Zenon DEF poll_tail, TypeOK
  <2>2. t'[p] # h'[p] => head[lvl[p]] # tail[lvl[p]]
    BY <1>2, <2>1, Zenon DEF poll_tail
  <2>3. (InHand(p))' => (InPlace(p))'
    BY <1>2, <2>1, <2>2, Zenon DEF poll_tail, InPlace
  <2> QED
    BY <1>2, <2>1, <2>3, Zenon DEF poll_tail, Count, Dist
<1>3. CASE poll_compare(p)
  BY <1>3, Zenon DEF poll_compare, TypeOK, Count, Dist, InPlace, succ
<1>4. CASE poll_copy_first(p)
  <2>1. pc'[p] = "copy_rest" /\ out'[p][1] = ring[lvl[p]][t[p]]
    BY <1>0, <1>4 DEF poll_copy_first, TypeOK
  <2> QED
    BY <1>4, <2>1, Zenon DEF poll_copy_first, Count, Dist, InPlace, succ
<1>5. CASE poll_copy_rest(p)
  <2>1. /\ pc'[p] = "advance" /\ out'[p][1] = out[p][1]
        /\ out'[p][2] = ring[lvl[p]][t[p]]
    BY <1>0, <1>5 DEF poll_copy_rest, TypeOK
  <2> QED
    BY <1>5, <2>1, Zenon DEF poll_copy_rest, Count, Dist, InPlace, succ
<1>6. CASE poll_advance(p)
  <2>1. /\ pc'[p] = "ready" /\ last'[p] = out[p][2] /\ out[p][2] = ring[lvl[p]][t[p]]
        /\ lvl' = lvl /\ head' = head /\ pressed' = pressed
    BY <1>6, Zenon DEF poll_advance, TypeOK
  <2>2. pressed \in Int /\ Count(lvl[p]) \in Int
    <3>1. Count(lvl[p]) \in Nat
      BY <1>0, DistRange, IndexNat, Zenon DEF TypeOK, Count
    <3>2. pressed \in Keys /\ Keys \subseteq Int /\ Nat \subseteq Int
      BY MaxKeysAssumption DEF TypeOK, Keys
    <3> QED
      BY <3>1, <3>2, Zenon
  <2>3. last'[p] + Dist(tail'[lvl[p]], head[lvl[p]]) <= pressed
    <3> DEFINE c == Count(lvl[p])
               d == Dist(tail'[lvl[p]], head[lvl[p]])
               r == ring[lvl[p]][t[p]]
    <3>1. (d = c - 1 /\ r = pressed + 1 - c) \/ (d = c /\ r = pressed - c)
      BY <1>6, AdvanceLevel, ZenonT(40) DEF Count
    <3>2. last'[p] = r /\ c \in Int /\ pressed \in Int
      BY <2>1, <2>2, ZenonT(40)
    <3> HIDE DEF c, d, r
    <3> QED
      BY ONLY <3>1, <3>2 DEF d
  <2> QED
    BY <2>1, <2>3, Zenon DEF Count, Dist
<1> QED
  BY <1>1, <1>2, <1>3, <1>4, <1>5, <1>6, Zenon DEF keyboard_block_read

(* So do the steps of a registration, which starts with an empty ring and  *)
(* no key received (keyboard.c:86-110).                                    *)
LEMMA RegisterReading ==
  ASSUME TypeOK, Exclusive, Contents, NEW p \in Listeners, Reading(p),
         register_keyboard_listener(p) \/ timer_tick(p)
  PROVE  Reading(p)'
<1> USE DEF Reading, InHand, Registered, Begin, Step, queue_vars, poll_vars
<1>1. CASE register_scan(p)
  BY <1>1 DEF register_scan, TypeOK
<1>2. CASE register_claim(p)
  <2>1. /\ pc'[p] = "ready" /\ last'[p] = 0 /\ lvl' = lvl
        /\ head' = head /\ tail' = tail /\ pressed' = pressed
    BY <1>2, Zenon DEF register_claim, TypeOK
  <2>2. Count(lvl[p]) <= pressed
    BY Zenon DEF Contents, TypeOK
  <2>3. Count(lvl[p]) \in Int
    BY RingAssumption DEF TypeOK, Count, Dist, Index
  <2>4. (Count(lvl[p]))' = Count(lvl[p])
    BY ONLY <2>1, Zenon DEF Count, Dist
  <2>5. last'[p] + Count(lvl[p])' <= pressed'
    BY ONLY <2>1, <2>2, <2>3, <2>4
  <2> QED
    BY <2>1, <2>5, Zenon
<1>3. CASE timer_tick(p)
  BY <1>3, Zenon DEF timer_tick, TypeOK, Count, Dist
<1> QED
  BY <1>1, <1>2, <1>3, ZenonT(40) DEF register_keyboard_listener

(* Every step of a listener keeps the invariant.                           *)
LEMMA ListenerFifo ==
  ASSUME ~Preemptive, ~MayRemove, TypeOK, Exclusive, FifoInv, NEW p \in Listeners,
         \/ timer_tick(p)
         \/ keyboard_block_read(p)
         \/ register_keyboard_listener(p)
         \/ remove_keyboard_listener(p)
  PROVE  FifoInv'
<1>0. Contents /\ \A q \in Listeners : Reading(q)
  BY Zenon DEF FifoInv
<1>1. ~remove_keyboard_listener(p)
  BY <1>0, Zenon DEF remove_keyboard_listener, remove_head, remove_tail, remove_used, Step, Reading
<1>2. Reading(p)'
  BY <1>0, <1>1, PollReading, RegisterReading, Zenon
<1>3. Contents'
  <2>1. CASE poll_advance(p)
    BY <1>0, <2>1, AdvanceContents, Zenon
  <2>2. CASE ~poll_advance(p)
    <3>1. UNCHANGED <<ring, head, tail, pressed>>
      BY <1>1, <2>2, Zenon
         DEF timer_tick, keyboard_block_read, poll_head, poll_tail, poll_compare, poll_copy_first,
             poll_copy_rest, register_keyboard_listener, register_scan, register_claim, queue_vars
    <3>2. used' = used \/ used' = [used EXCEPT ![lvl[p]] = TRUE]
      BY <1>1, <2>2, Zenon
         DEF timer_tick, keyboard_block_read, poll_head, poll_tail, poll_compare, poll_copy_first,
             poll_copy_rest, register_keyboard_listener, register_scan, register_claim, queue_vars
    <3> QED
      BY <1>0, <3>1, <3>2, OtherContents, Zenon DEF TypeOK
  <2> QED
    BY <2>1, <2>2, Zenon
<1>4. ASSUME NEW q \in Listeners \ {p}
      PROVE  /\ pc'[q] = pc[q] /\ lvl'[q] = lvl[q] /\ h'[q] = h[q] /\ t'[q] = t[q]
             /\ out'[q] = out[q] /\ last'[q] = last[q] /\ during'[q] = during[q]
             /\ ring' = ring /\ head' = head /\ pressed' = pressed
             /\ tail' = tail \/ poll_advance(p)
  <2>1. CASE keyboard_block_read(p)
    BY <2>1, Zenon DEF keyboard_block_read, poll_head, poll_tail, poll_compare, poll_copy_first,
                poll_copy_rest, poll_advance, Begin, Step, queue_vars, poll_vars, TypeOK
  <2>2. CASE register_keyboard_listener(p)
    BY <2>2, ZenonT(40) DEF register_keyboard_listener, register_scan, register_claim, Begin, Step,
                queue_vars, poll_vars, TypeOK
  <2>3. CASE timer_tick(p)
    BY <2>3, Zenon DEF timer_tick, queue_vars, poll_vars, TypeOK
  <2> QED
    BY <1>1, <2>1, <2>2, <2>3, ZenonT(40)
<1>5. poll_advance(p) => Registered(p) /\ \A m \in Levels \ {lvl[p]} : tail'[m] = tail[m]
  BY Zenon DEF poll_advance, Registered, Step, TypeOK
<1>6. \A q \in Listeners \ {p} : Reading(q)'
  BY <1>0, <1>4, <1>5, OthersReading, Zenon
<1> QED
  BY <1>2, <1>3, <1>6, Zenon DEF FifoInv

(* The invariant holds from boot on.                                       *)
LEMMA FifoInvariant ==
  ASSUME ~Preemptive, ~MayRemove
  PROVE  Spec => [](TypeOK /\ Exclusive /\ FifoInv)
<1>1. Init => FifoInv
  BY RingAssumption
     DEF Init, FifoInv, Contents, Reading, Registered, InHand, Count, Dist, Index, Levels
<1>2. TypeOK /\ Exclusive /\ FifoInv /\ [Next]_vars => FifoInv'
  <2> SUFFICES ASSUME TypeOK, Exclusive, FifoInv, [Next]_vars PROVE FifoInv'
    BY Zenon
  <2>1. CASE keyboard_push
    BY <2>1, PushContents, PushReading, Zenon DEF FifoInv
  <2>2. CASE UNCHANGED vars
    <3>1. UNCHANGED <<ring, head, tail, used, pressed, pc, lvl, h, t, out, last, during>>
      BY <2>2, ZenonT(30) DEF vars, queue_vars, poll_vars
    <3>2. Contents'
      BY <3>1, ZenonT(30) DEF FifoInv, Contents, Count, Dist
    <3>3. \A p \in Listeners : Reading(p)'
      BY <3>1 DEF FifoInv, Reading, InPlace, InHand, Registered, Count, Dist, succ
    <3> QED
      BY <3>2, <3>3, Zenon DEF FifoInv
  <2> QED
    BY <2>1, <2>2, ListenerFifo, Zenon DEF Next
<1> QED
  BY <1>1, <1>2, RingsTyped, LevelsExclusive, PTL DEF Spec

-----------------------------------------------------------------------------
(* The ring as a queue                                                     *)

(* The last m of n keys, oldest first.                                     *)
Newest(n, m) == [k \in 1 .. m |-> n - m + k]

(* Index arithmetic modulo the size of the ring is distance.               *)
LEMMA RemainderIsDist ==
  ASSUME NEW i \in Index, NEW j \in Index
  PROVE  (j - i) % RING_BUFFER_SIZE = Dist(i, j)
  BY RingAssumption, SMT DEF Dist, Index

(* At most one round is taken off.                                         *)
LEMMA OneRound ==
  ASSUME NEW a \in Int, 0 <= a, a < 2 * RING_BUFFER_SIZE
  PROVE  a % RING_BUFFER_SIZE = IF a < RING_BUFFER_SIZE THEN a ELSE a - RING_BUFFER_SIZE
  BY RingAssumption, SMT

(* A slot some places on is at that distance, and so much nearer the head. *)
LEMMA SlotAt ==
  ASSUME NEW i \in Index, NEW j \in Index, NEW k \in 1 .. Dist(i, j)
  PROVE  /\ (i + k - 1) % RING_BUFFER_SIZE \in Index
         /\ Dist(i, (i + k - 1) % RING_BUFFER_SIZE) = k - 1
         /\ Dist((i + k - 1) % RING_BUFFER_SIZE, j) = Dist(i, j) - (k - 1)
<1> DEFINE s == (i + k - 1) % RING_BUFFER_SIZE
<1>1. i \in Int /\ j \in Int /\ k \in Int /\ RING_BUFFER_SIZE \in Int
      /\ 0 <= i /\ i < RING_BUFFER_SIZE /\ 0 <= j /\ j < RING_BUFFER_SIZE
      /\ Dist(i, j) \in Int /\ 1 <= k /\ k <= Dist(i, j) /\ Dist(i, j) < RING_BUFFER_SIZE
  <2>1. Dist(i, j) \in 0 .. RING_BUFFER_SIZE - 1
    BY DistRange, Zenon DEF Index
  <2> QED
    BY <2>1, RingAssumption DEF Index
<1>2. s = IF i + k - 1 < RING_BUFFER_SIZE THEN i + k - 1 ELSE i + k - 1 - RING_BUFFER_SIZE
  <2> DEFINE a == i + k - 1
  <2>1. a \in Int /\ 0 <= a /\ a < 2 * RING_BUFFER_SIZE
    BY <1>1
  <2> HIDE DEF a
  <2>2. a % RING_BUFFER_SIZE = IF a < RING_BUFFER_SIZE THEN a ELSE a - RING_BUFFER_SIZE
    BY <2>1, OneRound, Zenon
  <2> QED
    BY <1>1, <2>2 DEF a
<1> HIDE DEF s
<1>3. s \in Index /\ Dist(i, s) = k - 1 /\ Dist(s, j) = Dist(i, j) - (k - 1)
  BY <1>1, <1>2, SMT DEF Dist, Index
<1> QED
  BY <1>3, Zenon DEF s

(* From its oldest entry on, or from the second, a ring holds the last     *)
(* keys pressed.                                                           *)
LEMMA FromIs ==
  ASSUME TypeOK, Contents, NEW l \in Levels, NEW i \in Index,
         i = tail[l] \/ (i = succ(tail[l]) /\ head[l] # tail[l])
  PROVE  From(l, i) = Newest(pressed, Dist(i, head[l]))
<1>1. head[l] \in Index /\ tail[l] \in Index /\ pressed \in Int /\ RING_BUFFER_SIZE \in Int
  BY RingAssumption, MaxKeysAssumption DEF TypeOK
<1>2. (head[l] - i) % RING_BUFFER_SIZE = Dist(i, head[l])
  BY <1>1, RemainderIsDist, Zenon
<1>3. ASSUME NEW k \in 1 .. Dist(i, head[l])
      PROVE  ring[l][(i + k - 1) % RING_BUFFER_SIZE] = pressed - Dist(i, head[l]) + k
  <2> DEFINE s == (i + k - 1) % RING_BUFFER_SIZE
  <2>1. /\ s \in Index /\ Dist(i, s) = k - 1 /\ Dist(s, head[l]) = Dist(i, head[l]) - (k - 1)
        /\ k \in Int
    BY <1>1, SlotAt
  <2>2. Dist(i, head[l]) \in Int /\ k <= Dist(i, head[l]) /\ 1 <= k
    BY <1>1, DistRange, RingAssumption DEF Index
  <2> HIDE DEF s
  <2>3. Dist(tail[l], s) < Count(l)
    <3>1. CASE i = tail[l]
      BY <2>1, <2>2, <3>1 DEF Count
    <3>2. CASE i = succ(tail[l]) /\ head[l] # tail[l]
      <4>0. Dist(tail[l], s) \in 0 .. RING_BUFFER_SIZE - 1 /\ Count(l) \in 0 .. RING_BUFFER_SIZE - 1
        BY <1>1, <2>1, DistRange, Zenon DEF Count, Index
      <4>1. Dist(i, head[l]) = Count(l) - 1
        BY <1>1, <3>2, TailMoves, Zenon DEF Count
      <4>2. CASE s = tail[l]
        BY <1>1, <2>1, <2>2, <3>2, <4>0, <4>1, <4>2, DistBack
      <4>3. CASE s # tail[l]
        <5>1. Dist(i, s) = Dist(tail[l], s) - 1
          BY <1>1, <2>1, <3>2, <4>3, TailMoves, Zenon
        <5> QED
          BY <1>1, <2>1, <2>2, <4>0, <4>1, <5>1
      <4> QED
        BY <4>2, <4>3, Zenon
    <3> QED
      BY <3>1, <3>2, Zenon
  <2>4. ring[l][s] = pressed + 1 - Dist(s, head[l])
    BY <2>1, <2>3, Zenon DEF Contents
  <2>5. ring[l][s] = pressed - Dist(i, head[l]) + k
    BY <1>1, <2>1, <2>2, <2>4
  <2> QED
    BY <2>5, Zenon DEF s
<1> QED
  BY <1>2, <1>3, Zenon DEF From, Newest

(* What a listener has still to read: everything in its ring, but for the  *)
(* entry it is just taking.                                                *)
LEMMA PendingIs ==
  ASSUME TypeOK, Exclusive, FifoInv, NEW l \in Levels
  PROVE  /\ Holder(l) = {} => Pending(l) = Newest(pressed, Count(l))
         /\ \A p \in Holder(l) :
              Pending(l) = Newest(pressed, Dist(succ(t[p]), head[l]))
<1>1. tail[l] \in Index /\ head[l] \in Index /\ Contents
  BY Zenon DEF TypeOK, FifoInv
<1>2. Holder(l) = {} => Pending(l) = Newest(pressed, Count(l))
  BY <1>1, FromIs, Zenon DEF Pending, Count
<1>3. ASSUME NEW p \in Holder(l)
      PROVE  Pending(l) = Newest(pressed, Dist(succ(t[p]), head[l]))
  <2>1. p \in Listeners /\ lvl[p] = l /\ InHand(p) /\ t[p] \in Index
    BY Zenon DEF Holder, TypeOK
  <2>2. ASSUME NEW q \in Holder(l) PROVE q = p
    BY <2>1, Zenon DEF Holder, Exclusive, OneListenerPerLevel, Registered, InHand
  <2>3. Pending(l) = From(l, succ(t[p]))
    BY <2>1, <2>2, Zenon DEF Pending
  <2>4. InPlace(p)
    BY <2>1, Zenon DEF FifoInv, Reading
  <2>5. succ(t[p]) = tail[l] \/ (succ(t[p]) = succ(tail[l]) /\ head[l] # tail[l])
    BY <2>1, <2>4, Zenon DEF InPlace
  <2>6. succ(t[p]) \in Index
    BY <2>1, SuccInRing, Zenon
  <2> QED
    BY <1>1, <2>3, <2>5, <2>6, FromIs, Zenon
<1> QED
  BY <1>2, <1>3, Zenon

(* Without preemption, and with listeners that stay, a listener receives   *)
(* whole events in the order of the keys, and of the keys in its ring the  *)
(* oldest (keyboard.c:45-67).                                              *)
THEOREM EventsWholeAndNewer ==
  ASSUME ~Preemptive, ~MayRemove
  PROVE  Spec => []WholeAndNewer
<1>1. TypeOK /\ Exclusive /\ FifoInv => WholeAndNewer
  <2> SUFFICES ASSUME TypeOK, Exclusive, FifoInv, NEW p \in Listeners, pc[p] = "advance"
               PROVE  /\ out[p][1] = out[p][2]
                      /\ out[p][1] > last[p]
                      /\ Pending(lvl[p]) # << >> => out[p][1] + 1 = Pending(lvl[p])[1]
    BY Zenon DEF WholeAndNewer
  <2> DEFINE l == lvl[p]
             m == Dist(succ(t[p]), head[l])
  <2>1. /\ l \in Levels /\ head[l] \in Index /\ tail[l] \in Index /\ t[p] \in Index
        /\ pressed \in Int /\ last[p] \in Int /\ RING_BUFFER_SIZE \in Int
    BY RingAssumption, MaxKeysAssumption DEF TypeOK, Keys
  <2>2. /\ InPlace(p) /\ p \in Holder(l) /\ last[p] + Count(l) <= pressed
        /\ out[p][1] = ring[l][t[p]] /\ out[p][2] = ring[l][t[p]]
    BY Zenon DEF FifoInv, Reading, InHand, Holder, Registered
  <2>3. ring[l][t[p]] = pressed - m /\ ring[l][t[p]] > last[p] /\ m \in Int
    <3>0. m \in 0 .. RING_BUFFER_SIZE - 1 /\ Count(l) \in 0 .. RING_BUFFER_SIZE - 1
      BY <2>1, SuccInRing, DistRange, Zenon DEF Count, Index
    <3>1. CASE t[p] = tail[l] /\ head[l] # tail[l]
      <4>1. m = Count(l) - 1
        BY <2>1, <3>1, TailMoves, Zenon DEF Count
      <4>2. Dist(tail[l], tail[l]) = 0
        BY <2>1, DistRange, Zenon
      <4>3. ring[l][t[p]] = pressed + 1 - Count(l)
        BY <2>1, <3>0, <3>1, <4>1, <4>2 DEF FifoInv, Contents, Count
      <4> QED
        BY <2>1, <2>2, <3>0, <4>1, <4>3
    <3>2. CASE /\ head[l] = t[p] /\ tail[l] = succ(t[p])
               /\ ring[l][t[p]] = pressed + 1 - RING_BUFFER_SIZE
               /\ last[p] + RING_BUFFER_SIZE <= pressed
      <4>1. m = RING_BUFFER_SIZE - 1
        BY <2>1, <3>2, DistBack, Zenon
      <4> HIDE DEF m
      <4> QED
        BY ONLY <2>1, <3>0, <3>2, <4>1
    <3> QED
      BY <2>2, <3>1, <3>2, Zenon DEF InPlace
  <2>4. Pending(l) = Newest(pressed, m)
    BY <2>1, <2>2, PendingIs, Zenon
  <2>5. m <= 0 => Newest(pressed, m) = << >>
    BY <2>3, SMTT(20) DEF Newest
  <2>6. m >= 1 => Newest(pressed, m)[1] = pressed - m + 1
    BY <2>3 DEF Newest
  <2>7. out[p][1] = out[p][2] /\ out[p][1] > last[p] /\ out[p][1] = pressed - m
    BY ONLY <2>2, <2>3, Zenon
  <2> HIDE DEF m
  <2>8. Pending(l) # << >> => out[p][1] + 1 = Pending(l)[1]
    BY ONLY <2>1, <2>3, <2>4, <2>5, <2>6, <2>7
  <2> QED
    BY ONLY <2>7, <2>8, Zenon
<1> QED
  BY <1>1, FifoInvariant, PTL

-----------------------------------------------------------------------------
(* The rings implement the queues                                          *)

(* The number of keys a level has still to give out.                       *)
Left(l) ==
  IF Holder(l) = {} THEN Count(l)
  ELSE Dist(succ(t[CHOOSE p \in Holder(l) : TRUE]), head[l])

(* It depends on the one listener of the level.                            *)
LEMMA LeftIs ==
  Exclusive =>
    \A l \in Levels :
      /\ (\A p \in Listeners : lvl[p] = l => ~InHand(p)) => Left(l) = Count(l)
      /\ \A p \in Listeners :
           lvl[p] = l /\ InHand(p) => Left(l) = Dist(succ(t[p]), head[l])
<1> SUFFICES ASSUME Exclusive, NEW l \in Levels
             PROVE  /\ (\A p \in Listeners : lvl[p] = l => ~InHand(p)) => Left(l) = Count(l)
                    /\ \A p \in Listeners :
                         lvl[p] = l /\ InHand(p) => Left(l) = Dist(succ(t[p]), head[l])
  BY Zenon
<1>1. (\A p \in Listeners : lvl[p] = l => ~InHand(p)) => Left(l) = Count(l)
  BY Zenon DEF Left, Holder
<1>2. ASSUME NEW p \in Listeners, lvl[p] = l, InHand(p)
      PROVE  Left(l) = Dist(succ(t[p]), head[l])
  <2>1. p \in Holder(l) /\ \A q \in Holder(l) : q = p
    BY <1>2, Zenon DEF Holder, Exclusive, OneListenerPerLevel, Registered, InHand
  <2> QED
    BY <2>1, Zenon DEF Left
<1> QED
  BY <1>1, <1>2, Zenon

(* The same after a step.                                                  *)
LEMMA LeftNext ==
  Exclusive' =>
    \A l \in Levels :
      /\ (\A p \in Listeners : lvl'[p] = l => ~InHand(p)') =>
           Left(l)' = Dist(tail'[l], head'[l])
      /\ \A p \in Listeners :
           lvl'[p] = l /\ InHand(p)' => Left(l)' = Dist(succ(t'[p]), head'[l])
<1>1. Exclusive' =>
        (\A l \in Levels :
          /\ (\A p \in Listeners : lvl[p] = l => ~InHand(p)) => Left(l) = Count(l)
          /\ \A p \in Listeners :
               lvl[p] = l /\ InHand(p) => Left(l) = Dist(succ(t[p]), head[l]))'
  BY LeftIs, PTL
<1> QED
  BY <1>1, Zenon DEF Count, Dist, succ

(* What is left is the newest keys.                                        *)
LEMMA PendingLeft ==
  TypeOK /\ Exclusive /\ FifoInv =>
    \A l \in Levels : /\ Pending(l) = Newest(pressed, Left(l))
                      /\ Left(l) \in 0 .. RING_BUFFER_SIZE - 1
<1> SUFFICES ASSUME TypeOK, Exclusive, FifoInv, NEW l \in Levels
             PROVE  /\ Pending(l) = Newest(pressed, Left(l))
                    /\ Left(l) \in 0 .. RING_BUFFER_SIZE - 1
  BY Zenon
<1>1. CASE Holder(l) = {}
  BY <1>1, PendingIs, DistRange, ZenonT(40) DEF Left, Count, TypeOK, Index
<1>2. ASSUME NEW p \in Holder(l) PROVE Left(l) = Dist(succ(t[p]), head[l]) /\ t[p] \in Index
  BY LeftIs, Zenon DEF Holder, TypeOK
<1>3. CASE Holder(l) # {}
  <2>1. PICK p \in Holder(l) : TRUE
    BY <1>3, Zenon
  <2>2. head[l] \in Index /\ succ(t[p]) \in Index
    BY <1>2, SuccInRing, Zenon DEF TypeOK
  <2>3. Pending(l) = Newest(pressed, Dist(succ(t[p]), head[l]))
    BY PendingIs, Zenon
  <2> QED
    BY <1>2, <2>2, <2>3, DistRange, Zenon DEF Index
<1> QED
  BY <1>1, <1>3, Zenon

(* The same after a step.                                                  *)
LEMMA PendingNext ==
  (TypeOK /\ Exclusive /\ FifoInv)' =>
    \A l \in Levels : Pending(l)' = Newest(pressed', Left(l)')
<1>1. (TypeOK /\ Exclusive /\ FifoInv)' =>
        (\A l \in Levels : /\ Pending(l) = Newest(pressed, Left(l))
                           /\ Left(l) \in 0 .. RING_BUFFER_SIZE - 1)'
  BY PendingLeft, PTL
<1> QED
  BY <1>1, Zenon DEF Newest

(* The queue operations on the newest keys.                                *)
LEMMA NewestQueue ==
  ASSUME NEW n \in Nat, NEW m \in Nat
  PROVE  /\ Newest(n, m) \in Seq(Int) /\ Len(Newest(n, m)) = m
         /\ Append(Newest(n, m), n + 1) = Newest(n + 1, m + 1)
         /\ m > 0 => Tail(Newest(n, m)) = Newest(n, m - 1)
         /\ (Newest(n, m) = << >>) <=> m = 0
<1>1. Newest(n, m) \in Seq(Int) /\ Len(Newest(n, m)) = m
  BY DEF Newest
<1>2. Append(Newest(n, m), n + 1) = Newest(n + 1, m + 1)
  BY SMTT(20) DEF Newest
<1>3. m > 0 => Tail(Newest(n, m)) = Newest(n, m - 1)
  BY DEF Newest
<1>4. (Newest(n, m) = << >>) <=> m = 0
  BY <1>1
<1> QED
  BY <1>1, <1>2, <1>3, <1>4, Zenon

(* A key press adds a key to what is left of every level in use, or        *)
(* replaces the oldest (keyboard.c:14-43).                                 *)
LEMMA PushLeft ==
  ASSUME ~Preemptive, TypeOK, Exclusive, Exclusive', FifoInv, keyboard_push, NEW l \in Levels
  PROVE  /\ ~used[l] => Left(l) = 0 /\ Left(l)' = 0
         /\ used[l] => Left(l)' = IF Left(l) < RING_BUFFER_SIZE - 1 THEN Left(l) + 1 ELSE Left(l)
<1>1. \A p \in Listeners : lvl'[p] = lvl[p] /\ t'[p] = t[p] /\ (InHand(p)' <=> InHand(p))
                           /\ (InHand(p) => during[p] = 0)
  BY Zenon DEF keyboard_push, poll_vars, InHand, InCall, CallPoints, TypeOK
<1>2. head[l] \in Index /\ tail[l] \in Index /\ RING_BUFFER_SIZE \in Int
      /\ Count(l) \in 0 .. RING_BUFFER_SIZE - 1
  <2>1. head[l] \in Index /\ tail[l] \in Index /\ RING_BUFFER_SIZE \in Int
    BY RingAssumption DEF TypeOK
  <2> QED
    BY <2>1, DistRange, ZenonT(40) DEF Count, Index
<1>3. CASE \A p \in Listeners : lvl[p] = l => ~InHand(p)
  <2>1. Left(l) = Count(l) /\ Left(l)' = Dist(tail'[l], head'[l])
    BY <1>1, <1>3, LeftIs, LeftNext, Zenon
  <2>2. CASE ~used[l]
    <3>1. head[l] = tail[l] /\ head'[l] = head[l] /\ tail'[l] = tail[l]
      BY <2>2, PushLevel, Zenon DEF FifoInv, Contents
    <3> QED
      BY <1>2, <2>1, <2>2, <3>1, DistRange, Zenon DEF Count
  <2>3. CASE used[l]
    <3>1. succ(head[l]) # tail[l] => Count(l) # RING_BUFFER_SIZE - 1
      BY <1>2, SuccIs, RingAssumption, SMT DEF Count, Dist, Index
    <3>2. CASE succ(head[l]) # tail[l]
      <4>1. Dist(tail'[l], head'[l]) = Count(l) + 1
        BY <2>3, <3>2, PushLevel, Zenon
      <4> QED
        BY <1>2, <2>1, <2>3, <3>1, <3>2, <4>1
    <3>3. CASE succ(head[l]) = tail[l]
      <4>1. Dist(tail'[l], head'[l]) = Count(l) /\ Count(l) = RING_BUFFER_SIZE - 1
        BY <2>3, <3>3, PushLevel, Zenon
      <4> QED
        BY <1>2, <2>1, <2>3, <4>1
    <3> QED
      BY <3>2, <3>3, Zenon
  <2> QED
    BY <2>2, <2>3, Zenon
<1>4. ASSUME NEW p \in Listeners, lvl[p] = l, InHand(p)
      PROVE  used[l] /\ Left(l) < RING_BUFFER_SIZE - 1 /\ Left(l)' = Left(l) + 1
  <2>1. Left(l) = Dist(succ(t[p]), head[l]) /\ Left(l)' = Dist(succ(t[p]), head'[l])
    BY <1>1, <1>4, LeftIs, LeftNext, Zenon
  <2>2. t[p] = tail[l] /\ head[l] # tail[l]
    <3>1. InPlace(p) /\ during[p] = 0
      BY <1>1, <1>4, Zenon DEF FifoInv, Reading
    <3> QED
      BY ONLY <1>4, <3>1 DEF InPlace
  <2>3. used[l] /\ head'[l] = succ(head[l])
    BY <1>4, PushLevel, ZenonT(40) DEF Exclusive, Registered, InHand
  <2>4. Left(l) = Count(l) - 1
    BY <1>2, <2>1, <2>2, TailMoves, Zenon DEF Count
  <2>5. succ(tail[l]) # succ(head[l]) /\ succ(tail[l]) \in Index
    BY <1>2, <2>2, SuccIs, SuccInRing, SMTT(20) DEF Index
  <2>6. Left(l)' = Left(l) + 1
    <3>1. Dist(succ(tail[l]), succ(head[l])) = Dist(succ(tail[l]), head[l]) + 1
      BY <1>2, <2>5, HeadMoves, Zenon
    <3> QED
      BY ONLY <2>1, <2>2, <2>3, <3>1, Zenon
  <2> QED
    BY <1>2, <2>3, <2>4, <2>6
<1>5. CASE \E p \in Listeners : lvl[p] = l /\ InHand(p)
  BY <1>4, <1>5, Zenon
<1> QED
  BY <1>3, <1>5, Zenon

(* Reading the tail takes a key; no other step of a call changes what is   *)
(* left (keyboard.c:49-67).                                                *)
LEMMA ListenerLeft ==
  ASSUME ~Preemptive, TypeOK, Exclusive, Exclusive', FifoInv, NEW p \in Listeners,
         timer_tick(p) \/ keyboard_block_read(p) \/ register_keyboard_listener(p),
         NEW l \in Levels
  PROVE  \/ Left(l)' = Left(l)
         \/ /\ l = lvl[p] /\ poll_tail(p)
            /\ Left(l) > 0 /\ Left(l)' = Left(l) - 1
<1>0. /\ head[l] \in Index /\ tail[l] \in Index /\ RING_BUFFER_SIZE \in Int
      /\ t[p] \in Index /\ lvl[p] \in Levels
  BY RingAssumption DEF TypeOK
<1>1. ASSUME head' = head, tail' = tail, t' = t, Holder(l)' = Holder(l)
      PROVE  Left(l)' = Left(l)
  BY <1>1 DEF Left, Count, Dist, succ
<1> USE DEF Begin, Step, queue_vars, poll_vars
<1>2. CASE timer_tick(p)
  <2>1. head' = head /\ tail' = tail /\ t' = t /\ Holder(l)' = Holder(l)
    BY <1>2, Zenon DEF timer_tick, Holder, InHand, TypeOK
  <2> QED
    BY <1>1, <2>1, Zenon
<1>3. CASE register_keyboard_listener(p)
  <2>1. head' = head /\ tail' = tail /\ t' = t
    BY <1>3, Zenon DEF register_keyboard_listener, register_scan, register_claim
  <2>2. \A q \in Listeners : (q \in Holder(l))' <=> q \in Holder(l)
    BY <1>3, ZenonT(40) DEF register_keyboard_listener, register_scan, register_claim,
       Holder, InHand, TypeOK
  <2>3. Holder(l)' = Holder(l)
    BY <2>2, Zenon DEF Holder
  <2> QED
    BY <1>1, <2>1, <2>3, Zenon
<1>4. CASE poll_head(p) \/ poll_compare(p) \/ poll_copy_first(p) \/ poll_copy_rest(p)
  <2>1. head' = head /\ tail' = tail /\ t' = t
    BY <1>4, Zenon DEF poll_head, poll_compare, poll_copy_first, poll_copy_rest
  <2>2. \A q \in Listeners : (q \in Holder(l))' <=> q \in Holder(l)
    BY <1>4 DEF poll_head, poll_compare, poll_copy_first, poll_copy_rest, Holder, InHand, TypeOK
  <2>3. Holder(l)' = Holder(l)
    BY <2>2, Zenon DEF Holder
  <2> QED
    BY <1>1, <2>1, <2>3, Zenon
<1>5. ASSUME poll_tail(p) \/ poll_advance(p)
      PROVE  /\ \A q \in Listeners \ {p} : ~InHand(q) /\ ~InHand(q)'
             /\ head' = head /\ lvl' = lvl
  BY <1>5, Zenon DEF poll_tail, poll_advance, OnCPU, InCall, CallPoints, InHand, TypeOK
<1>6. CASE poll_tail(p)
  <2>1. ~InHand(p) /\ tail' = tail /\ t'[p] = tail[lvl[p]] /\ h'[p] = h[p] /\ pc'[p] = "compare"
    BY <1>6, Zenon DEF poll_tail, InHand, TypeOK
  <2>2. Left(l) = Count(l)
    BY <1>5, <1>6, <2>1, LeftIs, Zenon
  <2>3. CASE l # lvl[p] \/ ~InHand(p)'
    BY <1>5, <1>6, <2>1, <2>2, <2>3, LeftNext, Zenon DEF Count
  <2>4. CASE l = lvl[p] /\ InHand(p)'
    <3>1. Left(l)' = Dist(succ(tail[l]), head[l])
      BY <1>5, <1>6, <2>1, <2>4, LeftNext, ZenonT(40)
    <3>2. head[l] # tail[l]
      BY <1>6, <2>1, <2>4, Zenon DEF FifoInv, Reading, poll_tail, InHand
    <3>3. Left(l)' = Left(l) - 1
      BY <1>0, <2>2, <3>1, <3>2, TailMoves, Zenon DEF Count
    <3>4. Left(l) > 0
      <4>1. Count(l) # 0 /\ Count(l) \in Index
        BY <1>0, <3>2, DistRange, Zenon DEF Count
      <4> QED
        BY ONLY <2>2, <4>1 DEF Index
    <3> QED
      BY <1>6, <2>4, <3>3, <3>4, SMTT(20)
  <2> QED
    BY <2>3, <2>4, Zenon
<1>7. CASE poll_advance(p)
  <2>1. InHand(p) /\ ~InHand(p)' /\ tail' = [tail EXCEPT ![lvl[p]] = succ(t[p])]
    BY <1>7, Zenon DEF poll_advance, InHand, TypeOK
  <2>2. Left(l)' = Dist(tail'[l], head[l])
    BY <1>5, <1>7, <2>1, LeftNext, ZenonT(40)
  <2>3. CASE l = lvl[p]
    BY <1>0, <1>7, <2>1, <2>2, <2>3, LeftIs, ZenonT(40) DEF TypeOK
  <2>4. CASE l # lvl[p]
    BY <1>0, <1>5, <1>7, <2>1, <2>2, <2>4, LeftIs, Zenon DEF TypeOK, Count
  <2> QED
    BY <2>3, <2>4, Zenon
<1> QED
  BY <1>2, <1>3, <1>4, <1>6, <1>7, Zenon DEF keyboard_block_read

(* keyboard.c:45-48 calls keyboard_poll() safe in a kernel without         *)
(* preemption.  There, and with listeners that stay, the rings implement   *)
(* the bounded queue per listener of KeyFifo: a key is lost only as the    *)
(* oldest of a full queue, and a listener takes the keys in order.         *)
THEOREM RingsAreQueues ==
  ASSUME ~Preemptive, ~MayRemove
  PROVE  Spec => ImplementsFifo
<1> DEFINE Inv == TypeOK /\ Exclusive /\ FifoInv
<1>1. Init => Fifo!FInit
  <2> SUFFICES ASSUME Init PROVE Fifo!FInit
    BY Zenon
  <2>1. \A l \in Levels : ~used[l] /\ Pending(l) = << >>
    <3>1. \A l \in Levels : Holder(l) = {} /\ head[l] = 0 /\ tail[l] = 0
      BY Zenon DEF Init, Holder, InHand
    <3>2. (0 - 0) % RING_BUFFER_SIZE = 0
      BY RingAssumption, SMT
    <3>3. \A l \in Levels : Pending(l) = << >>
      BY <3>1, <3>2 DEF Pending, From
    <3> QED
      BY <3>3, Zenon DEF Init
  <2> QED
    BY <2>1, Zenon DEF Fifo!FInit, Init
<1>2. Inv /\ Inv' /\ [Next]_vars => [Fifo!FNext]_Fifo!fifovars
  <2> SUFFICES ASSUME Inv, Inv', [Next]_vars PROVE [Fifo!FNext]_Fifo!fifovars
    BY Zenon
  <2>1. /\ pressed \in Nat /\ RING_BUFFER_SIZE \in Nat
        /\ \A l \in Levels : /\ Pending(l) = Newest(pressed, Left(l)) /\ Left(l) \in Nat
                             /\ Left(l) <= RING_BUFFER_SIZE - 1
                             /\ Pending(l)' = Newest(pressed', Left(l)')
    <3>1. pressed \in Nat /\ RING_BUFFER_SIZE \in Nat
      BY RingAssumption DEF TypeOK
    <3>2. \A l \in Levels : /\ Pending(l) = Newest(pressed, Left(l))
                            /\ Left(l) \in 0 .. RING_BUFFER_SIZE - 1
      BY PendingLeft, Zenon
    <3>3. \A l \in Levels : Pending(l)' = Newest(pressed', Left(l)')
      BY PendingNext, Zenon
    <3> QED
      BY ONLY <3>1, <3>2, <3>3
  <2>2. CASE keyboard_push
    <3>1. pressed' = pressed + 1 /\ used' = used
      BY <2>2, Zenon DEF keyboard_push
    <3>2. ASSUME NEW l \in Levels, ~used[l] PROVE Pending(l)' = Pending(l)
      <4>1. Left(l) = 0 /\ Left(l)' = 0
        BY <2>2, <3>2, PushLeft, Zenon
      <4>2. \A n \in Nat : Newest(n, 0) = << >>
        BY NewestQueue, Zenon
      <4> QED
        BY <2>1, <3>1, <4>1, <4>2
    <3>3. ASSUME NEW l \in Levels, used[l]
          PROVE  Pending(l)' = Append(IF Len(Pending(l)) < RING_BUFFER_SIZE - 1 THEN Pending(l)
                                      ELSE Tail(Pending(l)), pressed + 1)
      <4>1. Len(Pending(l)) = Left(l)
        BY <2>1, NewestQueue
      <4>2. CASE Left(l) < RING_BUFFER_SIZE - 1
        <5>1. Left(l)' = Left(l) + 1
          BY <2>2, <3>3, <4>2, PushLeft, Zenon
        <5>2. Append(Newest(pressed, Left(l)), pressed + 1) = Newest(pressed + 1, Left(l) + 1)
          BY <2>1, NewestQueue, Zenon
        <5> QED
          BY <2>1, <3>1, <4>1, <4>2, <5>1, <5>2, Zenon
      <4>3. CASE ~(Left(l) < RING_BUFFER_SIZE - 1)
        <5>1. Left(l)' = Left(l) /\ Left(l) > 0 /\ Left(l) - 1 \in Nat /\ Left(l) - 1 + 1 = Left(l)
          BY <2>1, <2>2, <3>3, <4>3, PushLeft, RingAssumption
        <5>2. Tail(Newest(pressed, Left(l))) = Newest(pressed, Left(l) - 1)
          BY <2>1, <5>1, NewestQueue, Zenon
        <5>3. Append(Newest(pressed, Left(l) - 1), pressed + 1) = Newest(pressed + 1, Left(l))
          BY <2>1, <5>1, NewestQueue, ZenonT(60)
        <5> QED
          BY <2>1, <3>1, <4>1, <4>3, <5>1, <5>2, <5>3, Zenon
      <4> QED
        BY <4>2, <4>3, Zenon
    <3>4. Fifo!Press
      BY <3>1, <3>2, <3>3, Zenon DEF Fifo!Press
    <3> QED
      BY <3>4, Zenon DEF Fifo!FNext
  <2>3. ASSUME NEW p \in Listeners,
               timer_tick(p) \/ keyboard_block_read(p) \/ register_keyboard_listener(p)
        PROVE  [Fifo!FNext]_Fifo!fifovars
    <3>1. pressed' = pressed /\ lvl[p] \in Levels
      BY <2>3, Zenon DEF timer_tick, keyboard_block_read, poll_head, poll_tail, poll_compare,
                  poll_copy_first, poll_copy_rest, poll_advance, register_keyboard_listener,
                  register_scan, register_claim, TypeOK
    <3>2. ASSUME \A l \in Levels : Left(l)' = Left(l)
          PROVE  [l \in Levels |-> Pending(l)]' = [l \in Levels |-> Pending(l)]
      BY <2>1, <3>1, <3>2, Zenon
    <3>3. CASE register_claim(p)
      <4>1. \A l \in Levels : Left(l)' = Left(l)
        BY <2>3, <3>3, ListenerLeft, ZenonT(40) DEF poll_tail, register_claim, Step
      <4>2. ~used[lvl[p]] /\ used' = [used EXCEPT ![lvl[p]] = TRUE]
        BY <3>3, Zenon DEF register_claim, Step, Exclusive
      <4>3. {l \in Levels : used[l]}' = {l \in Levels : used[l]} \cup {lvl[p]}
        BY <3>1, <4>2 DEF TypeOK
      <4>4. PICK m \in Levels : m = lvl[p]
        BY <3>1, Zenon
      <4>5. Fifo!Listen(m)
        BY <3>1, <3>2, <4>1, <4>2, <4>3, <4>4, Zenon DEF Fifo!Listen
      <4> QED
        BY <4>5, Zenon DEF Fifo!FNext
    <3>4. CASE ~register_claim(p)
      <4>1. used' = used
        BY <2>3, <3>4, Zenon DEF timer_tick, keyboard_block_read, poll_head, poll_tail, poll_compare,
                          poll_copy_first, poll_copy_rest, poll_advance,
                          register_keyboard_listener, register_scan, queue_vars
      <4>2. CASE \A l \in Levels : Left(l)' = Left(l)
        BY <3>1, <3>2, <4>1, <4>2, Zenon DEF Fifo!fifovars
      <4>3. ASSUME NEW m \in Levels, Left(m)' # Left(m)
            PROVE  Fifo!Take(m)
        <5>1. m = lvl[p] /\ poll_tail(p) /\ Left(m) > 0 /\ Left(m)' = Left(m) - 1
          BY <2>3, <4>3, ListenerLeft, Zenon
        <5>2. \A l \in Levels \ {m} : Left(l)' = Left(l)
          BY <2>3, <5>1, ListenerLeft, Zenon
        <5>3. Pending(m)' = Tail(Pending(m)) /\ Pending(m) # << >>
          <6>1. Left(m) \in Nat /\ Left(m) # 0
            BY <2>1, <5>1
          <6>2. Tail(Newest(pressed, Left(m))) = Newest(pressed, Left(m) - 1)
            BY <2>1, <5>1, <6>1, NewestQueue, Zenon
          <6>3. Newest(pressed, Left(m)) # << >>
            BY <2>1, <6>1, NewestQueue, Zenon
          <6> QED
            BY <2>1, <3>1, <5>1, <6>2, <6>3, Zenon
        <5>4. \A l \in Levels \ {m} : Pending(l)' = Pending(l)
          BY <2>1, <3>1, <5>2, Zenon
        <5>5. used[m]
          BY <5>1, Zenon DEF Exclusive, Registered, poll_tail, Step
        <5> QED
          BY <3>1, <4>1, <5>3, <5>4, <5>5, Zenon DEF Fifo!Take
      <4> QED
        BY <4>2, <4>3, Zenon DEF Fifo!FNext
    <3> QED
      BY <3>3, <3>4, Zenon
  <2>4. CASE UNCHANGED vars
    <3>1. used' = used /\ pressed' = pressed
      BY <2>4, Zenon DEF vars, queue_vars
    <3>2. [l \in Levels |-> Pending(l)]' = [l \in Levels |-> Pending(l)]
      <4>1. UNCHANGED <<ring, head, tail, pc, lvl, h, t>>
        BY <2>4, Zenon DEF vars, queue_vars, poll_vars
      <4>2. \A l \in Levels : Holder(l)' = Holder(l)
        BY ONLY <4>1, Zenon DEF Holder, InHand
      <4>3. \A l \in Levels : Pending(l)' = Pending(l)
        BY ONLY <4>1, <4>2, Zenon DEF Pending, From, succ
      <4> QED
        BY ONLY <4>3, Zenon
    <3> QED
      BY <3>1, <3>2, Zenon DEF Fifo!fifovars
  <2>5. \A p \in Listeners : ~remove_keyboard_listener(p)
    BY Zenon DEF remove_keyboard_listener, remove_head, remove_tail, remove_used, Step,
                 FifoInv, Reading
  <2> QED
    BY <2>2, <2>3, <2>4, <2>5, Zenon DEF Next
<1>3. Spec => []Inv
  BY FifoInvariant, Zenon
<1> QED
  BY <1>1, <1>2, <1>3, PTL DEF Spec, ImplementsFifo, Fifo!FSpec

-----------------------------------------------------------------------------
(* Preemption                                                              *)

(* How many slots behind the head a slot is: from 1, for the newest key,   *)
(* to the size of the ring, for the slot that is written next.             *)
Back(hd, i) == IF i = hd THEN RING_BUFFER_SIZE ELSE Dist(i, hd)

(* The v slots behind the head hold keys in the order they were pressed.   *)
Ordered(l, v) ==
  \A i \in Index : Back(head[l], i) <= v =>
    /\ 1 <= ring[l][i] /\ ring[l][i] <= pressed
    /\ \A j \in Index : Back(head[l], j) < Back(head[l], i) => ring[l][i] < ring[l][j]

(* The listener of this level has cleared the head and not yet the tail.   *)
Clearing(l) == \E p \in Listeners : lvl[p] = l /\ pc[p] = "clear_tail"

(* The entries from the tail are among these v.                            *)
Within(l, v) == /\ ~Clearing(l) => Dist(tail[l], head[l]) <= v
                /\ Clearing(l) => Dist(0, head[l]) <= v

(* The entries from the tail are newer than k.                             *)
Newer(l, k) ==
  \A i \in Index :
    1 <= Dist(i, head[l]) /\ Dist(i, head[l]) <= Dist(tail[l], head[l]) => k < ring[l][i]

(* A listener that has no entry in hand.                                   *)
Resting(p) == pc[p] \in {"ready", "hlt", "read_tail"} \/ (pc[p] = "compare" /\ t[p] = h[p])

(* What a listener that has level l to itself knows.                       *)
Reader(p, l, v) ==
  /\ last[p] <= pressed
  /\ Resting(p) => Newer(l, last[p])
  /\ pc[p] = "read_tail" => h[p] = head[l] \/ head[l] # tail[l]
  /\ InHand(p) => Back(head[l], t[p]) <= v /\ last[p] < ring[l][t[p]]
  /\ pc[p] \in {"copy_rest", "advance"} => last[p] < out[p][1] /\ out[p][1] <= ring[l][t[p]]
  /\ pc[p] = "advance" => out[p][1] <= out[p][2] /\ out[p][2] <= ring[l][t[p]]

(* One level, of which v slots are in order.                               *)
Level(l, v) ==
  /\ Ordered(l, v) /\ Within(l, v)
  /\ \A p \in Listeners : Registered(p) /\ lvl[p] = l => Reader(p, l, v)

(* The inductive invariant.                                                *)
OrderInv == \A l \in Levels : \E v \in 0 .. RING_BUFFER_SIZE : Level(l, v)

(* Slots behind the head, and what moving the head or a tail does to them  *)
(* (keyboard.c:25, 65).                                                    *)
LEMMA BackIs ==
  ASSUME NEW hd \in Index, NEW i \in Index
  PROVE  /\ Back(hd, i) \in 1 .. RING_BUFFER_SIZE
         /\ i # hd => Back(hd, i) = Dist(i, hd)
         /\ Back(succ(hd), i) = IF i = hd THEN 1 ELSE Back(hd, i) + 1
         /\ Dist(succ(i), hd) = Back(hd, i) - 1
  BY SuccIs, RingAssumption, SMT DEF Back, Dist, Index

(* The order of the numbers that keys and positions are: reflexive, ...    *)
LEMMA LeRefl == \A a \in Nat : a <= a /\ 0 <= a
  OBVIOUS

(* ... transitive, ...                                                     *)
LEMMA LeTrans == \A a, b, c \in Nat : a <= b /\ b <= c => a <= c
  OBVIOUS

(* ... and strictly so.                                                    *)
LEMMA LeLtTrans == \A a, b, c \in Nat : a <= b /\ b < c => a < c
  OBVIOUS

(* The next key is newer than every key so far (keyboard.c:14-43).         *)
LEMMA OneMore == \A a, b \in Nat : a <= b => a <= b + 1 /\ a < b + 1 /\ b + 1 \in Nat
  OBVIOUS

(* A distance that is not 0 is at least 1, and a key is after 0, no key.   *)
LEMMA Positive == ~(1 <= 0) /\ \A a \in Nat : (a # 0 <=> 1 <= a) /\ (1 <= a => 0 < a)
  OBVIOUS

(* A slot counted among a + 1 is one of a, if it is not the newest.        *)
LEMMA OneLess ==
  \A a, b \in Nat : \A c :
    a # 0 /\ a + 1 <= c /\ (c = b + 1 \/ c = b) => 1 <= a /\ a <= b
  OBVIOUS

(* Positions behind the head, within a stretch of the ring.                *)
LEMMA Stretch ==
  ASSUME NEW r \in Nat
  PROVE  /\ 0 \in 0 .. r
         /\ \A v \in 0 .. r : v \in Nat
         /\ \A a \in 1 .. r : ~(a <= 0)
         /\ \A a \in 1 .. r : \A v \in 0 .. r : a <= v => a - 1 <= v
         /\ \A a \in 1 .. r : \A d \in Nat : d <= a - 1 => d < a
  OBVIOUS

(* A position behind the head grows by no more than the stretch does.      *)
LEMMA StretchGrows ==
  ASSUME NEW r \in Nat, NEW a \in 1 .. r, NEW b \in 1 .. r,
         NEW v \in 0 .. r, NEW w \in 0 .. r,
         a <= v, b = 1 \/ b = a + 1, w = v + 1 \/ (v = r /\ w = v)
  PROVE  b <= w
  OBVIOUS

(* What copying one field of an event does to the fields (keyboard.c:63).  *)
LEMMA FieldCopied ==
  ASSUME TypeOK, NEW p \in Listeners
  PROVE  /\ poll_copy_first(p) => out'[p][1] = ring[lvl[p]][t[p]]
         /\ poll_copy_rest(p) => out'[p][2] = ring[lvl[p]][t[p]] /\ out'[p][1] = out[p][1]
<1>1. out \in [Listeners -> Keys \X Keys] /\ out[p] \in Keys \X Keys
  BY Zenon DEF TypeOK
<1>2. CASE poll_copy_first(p)
  <2>1. out' = [out EXCEPT ![p][1] = ring[lvl[p]][t[p]]]
    BY <1>2, Zenon DEF poll_copy_first
  <2>2. out'[p][1] = ring[lvl[p]][t[p]]
    BY <1>1, <2>1
  <2> QED
    BY <1>2, <2>2, Zenon DEF poll_copy_first, poll_copy_rest, Step
<1>3. CASE poll_copy_rest(p)
  <2>1. out' = [out EXCEPT ![p][2] = ring[lvl[p]][t[p]]]
    BY <1>3, Zenon DEF poll_copy_rest
  <2>2. out'[p][2] = ring[lvl[p]][t[p]] /\ out'[p][1] = out[p][1]
    BY <1>1, <2>1
  <2> QED
    BY <1>3, <2>2, Zenon DEF poll_copy_first, poll_copy_rest, Step
<1> QED
  BY <1>2, <1>3, Zenon

(* The typed state of a level.                                             *)
LEMMA LevelTyped ==
  ASSUME TypeOK, NEW l \in Levels
  PROVE  /\ head[l] \in Index /\ tail[l] \in Index /\ ring[l] \in [Index -> Keys]
         /\ \A i \in Index : ring[l][i] \in Nat
         /\ pressed \in Nat
         /\ RING_BUFFER_SIZE \in Nat
<1>1. head[l] \in Index /\ tail[l] \in Index /\ ring[l] \in [Index -> Keys]
  BY Zenon DEF TypeOK
<1>2. \A k \in Keys : k \in Nat
  BY MaxKeysAssumption DEF Keys
<1>3. pressed \in Nat
  BY MaxKeysAssumption DEF TypeOK
<1> QED
  BY <1>1, <1>2, <1>3, RingAssumption, Zenon

(* So is that of a listener.                                               *)
LEMMA ReaderTyped ==
  ASSUME TypeOK, NEW p \in Listeners
  PROVE  /\ t[p] \in Index /\ last[p] \in Nat /\ out[p] \in Keys \X Keys
         /\ out[p][1] \in Nat /\ out[p][2] \in Nat /\ lvl[p] \in Levels
<1>1. t[p] \in Index /\ last[p] \in Keys /\ out[p] \in Keys \X Keys /\ lvl[p] \in Levels
  BY Zenon DEF TypeOK
<1>2. \A k \in Keys : k \in Nat
  BY MaxKeysAssumption DEF Keys
<1>3. out[p][1] \in Keys /\ out[p][2] \in Keys
  BY <1>1, Zenon
<1> QED
  BY <1>1, <1>2, <1>3, Zenon

(* A key press takes the place of the oldest slot, and the others stay in  *)
(* order (keyboard.c:14-43).                                               *)
LEMMA PushOrdered ==
  ASSUME TypeOK, keyboard_push, NEW l \in Levels, used[l],
         NEW v \in 0 .. RING_BUFFER_SIZE, Ordered(l, v),
         NEW w \in 0 .. RING_BUFFER_SIZE, w = v + 1 \/ v = RING_BUFFER_SIZE
  PROVE  Ordered(l, w)'
<1> DEFINE hd == head[l]
<1>1. /\ hd \in Index /\ \A i \in Index : ring[l][i] \in Nat
      /\ pressed \in Nat /\ RING_BUFFER_SIZE \in Nat
  BY LevelTyped, Zenon
<1>2. /\ head'[l] = succ(hd) /\ ring'[l][hd] = pressed + 1 /\ pressed' = pressed + 1
      /\ \A i \in Index : i # hd => ring'[l][i] = ring[l][i]
  <2>1. pressed' = pressed + 1
    BY Zenon DEF keyboard_push
  <2>2. head'[l] = succ(hd) /\ ring'[l][hd] = pressed + 1
    BY PushLevel, Zenon
  <2>3. \A i \in Index \ {hd} : ring'[l][i] = ring[l][i]
    BY PushLevel, Zenon
  <2> QED
    BY <2>1, <2>2, <2>3, Zenon
<1> HIDE DEF hd
<1>3. \A i \in Index : /\ Back(hd, i) \in 1 .. RING_BUFFER_SIZE
                       /\ Back(succ(hd), i) = IF i = hd THEN 1 ELSE Back(hd, i) + 1
  BY <1>1, BackIs, Zenon
<1>4. \A i \in Index : Back(hd, i) <= v =>
        /\ 1 <= ring[l][i] /\ ring[l][i] <= pressed
        /\ \A j \in Index : Back(hd, j) < Back(hd, i) => ring[l][i] < ring[l][j]
  BY Zenon DEF Ordered, hd
<1>5. ASSUME NEW i \in Index, Back(succ(hd), i) <= w
      PROVE  /\ 1 <= ring'[l][i] /\ ring'[l][i] <= pressed'
             /\ \A j \in Index : Back(succ(hd), j) < Back(succ(hd), i) => ring'[l][i] < ring'[l][j]
  <2>1. CASE i = hd
    <3>1. \A j \in Index : ~(Back(succ(hd), j) < Back(succ(hd), i))
      BY <1>1, <1>3, <2>1
    <3>2. 1 <= ring'[l][i] /\ ring'[l][i] <= pressed'
      BY <1>1, <1>2, <2>1
    <3> QED
      BY <3>1, <3>2, Zenon
  <2>2. CASE i # hd
    <3>1. Back(hd, i) <= v /\ Back(succ(hd), i) = Back(hd, i) + 1
      BY <1>1, <1>3, <1>5, <2>2
    <3>2. 1 <= ring[l][i] /\ ring[l][i] <= pressed /\ ring'[l][i] = ring[l][i] /\ ring[l][i] \in Nat
      BY <1>1, <1>2, <1>4, <2>2, <3>1, Zenon
    <3>3. ASSUME NEW j \in Index, Back(succ(hd), j) < Back(succ(hd), i)
          PROVE  ring'[l][i] < ring'[l][j]
      <4>1. CASE j = hd
        BY <1>1, <1>2, <3>2, <4>1
      <4>2. CASE j # hd
        <5>1. Back(hd, j) < Back(hd, i)
          BY <1>1, <1>3, <3>1, <3>3, <4>2
        <5> QED
          BY <1>2, <1>4, <3>1, <3>2, <4>2, <5>1, Zenon
      <4> QED
        BY <4>1, <4>2, Zenon
    <3>4. 1 <= ring'[l][i] /\ ring'[l][i] <= pressed'
      BY <1>1, <1>2, <3>2
    <3> QED
      BY <3>3, <3>4, Zenon
  <2> QED
    BY <2>1, <2>2, Zenon
<1> QED
  BY <1>2, <1>5, Zenon DEF Ordered

(* It leaves the entries from the tail among those in order.               *)
LEMMA PushWithin ==
  ASSUME TypeOK, keyboard_push, NEW l \in Levels, used[l],
         NEW v \in 0 .. RING_BUFFER_SIZE, Within(l, v),
         NEW w \in 0 .. RING_BUFFER_SIZE, w = v + 1 \/ (v = RING_BUFFER_SIZE /\ w = v)
  PROVE  Within(l, w)'
<1>1. head[l] \in Index /\ tail[l] \in Index /\ RING_BUFFER_SIZE \in Nat
  BY LevelTyped, Zenon
<1>2. Clearing(l)' <=> Clearing(l)
  BY Zenon DEF Clearing, keyboard_push
<1>3. 0 \in Index /\ head'[l] = succ(head[l])
  BY ZeroInRange, PushLevel, Zenon
<1>4. Dist(tail'[l], head'[l]) = Count(l) + 1 \/ Dist(tail'[l], head'[l]) = Count(l)
  BY PushLevel, Zenon
<1>5. Count(l) \in Index
  BY <1>1, DistRange, Zenon DEF Count
<1>6. ASSUME ~Clearing(l) PROVE Dist(tail'[l], head'[l]) <= w
  <2>1. Count(l) <= v
    BY <1>6, Zenon DEF Within, Count
  <2> QED
    BY <1>1, <1>4, <1>5, <2>1 DEF Index
<1>7. ASSUME Clearing(l) PROVE Dist(0, head'[l]) <= w
  <2>1. Dist(0, head[l]) <= v /\ Dist(0, head[l]) \in Index
    BY <1>1, <1>3, <1>7, DistRange, Zenon DEF Within
  <2>2. CASE succ(head[l]) = 0
    <3>1. Dist(0, head'[l]) = 0
      BY <1>3, <2>2, DistRange, Zenon
    <3> QED
      BY <1>1, <3>1
  <2>3. CASE succ(head[l]) # 0
    <3>1. Dist(0, head'[l]) = Dist(0, head[l]) + 1
      BY <1>1, <1>3, <2>3, HeadMoves, Zenon
    <3> QED
      BY <1>1, <2>1, <3>1 DEF Index
  <2> QED
    BY <2>2, <2>3, Zenon
<1> QED
  BY <1>2, <1>6, <1>7, Zenon DEF Within

(* A poll that keys interrupt, however many, has an entry in hand that     *)
(* only gets newer.                                                        *)
LEMMA PushReader ==
  ASSUME TypeOK, keyboard_push, NEW l \in Levels, used[l],
         NEW v \in 0 .. RING_BUFFER_SIZE, Ordered(l, v),
         NEW w \in 0 .. RING_BUFFER_SIZE, w = v + 1 \/ (v = RING_BUFFER_SIZE /\ w = v),
         NEW p \in Listeners, Reader(p, l, v)
  PROVE  Reader(p, l, w)'
<1> DEFINE hd == head[l]
<1>1. /\ hd \in Index /\ tail[l] \in Index /\ \A i \in Index : ring[l][i] \in Nat
      /\ pressed \in Nat /\ RING_BUFFER_SIZE \in Nat
  BY LevelTyped, Zenon
<1>2. /\ t[p] \in Index /\ last[p] \in Nat /\ out[p][1] \in Nat /\ out[p][2] \in Nat
  BY ReaderTyped, Zenon
<1>3. /\ head'[l] = succ(hd) /\ ring'[l][hd] = pressed + 1 /\ pressed' = pressed + 1
      /\ head'[l] # tail'[l]
      /\ \A i \in Index : i # hd => ring'[l][i] = ring[l][i]
  <2>1. pressed' = pressed + 1
    BY Zenon DEF keyboard_push
  <2>2. head'[l] = succ(hd) /\ ring'[l][hd] = pressed + 1 /\ head'[l] # tail'[l]
    BY PushLevel, Zenon
  <2>3. \A i \in Index \ {hd} : ring'[l][i] = ring[l][i]
    BY PushLevel, Zenon
  <2> QED
    BY <2>1, <2>2, <2>3, Zenon
<1>4. Dist(tail'[l], head'[l]) = Count(l) + 1 \/ Dist(tail'[l], head'[l]) = Count(l)
  BY PushLevel, Zenon
<1>5. Count(l) \in Index /\ Count(l) = Dist(tail[l], hd)
  BY <1>1, DistRange, Zenon DEF Count
<1>6. /\ UNCHANGED <<h, t, out, last>>
      /\ pc'[p] = IF pc[p] = "hlt" THEN "ready" ELSE pc[p]
  BY Zenon DEF keyboard_push, poll_vars
<1>7. last'[p] = last[p] /\ t'[p] = t[p] /\ h'[p] = h[p] /\ out'[p] = out[p]
  BY <1>6, Zenon
<1>8. /\ Resting(p)' => Resting(p)
      /\ InHand(p)' => InHand(p)
      /\ pc'[p] \in {"copy_rest", "advance"} => pc[p] \in {"copy_rest", "advance"} /\ InHand(p)
      /\ pc'[p] = "advance" => pc[p] = "advance"
  BY <1>6, <1>7, Zenon DEF Resting, InHand
<1> HIDE DEF hd
<1>9. last[p] <= pressed
  BY Zenon DEF Reader
<1>10. ASSUME Resting(p) PROVE Newer(l, last[p])'
  <2>1. \A i \in Index : 1 <= Dist(i, hd) /\ Dist(i, hd) <= Dist(tail[l], hd) => last[p] < ring[l][i]
    BY <1>10, Zenon DEF Reader, Newer, hd
  <2>2. ASSUME NEW i \in Index,
               1 <= Dist(i, head'[l]), Dist(i, head'[l]) <= Dist(tail'[l], head'[l])
        PROVE  last[p] < ring'[l][i]
    <3>1. CASE i = hd
      BY <1>1, <1>2, <1>3, <1>9, <3>1, OneMore, Zenon
    <3>2. CASE i # hd
      <4>1. Dist(i, hd) \in Index /\ Dist(i, hd) # 0 /\ Dist(succ(hd), succ(hd)) = 0
        BY <1>1, <3>2, DistRange, SuccInRing, Zenon
      <4>2. i # succ(hd)
        BY <1>3, <2>2, <4>1, Positive, Zenon
      <4>3. Dist(i, head'[l]) = Dist(i, hd) + 1
        BY <1>1, <1>3, <4>2, HeadMoves, ZenonT(30)
      <4>4. 1 <= Dist(i, hd) /\ Dist(i, hd) <= Dist(tail[l], hd)
        <5>1. Dist(i, hd) \in Nat /\ Dist(tail[l], hd) \in Nat
          BY <1>5, <4>1, IndexNat, Zenon
        <5>2. \/ Dist(tail'[l], head'[l]) = Dist(tail[l], hd) + 1
              \/ Dist(tail'[l], head'[l]) = Dist(tail[l], hd)
          BY <1>4, <1>5, Zenon
        <5>3. Dist(i, hd) # 0 /\ Dist(i, hd) + 1 <= Dist(tail'[l], head'[l])
          BY <2>2, <4>1, <4>3, Zenon
        <5> QED
          BY <5>1, <5>2, <5>3, OneLess, Zenon
      <4> QED
        BY <1>3, <2>1, <3>2, <4>4, Zenon
    <3> QED
      BY <3>1, <3>2, Zenon
  <2> QED
    BY <1>7, <2>2, Zenon DEF Newer
<1>11. ASSUME InHand(p)
       PROVE  /\ Back(head'[l], t[p]) <= w /\ last[p] < ring'[l][t[p]]
              /\ ring[l][t[p]] <= ring'[l][t[p]]
  <2>1. Back(hd, t[p]) <= v /\ last[p] < ring[l][t[p]]
    BY <1>11, Zenon DEF Reader, hd
  <2>2. /\ Back(hd, t[p]) \in 1 .. RING_BUFFER_SIZE
        /\ Back(succ(hd), t[p]) \in 1 .. RING_BUFFER_SIZE
        /\ Back(succ(hd), t[p]) = IF t[p] = hd THEN 1 ELSE Back(hd, t[p]) + 1
    BY <1>1, <1>2, BackIs, SuccInRing, Zenon
  <2>3. ring[l][t[p]] <= pressed
    BY <1>2, <2>1, Zenon DEF Ordered, hd
  <2>4. Back(succ(hd), t[p]) <= w
    <3>1. Back(succ(hd), t[p]) = 1 \/ Back(succ(hd), t[p]) = Back(hd, t[p]) + 1
      BY <2>2, Zenon
    <3> QED
      BY <1>1, <2>1, <2>2, <3>1, StretchGrows, ZenonT(30)
  <2>5. last[p] < ring'[l][t[p]] /\ ring[l][t[p]] <= ring'[l][t[p]]
    <3>1. CASE t[p] = hd
      BY <1>1, <1>2, <1>3, <1>9, <2>3, <3>1, OneMore, ZenonT(30)
    <3>2. CASE t[p] # hd
      <4>1. ring'[l][t[p]] = ring[l][t[p]] /\ ring[l][t[p]] \in Nat
        BY <1>1, <1>2, <1>3, <3>2, Zenon
      <4> QED
        BY <2>1, <4>1, LeRefl, Zenon
    <3> QED
      BY <3>1, <3>2, Zenon
  <2> QED
    BY <1>3, <2>4, <2>5, Zenon
<1>12. ASSUME pc[p] \in {"copy_rest", "advance"}, InHand(p)
       PROVE  last[p] < out[p][1] /\ out[p][1] <= ring'[l][t[p]]
  <2>1. last[p] < out[p][1] /\ out[p][1] <= ring[l][t[p]]
    BY <1>12, Zenon DEF Reader
  <2>2. ring[l][t[p]] <= ring'[l][t[p]] /\ ring[l][t[p]] \in Nat /\ ring'[l][t[p]] \in Nat
    <3>1. ring'[l][t[p]] \in Nat
      BY <1>1, <1>2, <1>3, LeRefl, OneMore, Zenon
    <3> QED
      BY <1>1, <1>2, <1>11, <1>12, <3>1, ZenonT(30)
  <2> QED
    BY <1>2, <2>1, <2>2, LeTrans, Zenon
<1>13. ASSUME pc[p] = "advance", InHand(p)
       PROVE  out[p][1] <= out[p][2] /\ out[p][2] <= ring'[l][t[p]]
  <2>1. out[p][1] <= out[p][2] /\ out[p][2] <= ring[l][t[p]]
    BY <1>13, Zenon DEF Reader
  <2>2. ring[l][t[p]] <= ring'[l][t[p]] /\ ring[l][t[p]] \in Nat /\ ring'[l][t[p]] \in Nat
    <3>1. ring'[l][t[p]] \in Nat
      BY <1>1, <1>2, <1>3, LeRefl, OneMore, Zenon
    <3> QED
      BY <1>1, <1>2, <1>11, <1>13, <3>1, Zenon
  <2> QED
    BY <1>2, <2>1, <2>2, LeTrans, Zenon
<1>14. last'[p] <= pressed'
  BY <1>1, <1>2, <1>3, <1>7, <1>9, OneMore, Zenon
<1>15. Resting(p)' => Newer(l, last[p])'
  BY <1>8, <1>10, Zenon
<1>16. InHand(p)' => Back(head'[l], t'[p]) <= w /\ last'[p] < ring'[l][t'[p]]
  BY <1>7, <1>8, <1>11, Zenon
<1>17. /\ pc'[p] \in {"copy_rest", "advance"} =>
            last'[p] < out'[p][1] /\ out'[p][1] <= ring'[l][t'[p]]
       /\ pc'[p] = "advance" => out'[p][1] <= out'[p][2] /\ out'[p][2] <= ring'[l][t'[p]]
  <2>1. pc'[p] \in {"copy_rest", "advance"} =>
            last'[p] < out'[p][1] /\ out'[p][1] <= ring'[l][t'[p]]
    BY <1>7, <1>8, <1>12, Zenon
  <2>2. pc'[p] = "advance" => pc[p] = "advance" /\ InHand(p)
    BY <1>8, Zenon DEF InHand
  <2> QED
    BY <1>7, <1>13, <2>1, <2>2, Zenon
<1> QED
  BY <1>3, <1>14, <1>15, <1>16, <1>17, Zenon DEF Reader

(* A key press keeps a level in order.                                     *)
LEMMA PushKeepsLevel ==
  ASSUME TypeOK, keyboard_push, NEW l \in Levels,
         NEW v \in 0 .. RING_BUFFER_SIZE, Level(l, v)
  PROVE  \E w \in 0 .. RING_BUFFER_SIZE : Level(l, w)'
<1>0. RING_BUFFER_SIZE \in Nat /\ pressed \in Nat /\ pressed' = pressed + 1
  BY LevelTyped, Zenon DEF keyboard_push
<1>1. \A p \in Listeners : Registered(p)' /\ lvl'[p] = l => Registered(p) /\ lvl[p] = l
  BY Zenon DEF Registered, keyboard_push
<1>2. CASE used[l]
  <2>1. PICK w \in 0 .. RING_BUFFER_SIZE : w = v + 1 \/ (v = RING_BUFFER_SIZE /\ w = v)
    <3>1. CASE v < RING_BUFFER_SIZE
      BY <1>0, <3>1
    <3>2. CASE v = RING_BUFFER_SIZE
      BY <1>0, <3>2, Zenon
    <3> QED
      BY <1>0, <3>1, <3>2
  <2>2. Ordered(l, w)'
    BY <1>2, <2>1, PushOrdered, Zenon DEF Level
  <2>3. Within(l, w)'
    BY <1>2, <2>1, PushWithin, Zenon DEF Level
  <2>4. ASSUME NEW p \in Listeners, Registered(p)', lvl'[p] = l PROVE Reader(p, l, w)'
    BY <1>1, <1>2, <2>1, <2>4, PushReader, Zenon DEF Level
  <2> QED
    BY <2>2, <2>3, <2>4, Zenon DEF Level
<1>3. CASE ~used[l]
  <2>1. head'[l] = head[l] /\ tail'[l] = tail[l] /\ ring'[l] = ring[l]
    BY <1>3, PushLevel, Zenon
  <2>2. Ordered(l, v)'
    <3>1. \A i \in Index : ring[l][i] <= pressed => ring[l][i] <= pressed'
      BY <1>0, LevelTyped, OneMore, Zenon
    <3> QED
      BY <2>1, <3>1, Zenon DEF Level, Ordered
  <2>3. Within(l, v)'
    <3>1. Clearing(l)' <=> Clearing(l)
      BY Zenon DEF Clearing, keyboard_push
    <3> QED
      BY <2>1, <3>1, Zenon DEF Level, Within
  <2>4. ASSUME NEW p \in Listeners, Registered(p)', lvl'[p] = l PROVE Reader(p, l, v)'
    <3>1. Reader(p, l, v)
      BY <1>1, <2>4, Zenon DEF Level
    <3>2. /\ UNCHANGED <<h, t, out, last>>
          /\ pc'[p] = IF pc[p] = "hlt" THEN "ready" ELSE pc[p]
      BY Zenon DEF keyboard_push, poll_vars
    <3>3. last'[p] = last[p] /\ t'[p] = t[p] /\ h'[p] = h[p] /\ out'[p] = out[p]
      BY <3>2, Zenon
    <3>4. /\ Resting(p)' => Resting(p)
          /\ InHand(p)' => InHand(p)
          /\ pc'[p] \in {"copy_rest", "advance"} => pc[p] \in {"copy_rest", "advance"}
          /\ pc'[p] = "advance" => pc[p] = "advance"
          /\ pc'[p] = "read_tail" => pc[p] = "read_tail"
      BY <3>2, <3>3, Zenon DEF Resting, InHand
    <3>5. last'[p] <= pressed'
      <4>1. last[p] \in Nat /\ last[p] <= pressed
        BY <3>1, ReaderTyped, Zenon DEF Reader
      <4> QED
        BY <1>0, <3>3, <4>1, OneMore, Zenon
    <3>6. Resting(p)' => Newer(l, last[p])'
      BY <2>1, <3>1, <3>3, <3>4, Zenon DEF Reader, Newer
    <3> QED
      BY <2>1, <3>1, <3>3, <3>4, <3>5, <3>6, ZenonT(30) DEF Reader
  <2> QED
    BY <2>2, <2>3, <2>4, Zenon DEF Level
<1> QED
  BY <1>2, <1>3, Zenon

(* A listener that does not move, in a level that does not change.         *)
Unmoved(q) == /\ pc'[q] = pc[q] /\ lvl'[q] = lvl[q] /\ h'[q] = h[q] /\ t'[q] = t[q]
              /\ out'[q] = out[q] /\ last'[q] = last[q]

SameRing(l) == /\ head'[l] = head[l] /\ tail'[l] = tail[l] /\ ring'[l] = ring[l]
               /\ pressed' = pressed

(* What is known of a listener that takes no step stays known while the    *)
(* ring of its level is left alone.                                        *)
LEMMA UnmovedReader ==
  ASSUME NEW l \in Levels, SameRing(l), NEW v, NEW q \in Listeners, Unmoved(q), Reader(q, l, v)
  PROVE  Reader(q, l, v)'
<1>1. Resting(q)' <=> Resting(q)
  BY Zenon DEF Resting, Unmoved
<1>2. InHand(q)' <=> InHand(q)
  BY Zenon DEF InHand, Unmoved
<1>3. Newer(l, last[q]) => Newer(l, last[q])'
  BY Zenon DEF Newer, SameRing, Unmoved
<1> QED
  BY <1>1, <1>2, <1>3, ZenonT(30) DEF Reader, SameRing, Unmoved

(* A step of p keeps a level it does not write in order, if what p itself  *)
(* knows of the level is true.                                             *)
LEMMA SameRingLevel ==
  ASSUME NEW l \in Levels, SameRing(l), NEW v, Level(l, v), NEW p \in Listeners,
         \A q \in Listeners \ {p} : Unmoved(q),
         Clearing(l)' <=> Clearing(l),
         Registered(p)' /\ lvl'[p] = l => Reader(p, l, v)'
  PROVE  Level(l, v)'
<1>1. Ordered(l, v)'
  BY Zenon DEF Level, Ordered, SameRing
<1>2. Within(l, v)'
  BY Zenon DEF Level, Within, SameRing
<1>3. ASSUME NEW q \in Listeners, Registered(q)', lvl'[q] = l PROVE Reader(q, l, v)'
  <2>1. CASE q = p
    BY <1>3, <2>1, Zenon
  <2>2. CASE q # p
    <3>1. Unmoved(q)
      BY <2>2, Zenon
    <3>2. Registered(q) /\ lvl[q] = l
      BY <1>3, <3>1, Zenon DEF Registered, Unmoved
    <3> QED
      BY <3>1, <3>2, UnmovedReader, Zenon DEF Level
  <2> QED
    BY <2>1, <2>2, Zenon
<1> QED
  BY <1>1, <1>2, <1>3, Zenon DEF Level

(* Clearing depends on the listeners at clear_tail.                        *)
LEMMA ClearingSame ==
  ASSUME NEW l \in Levels, NEW p \in Listeners,
         \A q \in Listeners \ {p} : Unmoved(q),
         \/ pc[p] # "clear_tail" /\ pc'[p] # "clear_tail"
         \/ lvl[p] # l /\ lvl'[p] # l
  PROVE  Clearing(l)' <=> Clearing(l)
BY ZenonT(30) DEF Clearing, Unmoved

(* A step of one listener moves no other.                                  *)
LEMMA OthersUnmoved ==
  ASSUME TypeOK, NEW p \in Listeners,
         \/ timer_tick(p)
         \/ keyboard_block_read(p)
         \/ register_keyboard_listener(p)
         \/ remove_keyboard_listener(p)
  PROVE  /\ \A q \in Listeners \ {p} : Unmoved(q)
         /\ pressed' = pressed
<1>1. CASE keyboard_block_read(p)
  <2> USE DEF Begin, Step, queue_vars, poll_vars, TypeOK, Unmoved
  <2>1. CASE poll_head(p)
    BY <2>1, ZenonT(30) DEF poll_head
  <2>2. CASE poll_tail(p)
    BY <2>2, ZenonT(30) DEF poll_tail
  <2>3. CASE poll_compare(p)
    BY <2>3, ZenonT(30) DEF poll_compare
  <2>4. CASE poll_copy_first(p)
    BY <2>4, ZenonT(30) DEF poll_copy_first
  <2>5. CASE poll_copy_rest(p)
    BY <2>5, ZenonT(30) DEF poll_copy_rest
  <2>6. CASE poll_advance(p)
    BY <2>6, ZenonT(30) DEF poll_advance
  <2> HIDE DEF Begin, Step, queue_vars, poll_vars, TypeOK, Unmoved
  <2> QED
    BY <1>1, <2>1, <2>2, <2>3, <2>4, <2>5, <2>6, Zenon DEF keyboard_block_read
<1>2. CASE register_keyboard_listener(p)
  BY <1>2, ZenonT(40) DEF register_keyboard_listener, register_scan, register_claim, Begin, Step,
              queue_vars, poll_vars, TypeOK, Unmoved
<1>3. CASE timer_tick(p)
  BY <1>3, Zenon DEF timer_tick, queue_vars, poll_vars, TypeOK, Unmoved
<1>4. CASE remove_keyboard_listener(p)
  BY <1>4 DEF remove_keyboard_listener, remove_head, remove_tail, remove_used, Begin, Step,
              queue_vars, poll_vars, TypeOK, Unmoved
<1> QED
  BY <1>1, <1>2, <1>3, <1>4, Zenon

(* A level that a listener's step does not write.                          *)
LEMMA OtherLevel ==
  ASSUME TypeOK, NEW p \in Listeners,
         \/ timer_tick(p)
         \/ keyboard_block_read(p)
         \/ register_keyboard_listener(p)
         \/ remove_keyboard_listener(p),
         NEW l \in Levels, l # lvl[p] \/ register_scan(p), NEW v, Level(l, v)
  PROVE  Level(l, v)'
<1>1. (\A q \in Listeners \ {p} : Unmoved(q)) /\ pressed' = pressed
  BY OthersUnmoved, Zenon
<1>2. CASE register_scan(p)
  <2>1. SameRing(l)
    BY <1>2, Zenon DEF register_scan, queue_vars, SameRing
  <2>2. pc'[p] \in {"claim", "panic"} /\ pc[p] = "off"
    BY <1>2, Zenon DEF register_scan, Begin, Step, TypeOK
  <2>3. ~Registered(p)' /\ pc[p] # "clear_tail" /\ pc'[p] # "clear_tail"
    BY <2>2, Zenon DEF Registered
  <2>4. Clearing(l)' <=> Clearing(l)
    BY <1>1, <2>3, ClearingSame, Zenon
  <2> QED
    BY <1>1, <2>1, <2>3, <2>4, SameRingLevel, Zenon
<1>3. CASE ~register_scan(p)
  <2>1. l # lvl[p]
    BY <1>3, Zenon
  <2>2. lvl' = lvl
    BY <1>3, ZenonT(40)
       DEF timer_tick, keyboard_block_read, poll_head, poll_tail, poll_compare, poll_copy_first,
           poll_copy_rest, poll_advance, register_keyboard_listener, register_claim,
           remove_keyboard_listener, remove_head, remove_tail, remove_used
  <2>3. /\ ring' = ring
        /\ head' = head \/ head' = [head EXCEPT ![lvl[p]] = 0]
        /\ tail' = tail \/ tail' = [tail EXCEPT ![lvl[p]] = 0]
                        \/ tail' = [tail EXCEPT ![lvl[p]] = succ(t[p])]
    BY <1>3, ZenonT(40)
       DEF timer_tick, keyboard_block_read, poll_head, poll_tail, poll_compare, poll_copy_first,
           poll_copy_rest, poll_advance, register_keyboard_listener, register_claim,
           remove_keyboard_listener, remove_head, remove_tail, remove_used, queue_vars
  <2>4. SameRing(l)
    BY <1>1, <2>1, <2>3, Zenon DEF SameRing, TypeOK
  <2>5. Clearing(l)' <=> Clearing(l)
    BY <1>1, <2>1, <2>2, ClearingSame, Zenon
  <2> QED
    BY <1>1, <2>1, <2>2, <2>4, <2>5, SameRingLevel, Zenon
<1> QED
  BY <1>2, <1>3, Zenon

(* keyboard_poll() up to the copy: what it reads is in order (keyboard.c:  *)
(* 49-63).                                                                 *)
LEMMA PollReader ==
  ASSUME TypeOK, NEW p \in Listeners, NEW v \in 0 .. RING_BUFFER_SIZE,
         NEW l \in Levels, l = lvl[p], SameRing(l), Reader(p, l, v), Within(l, v), ~Clearing(l),
         \/ timer_tick(p)
         \/ poll_head(p)
         \/ poll_tail(p)
         \/ poll_compare(p)
         \/ poll_copy_first(p)
         \/ poll_copy_rest(p)
  PROVE  Reader(p, l, v)'
<1>0. /\ head[l] \in Index /\ tail[l] \in Index /\ \A i \in Index : ring[l][i] \in Nat
  BY LevelTyped, Zenon
<1>1. /\ t[p] \in Index /\ last[p] \in Nat /\ out[p] \in Keys \X Keys
      /\ out[p][1] \in Nat /\ out[p][2] \in Nat
  BY ReaderTyped, Zenon
<1>2. /\ head'[l] = head[l] /\ tail'[l] = tail[l] /\ ring'[l] = ring[l] /\ pressed' = pressed
      /\ last' = last
  BY Zenon DEF SameRing, timer_tick, poll_head, poll_tail, poll_compare, poll_copy_first,
               poll_copy_rest
<1>3. Newer(l, last[p]) => Newer(l, last[p])'
  BY <1>2, Zenon DEF Newer
<1>4. last'[p] <= pressed'
  BY <1>2, Zenon DEF Reader
<1>5. CASE timer_tick(p)
  <2>1. pc[p] = "hlt" /\ pc'[p] = "ready"
    BY <1>5, Zenon DEF timer_tick, TypeOK
  <2>2. ~InHand(p)'
    BY <2>1, Zenon DEF InHand
  <2>3. Newer(l, last[p])
    BY <2>1, Zenon DEF Reader, Resting
  <2> QED
    BY <1>3, <1>4, <2>1, <2>2, <2>3, Zenon DEF Reader
<1>6. CASE poll_head(p)
  <2>1. pc[p] = "ready" /\ pc'[p] = "read_tail" /\ h'[p] = head[l]
    BY <1>6, Zenon DEF poll_head, Begin, Step, TypeOK
  <2>2. ~InHand(p)'
    BY <2>1, Zenon DEF InHand
  <2>3. Newer(l, last[p])
    BY <2>1, Zenon DEF Reader, Resting
  <2> QED
    BY <1>2, <1>3, <1>4, <2>1, <2>2, <2>3, Zenon DEF Reader
<1>7. CASE poll_tail(p)
  <2>1. pc[p] = "read_tail" /\ pc'[p] = "compare" /\ t'[p] = tail[l] /\ h'[p] = h[p]
    BY <1>7, Zenon DEF poll_tail, Step, TypeOK
  <2>2. Newer(l, last[p]) /\ (h[p] = head[l] \/ head[l] # tail[l])
    BY <2>1, Zenon DEF Reader, Resting
  <2>3. ASSUME InHand(p)' PROVE Back(head[l], tail[l]) <= v /\ last[p] < ring[l][tail[l]]
    <3>1. tail[l] # head[l]
      BY <2>1, <2>2, <2>3, Zenon DEF InHand
    <3>2. Dist(tail[l], head[l]) \in Index /\ Dist(tail[l], head[l]) # 0
      BY <1>0, <3>1, DistRange, Zenon
    <3>3. 1 <= Dist(tail[l], head[l]) /\ Dist(tail[l], head[l]) <= Dist(tail[l], head[l])
      BY <3>2, IndexNat, Positive, LeRefl, Zenon
    <3>4. last[p] < ring[l][tail[l]]
      BY <1>0, <2>2, <3>3, Zenon DEF Newer
    <3>5. Dist(tail[l], head[l]) <= v
      BY Zenon DEF Within
    <3> QED
      BY <1>0, <3>1, <3>4, <3>5, Zenon DEF Back
  <2> QED
    BY <1>2, <1>3, <1>4, <2>1, <2>2, <2>3, Zenon DEF Reader
<1>8. CASE poll_compare(p)
  <2>1. /\ pc[p] = "compare" /\ pc'[p] = IF t[p] = h[p] THEN "hlt" ELSE "copy_first"
        /\ t'[p] = t[p]
    BY <1>8, Zenon DEF poll_compare, Step, TypeOK, poll_vars
  <2>2. t[p] = h[p] => Newer(l, last[p])
    BY <2>1, Zenon DEF Reader, Resting
  <2>3. t[p] # h[p] => Back(head[l], t[p]) <= v /\ last[p] < ring[l][t[p]]
    BY <2>1, Zenon DEF Reader, InHand
  <2>4. CASE t[p] = h[p]
    <3>1. pc'[p] = "hlt" /\ ~InHand(p)'
      BY <2>1, <2>4, Zenon DEF InHand
    <3> QED
      BY <1>3, <1>4, <2>2, <2>4, <3>1, Zenon DEF Reader
  <2>5. CASE t[p] # h[p]
    <3>1. pc'[p] = "copy_first" /\ ~Resting(p)'
      BY <2>1, <2>5, Zenon DEF Resting
    <3> QED
      BY <1>2, <1>4, <2>1, <2>3, <2>5, <3>1, Zenon DEF Reader
  <2> QED
    BY <2>4, <2>5, Zenon
<1>9. CASE poll_copy_first(p)
  <2>1. /\ pc[p] = "copy_first" /\ pc'[p] = "copy_rest" /\ t'[p] = t[p]
        /\ out'[p] = [out[p] EXCEPT ![1] = ring[l][t[p]]]
    BY <1>9, ZenonT(30) DEF poll_copy_first, Step, TypeOK
  <2>2. out'[p][1] = ring[l][t[p]]
    BY <1>9, FieldCopied, Zenon
  <2>3. Back(head[l], t[p]) <= v /\ last[p] < ring[l][t[p]]
    BY <2>1, ZenonT(30) DEF Reader, InHand
  <2>4. ring[l][t[p]] <= ring[l][t[p]]
    BY <1>0, <1>1, LeRefl, Zenon
  <2>5. ~Resting(p)'
    BY <2>1, Zenon DEF Resting
  <2> QED
    BY <1>2, <1>4, <2>1, <2>2, <2>3, <2>4, <2>5, Zenon DEF Reader
<1>10. CASE poll_copy_rest(p)
  <2>1. /\ pc[p] = "copy_rest" /\ pc'[p] = "advance" /\ t'[p] = t[p]
        /\ out'[p] = [out[p] EXCEPT ![2] = ring[l][t[p]]]
    BY <1>10, Zenon DEF poll_copy_rest, Step, TypeOK
  <2>2. out'[p][2] = ring[l][t[p]] /\ out'[p][1] = out[p][1]
    BY <1>10, FieldCopied, Zenon
  <2>3. Back(head[l], t[p]) <= v /\ last[p] < ring[l][t[p]]
    BY <2>1, Zenon DEF Reader, InHand
  <2>4. last[p] < out[p][1] /\ out[p][1] <= ring[l][t[p]]
    BY <2>1, Zenon DEF Reader
  <2>5. ring[l][t[p]] <= ring[l][t[p]]
    BY <1>0, <1>1, LeRefl, Zenon
  <2>6. ~Resting(p)'
    BY <2>1, Zenon DEF Resting
  <2> QED
    BY <1>2, <1>4, <2>1, <2>2, <2>3, <2>4, <2>5, <2>6, Zenon DEF Reader
<1> QED
  BY <1>5, <1>6, <1>7, <1>8, <1>9, <1>10, Zenon

(* Nobody else reads the level of a registered listener.                   *)
LEMMA Alone ==
  ASSUME OneListenerPerLevel, NEW p \in Listeners, Registered(p)
  PROVE  \A q \in Listeners \ {p} : ~(Registered(q) /\ lvl[q] = lvl[p]) /\ ~(lvl[q] = lvl[p] /\ pc[q] = "clear_tail")
<1>1. \A q \in Listeners : pc[q] = "clear_tail" => Registered(q)
  BY Zenon DEF Registered
<1> QED
  BY <1>1, Zenon DEF OneListenerPerLevel

(* The level of the listener that takes a step, as long as levels are not  *)
(* shared.                                                                 *)
LEMMA OwnLevel ==
  ASSUME TypeOK, OneListenerPerLevel, OneListenerPerLevel', NEW p \in Listeners,
         \/ timer_tick(p)
         \/ keyboard_block_read(p)
         \/ register_claim(p)
         \/ remove_keyboard_listener(p),
         NEW l \in Levels, l = lvl[p], NEW v \in 0 .. RING_BUFFER_SIZE, Level(l, v)
  PROVE  \E w \in 0 .. RING_BUFFER_SIZE : Level(l, w)'
<1>0. /\ head[l] \in Index /\ tail[l] \in Index /\ \A i \in Index : ring[l][i] \in Nat
      /\ pressed \in Nat /\ RING_BUFFER_SIZE \in Nat
  BY LevelTyped, Zenon
<1>1. (\A q \in Listeners \ {p} : Unmoved(q)) /\ pressed' = pressed
  BY OthersUnmoved, Zenon DEF register_keyboard_listener
<1>2. Ordered(l, v) /\ Within(l, v) /\ (Registered(p) => Reader(p, l, v))
  BY Zenon DEF Level
<1>3. /\ t[p] \in Index /\ last[p] \in Nat /\ out[p][1] \in Nat /\ out[p][2] \in Nat
  BY ReaderTyped, Zenon
<1>4. CASE \/ timer_tick(p) \/ poll_head(p) \/ poll_tail(p) \/ poll_compare(p)
           \/ poll_copy_first(p) \/ poll_copy_rest(p)
  <2>1. SameRing(l)
    BY <1>1, <1>4, Zenon DEF timer_tick, poll_head, poll_tail, poll_compare, poll_copy_first,
                             poll_copy_rest, queue_vars, SameRing
  <2>2. /\ pc[p] \in {"hlt", "ready", "read_tail", "compare", "copy_first", "copy_rest"}
        /\ pc'[p] \in {"hlt", "ready", "read_tail", "compare", "copy_first", "copy_rest", "advance"}
    BY <1>4, Zenon DEF timer_tick, poll_head, poll_tail, poll_compare, poll_copy_first,
                             poll_copy_rest, Begin, Step, TypeOK
  <2>3. Registered(p) /\ pc[p] # "clear_tail" /\ pc'[p] # "clear_tail"
    BY <2>2, Zenon DEF Registered
  <2>4. ~Clearing(l) /\ (Clearing(l)' <=> Clearing(l))
    <3>1. ~Clearing(l)
      BY <2>3, Alone, Zenon DEF Clearing
    <3>2. Clearing(l)' <=> Clearing(l)
      BY <1>1, <2>3, ClearingSame, Zenon
    <3> QED
      BY <3>1, <3>2, Zenon
  <2>5. Reader(p, l, v)'
    BY <1>2, <1>4, <2>1, <2>3, <2>4, PollReader, Zenon
  <2> QED
    BY <1>1, <2>1, <2>4, <2>5, SameRingLevel, Zenon
<1>5. CASE poll_advance(p)
  <2>1. /\ pc[p] = "advance" /\ pc'[p] = "ready" /\ lvl' = lvl
        /\ head' = head /\ ring' = ring /\ tail'[l] = succ(t[p]) /\ last'[p] = out[p][2]
    BY <1>5, Zenon DEF poll_advance, Step, TypeOK
  <2>2. Registered(p) /\ InHand(p) /\ pc[p] # "clear_tail" /\ pc'[p] # "clear_tail"
    BY <2>1, Zenon DEF Registered, InHand
  <2>3. /\ Back(head[l], t[p]) <= v
        /\ out[p][2] <= ring[l][t[p]]
    BY <1>2, <2>1, <2>2, Zenon DEF Reader
  <2>4. /\ Back(head[l], t[p]) \in 1 .. RING_BUFFER_SIZE
        /\ Dist(succ(t[p]), head[l]) = Back(head[l], t[p]) - 1
    BY <1>0, <1>3, BackIs, Zenon
  <2>5. Ordered(l, v)'
    BY <1>1, <1>2, <2>1, Zenon DEF Ordered
  <2>6. Within(l, v)'
    <3>1. ~Clearing(l)'
      <4>1. ~Clearing(l)
        BY <2>2, Alone, Zenon DEF Clearing
      <4>2. Clearing(l)' <=> Clearing(l)
        BY <1>1, <2>2, ClearingSame, ZenonT(30)
      <4> QED
        BY <4>1, <4>2, Zenon
    <3>2. Dist(succ(t[p]), head[l]) <= v
      BY <1>0, <2>3, <2>4, Stretch, Zenon
    <3> QED
      BY <2>1, <3>1, <3>2, Zenon DEF Within
  <2>7. ring[l][t[p]] <= pressed
    BY <1>2, <1>3, <2>3, ZenonT(30) DEF Ordered
  <2>8. last'[p] <= pressed'
    <3>1. ring[l][t[p]] \in Nat
      BY <1>0, <1>3, Zenon
    <3>2. out[p][2] \in Nat /\ pressed \in Nat /\ out[p][2] <= ring[l][t[p]]
      BY <1>0, <1>3, <2>3, Zenon
    <3>3. out[p][2] <= pressed
      BY <2>7, <3>1, <3>2, LeTrans, Zenon
    <3> QED
      BY <1>1, <2>1, <3>3, Zenon
  <2>9. Newer(l, last[p])'
    <3>1. ASSUME NEW i \in Index,
                 1 <= Dist(i, head[l]), Dist(i, head[l]) <= Dist(succ(t[p]), head[l])
          PROVE  out[p][2] < ring[l][i]
      <4>1. Back(head[l], i) = Dist(i, head[l])
        <5>1. Dist(head[l], head[l]) = 0
          BY <1>0, DistRange, Zenon
        <5>2. i # head[l]
          BY <3>1, <5>1, Positive, Zenon
        <5> QED
          BY <5>2, Zenon DEF Back
      <4>2. Dist(i, head[l]) \in Nat
        BY <1>0, DistRange, IndexNat, Zenon
      <4>3. Back(head[l], i) < Back(head[l], t[p])
        BY <1>0, <2>4, <3>1, <4>1, <4>2, Stretch, Zenon
      <4>4. ring[l][t[p]] < ring[l][i]
        BY <1>2, <1>3, <2>3, <4>3, Zenon DEF Ordered
      <4>5. ring[l][t[p]] \in Nat /\ ring[l][i] \in Nat
        BY <1>0, <1>3, Zenon
      <4> QED
        BY <1>3, <2>3, <4>4, <4>5, LeLtTrans, Zenon
    <3> QED
      BY <2>1, <3>1, Zenon DEF Newer
  <2>10. Reader(p, l, v)'
    <3>1. ~InHand(p)'
      BY <2>1, Zenon DEF InHand
    <3> QED
      BY <2>1, <2>8, <2>9, <3>1, Zenon DEF Reader
  <2>11. \A q \in Listeners \ {p} : ~(Registered(q)' /\ lvl'[q] = l)
    BY <1>1, <2>1, <2>2, Alone, Zenon DEF Unmoved, Registered
  <2>12. ASSUME NEW q \in Listeners, Registered(q)', lvl'[q] = l PROVE Reader(q, l, v)'
    <3>1. q = p
      BY <2>11, <2>12, Zenon
    <3> QED
      BY <2>10, <3>1, Zenon
  <2>13. Level(l, v)'
    BY <2>5, <2>6, <2>12, Zenon DEF Level
  <2> QED
    BY <2>13, Zenon
<1>6. CASE register_claim(p)
  <2>1. /\ pc[p] = "claim" /\ pc'[p] = "ready" /\ lvl' = lvl
        /\ head' = head /\ ring' = ring /\ tail' = tail /\ last'[p] = 0
    BY <1>6, Zenon DEF register_claim, Step, TypeOK
  <2>2. SameRing(l)
    BY <1>1, <2>1, Zenon DEF SameRing
  <2>3. Registered(p)' /\ pc[p] # "clear_tail" /\ pc'[p] # "clear_tail"
    BY <2>1, Zenon DEF Registered
  <2>4. Clearing(l)' <=> Clearing(l)
    BY <1>1, <2>3, ClearingSame, Zenon
  <2>5. ~Clearing(l)
    <3>1. ASSUME NEW q \in Listeners, lvl[q] = l, pc[q] = "clear_tail" PROVE FALSE
      <4>1. q # p
        BY <2>1, <3>1, Zenon
      <4>2. Unmoved(q)
        BY <1>1, <4>1, Zenon
      <4>3. pc'[q] = "clear_tail" /\ lvl'[q] = l /\ lvl'[p] = l
        BY <2>1, <3>1, <4>2, Zenon DEF Unmoved
      <4>4. Registered(q)'
        BY <4>3, Zenon DEF Registered
      <4> QED
        BY <2>3, <4>1, <4>3, <4>4, Zenon DEF OneListenerPerLevel
    <3> QED
      BY <3>1, Zenon DEF Clearing
  <2>6. Newer(l, last[p])'
    <3>1. ASSUME NEW i \in Index,
                 1 <= Dist(i, head[l]), Dist(i, head[l]) <= Dist(tail[l], head[l])
          PROVE  0 < ring[l][i]
      <4>1. Back(head[l], i) = Dist(i, head[l])
        <5>1. Dist(head[l], head[l]) = 0
          BY <1>0, DistRange, Zenon
        <5>2. i # head[l]
          BY <3>1, <5>1, Positive, Zenon
        <5> QED
          BY <5>2, Zenon DEF Back
      <4>2. Dist(i, head[l]) \in Nat /\ Dist(tail[l], head[l]) \in Nat
        BY <1>0, DistRange, IndexNat, Zenon
      <4>3. Dist(tail[l], head[l]) <= v
        BY <1>2, <2>5, ZenonT(30) DEF Within
      <4>4. Back(head[l], i) <= v
        <5>1. v \in Nat
          BY <1>0, Stretch, Zenon
        <5> QED
          BY <3>1, <4>1, <4>2, <4>3, <5>1, LeTrans, ZenonT(30)
      <4>5. 1 <= ring[l][i] /\ ring[l][i] \in Nat
        BY <1>0, <1>2, <4>4, Zenon DEF Ordered
      <4> QED
        BY <4>5, Positive, Zenon
    <3> QED
      BY <2>1, <3>1, Zenon DEF Newer
  <2>7. Reader(p, l, v)'
    <3>1. ~InHand(p)'
      BY <2>1, Zenon DEF InHand
    <3>2. last'[p] <= pressed'
      BY <1>0, <1>1, <2>1, LeRefl, Zenon
    <3> QED
      BY <2>1, <2>6, <3>1, <3>2, ZenonT(30) DEF Reader
  <2> QED
    BY <1>1, <2>2, <2>4, <2>7, SameRingLevel, Zenon
<1>7. CASE remove_head(p)
  <2>1. /\ pc[p] = "ready" /\ pc'[p] = "clear_tail" /\ lvl' = lvl /\ head'[l] = 0 /\ last' = last
    BY <1>7, Zenon DEF remove_head, Begin, Step, TypeOK
  <2>2. Registered(p)
    BY <2>1, Zenon DEF Registered
  <2>3. 0 \in Index /\ 0 \in 0 .. RING_BUFFER_SIZE /\ 0 <= 0
    BY <1>0, ZeroInRange, Stretch, LeRefl, Zenon
  <2>4. Ordered(l, 0)'
    <3>1. \A i \in Index : ~(Back(0, i) <= 0)
      BY <1>0, <2>3, BackIs, Stretch, Zenon
    <3> QED
      BY <2>1, <3>1, Zenon DEF Ordered
  <2>5. Within(l, 0)'
    <3>1. Clearing(l)'
      BY <2>1, Zenon DEF Clearing
    <3>2. Dist(0, 0) = 0
      BY <2>3, DistRange, Zenon
    <3> QED
      BY <2>1, <2>3, <3>1, <3>2, Zenon DEF Within
  <2>6. Reader(p, l, 0)'
    <3>1. ~InHand(p)' /\ ~Resting(p)'
      BY <2>1, Zenon DEF InHand, Resting
    <3>2. last'[p] <= pressed'
      BY <1>1, <1>2, <2>1, <2>2, Zenon DEF Reader
    <3> QED
      BY <2>1, <3>1, <3>2, Zenon DEF Reader
  <2>7. \A q \in Listeners \ {p} : ~(Registered(q)' /\ lvl'[q] = l)
    BY <1>1, <2>1, <2>2, Alone, Zenon DEF Unmoved, Registered
  <2>8. ASSUME NEW q \in Listeners, Registered(q)', lvl'[q] = l PROVE Reader(q, l, 0)'
    <3>1. q = p
      BY <2>7, <2>8, Zenon
    <3> QED
      BY <2>6, <3>1, Zenon
  <2>9. Level(l, 0)'
    BY <2>4, <2>5, <2>8, Zenon DEF Level
  <2> QED
    BY <2>3, <2>9, Zenon
<1>8. CASE remove_tail(p)
  <2>1. /\ pc[p] = "clear_tail" /\ pc'[p] = "clear_used" /\ lvl' = lvl /\ tail'[l] = 0
        /\ head' = head /\ ring' = ring /\ last' = last
    BY <1>8, Zenon DEF remove_tail, Step, TypeOK
  <2>2. Registered(p) /\ ~InHand(p)' /\ ~Resting(p)'
    BY <2>1, Zenon DEF Registered, InHand, Resting
  <2>3. Ordered(l, v)'
    BY <1>1, <1>2, <2>1, Zenon DEF Ordered
  <2>4. Within(l, v)'
    <3>1. Clearing(l)
      BY <2>1, Zenon DEF Clearing
    <3>2. Dist(0, head[l]) <= v
      BY <1>2, <3>1, Zenon DEF Within
    <3> QED
      BY <2>1, <3>2, Zenon DEF Within
  <2>5. Reader(p, l, v)'
    <3>1. last'[p] <= pressed'
      BY <1>1, <1>2, <2>1, <2>2, Zenon DEF Reader
    <3> QED
      BY <2>1, <2>2, <3>1, Zenon DEF Reader
  <2>6. \A q \in Listeners \ {p} : ~(Registered(q)' /\ lvl'[q] = l)
    BY <1>1, <2>1, <2>2, Alone, Zenon DEF Unmoved, Registered
  <2>7. ASSUME NEW q \in Listeners, Registered(q)', lvl'[q] = l PROVE Reader(q, l, v)'
    <3>1. q = p
      BY <2>6, <2>7, Zenon
    <3> QED
      BY <2>5, <3>1, Zenon
  <2>8. Level(l, v)'
    BY <2>3, <2>4, <2>7, Zenon DEF Level
  <2> QED
    BY <2>8, Zenon
<1>9. CASE remove_used(p)
  <2>1. /\ pc[p] = "clear_used" /\ pc'[p] = "off" /\ head' = head /\ ring' = ring /\ tail' = tail
    BY <1>9, Zenon DEF remove_used, Step, TypeOK
  <2>2. SameRing(l) /\ ~Registered(p)' /\ pc[p] # "clear_tail" /\ pc'[p] # "clear_tail"
    BY <1>1, <2>1, Zenon DEF SameRing, Registered
  <2>3. Clearing(l)' <=> Clearing(l)
    BY <1>1, <2>2, ClearingSame, Zenon
  <2> QED
    BY <1>1, <2>2, <2>3, SameRingLevel, Zenon
<1> QED
  BY <1>4, <1>5, <1>6, <1>7, <1>8, <1>9, Zenon DEF keyboard_block_read, remove_keyboard_listener

(* The rings stay in order while levels are not shared.                    *)
LEMMA OrderKept ==
  TypeOK /\ OrderInv /\ OneListenerPerLevel /\ OneListenerPerLevel' /\ [Next]_vars => OrderInv'
<1> SUFFICES ASSUME TypeOK, OrderInv, OneListenerPerLevel, OneListenerPerLevel', [Next]_vars,
                    NEW l \in Levels
             PROVE  \E w \in 0 .. RING_BUFFER_SIZE : Level(l, w)'
  BY Zenon DEF OrderInv
<1>1. PICK v \in 0 .. RING_BUFFER_SIZE : Level(l, v)
  BY Zenon DEF OrderInv
<1>2. CASE keyboard_push
  BY <1>1, <1>2, PushKeepsLevel, Zenon
<1>3. CASE UNCHANGED vars
  <2>1. UNCHANGED <<ring, head, tail, used, pressed, pc, lvl, h, t, out, last, during>>
    BY <1>3, ZenonT(30) DEF vars, queue_vars, poll_vars
  <2>2. SameRing(l) /\ \A q \in Listeners : Unmoved(q)
    BY <2>1, Zenon DEF SameRing, Unmoved
  <2>3. Clearing(l)' <=> Clearing(l)
    BY <2>1, Zenon DEF Clearing
  <2>4. Ordered(l, v)' /\ Within(l, v)'
    BY <1>1, <2>2, <2>3, Zenon DEF Level, Ordered, Within, SameRing
  <2>5. ASSUME NEW q \in Listeners, Registered(q)', lvl'[q] = l PROVE Reader(q, l, v)'
    <3>1. Registered(q) /\ lvl[q] = l
      BY <2>1, <2>5, Zenon DEF Registered
    <3> QED
      BY <1>1, <2>2, <3>1, UnmovedReader, Zenon DEF Level
  <2> QED
    BY <2>4, <2>5, Zenon DEF Level
<1>4. ASSUME NEW p \in Listeners,
             \/ timer_tick(p)
             \/ keyboard_block_read(p)
             \/ register_keyboard_listener(p)
             \/ remove_keyboard_listener(p)
      PROVE  \E w \in 0 .. RING_BUFFER_SIZE : Level(l, w)'
  <2>1. CASE l # lvl[p] \/ register_scan(p)
    BY <1>1, <1>4, <2>1, OtherLevel, Zenon
  <2>2. CASE l = lvl[p] /\ ~register_scan(p)
    BY <1>1, <1>4, <2>2, OwnLevel, Zenon DEF register_keyboard_listener
  <2> QED
    BY <2>1, <2>2, Zenon
<1> QED
  BY <1>2, <1>3, <1>4, Zenon DEF Next

(* With preemption, keys at any point of a poll, and listeners that come   *)
(* and go, a listener is never given a key again or after a newer one, as  *)
(* long as levels are not shared (keyboard.c:23-66).                       *)
THEOREM KeysNeverGoBack ==
  Spec /\ []OneListenerPerLevel => []NeverBackwards
<1>1. Init => OrderInv
  <2> SUFFICES ASSUME Init, NEW l \in Levels PROVE Level(l, 0) /\ 0 \in 0 .. RING_BUFFER_SIZE
    BY Zenon DEF OrderInv
  <2>1. head[l] = 0 /\ tail[l] = 0 /\ \A p \in Listeners : pc[p] = "off"
    BY Zenon DEF Init
  <2>2. 0 \in Index /\ 0 \in 0 .. RING_BUFFER_SIZE /\ 0 <= 0
    BY ZeroInRange, RingAssumption
  <2>3. Ordered(l, 0)
    <3>1. \A i \in Index : ~(Back(0, i) <= 0)
      BY <2>2, BackIs, RingAssumption
    <3> QED
      BY <2>1, <3>1, Zenon DEF Ordered
  <2>4. Within(l, 0)
    <3>1. Dist(0, 0) = 0
      BY <2>2, DistRange, Zenon
    <3> QED
      BY <2>1, <2>2, <3>1, Zenon DEF Within
  <2>5. \A p \in Listeners : ~Registered(p)
    BY <2>1, Zenon DEF Registered
  <2> QED
    BY <2>2, <2>3, <2>4, <2>5, Zenon DEF Level
<1>2. TypeOK /\ OrderInv => NeverBackwards
  <2> SUFFICES ASSUME TypeOK, OrderInv, NEW p \in Listeners, pc[p] = "advance"
               PROVE  last[p] < out[p][1] /\ out[p][1] <= out[p][2]
    BY Zenon DEF NeverBackwards
  <2>1. Registered(p) /\ lvl[p] \in Levels
    BY ReaderTyped, Zenon DEF Registered
  <2>2. PICK v \in 0 .. RING_BUFFER_SIZE : Reader(p, lvl[p], v)
    BY <2>1, Zenon DEF OrderInv, Level
  <2> QED
    BY <2>2, Zenon DEF Reader
<1> QED
  BY <1>1, <1>2, OrderKept, RingsTyped, PTL DEF Spec

(* A lone listener needs no such condition.                                *)
THEOREM LoneListenerNeverGoesBack ==
  ASSUME \A p, q \in Listeners : p = q
  PROVE  Spec => []NeverBackwards
<1>1. OneListenerPerLevel
  BY Zenon DEF OneListenerPerLevel
<1> QED
  BY <1>1, KeysNeverGoBack, PTL
=============================================================================
