--------------------------- MODULE KeyboardQueue ---------------------------
(***************************************************************************)
(* The per-listener keyboard rings of arch/x86_64/include/keyboard.c: the  *)
(* PS/2 interrupt handler pushes every key into the ring of every          *)
(* registered level, and listeners register, poll, block until a key comes *)
(* and unregister.                                                         *)
(*                                                                         *)
(* The handler runs with interrupts off and is one step.  The listeners'   *)
(* calls are split at every access to the shared ring state.  A key is     *)
(* represented by its number: 1 for the first key pressed, and so on.      *)
(***************************************************************************)
EXTENDS Integers, Sequences

CONSTANTS
  RING_BUFFER_SIZE,       \* slots of a ring          (keyboard.h:20)
  KEYBOARD_QUEUE_LEVELS,  \* number of rings          (keyboard.h:24)
  Listeners,              \* the processes that read the keyboard
  Preemptive,             \* whether a process can lose the CPU inside a call
  MayRemove,              \* whether listeners unregister
  MaxKeys                 \* bound: keys pressed in a behaviour

ASSUME RingAssumption == RING_BUFFER_SIZE \in Nat /\ RING_BUFFER_SIZE >= 3
ASSUME QueueLevelsAssumption == KEYBOARD_QUEUE_LEVELS \in Nat \ {0}
ASSUME ModeAssumption == Preemptive \in BOOLEAN /\ MayRemove \in BOOLEAN
ASSUME MaxKeysAssumption == MaxKeys \in Nat

Levels == 0 .. KEYBOARD_QUEUE_LEVELS - 1
Index == 0 .. RING_BUFFER_SIZE - 1
Keys == 0 .. MaxKeys      \* 0 is the zeroed entry of a slot never written

VARIABLES
  ring,     \* keyboard_multilevel_queue[level][index]
  head,     \* keyboard_queue_state[level].head, .tail and .used
  tail,
  used,
  pressed,  \* keys pressed so far
  pc,       \* where each listener stands
  lvl,      \* the level each listener was given
  h, t,     \* keyboard_poll()'s head_index and tail_index
  out,      \* the first and the last field of *out, as keys
  last,     \* the key each listener received last, since it registered
  during    \* without preemption: keys pressed since each listener's call began

queue_vars == <<ring, head, tail, used>>
poll_vars == <<h, t, out>>
vars == <<queue_vars, pressed, pc, lvl, poll_vars, last, during>>

(* Between calls; in keyboard_block_read()'s hlt; and inside a call.       *)
RestPoints == {"off", "ready", "panic"}
WaitPoints == {"hlt"}
CallPoints == {"claim", "read_tail", "compare", "copy_first", "copy_rest",
               "advance", "clear_tail", "clear_used"}

TypeOK ==
  /\ ring \in [Levels -> [Index -> Keys]]
  /\ head \in [Levels -> Index]
  /\ tail \in [Levels -> Index]
  /\ used \in [Levels -> BOOLEAN]
  /\ pressed \in 0 .. MaxKeys
  /\ pc \in [Listeners -> RestPoints \cup WaitPoints \cup CallPoints]
  /\ lvl \in [Listeners -> Levels]
  /\ h \in [Listeners -> Index]
  /\ t \in [Listeners -> Index]
  /\ out \in [Listeners -> Keys \X Keys]
  /\ last \in [Listeners -> Keys]
  /\ during \in [Listeners -> 0 .. 1]

Init ==
  /\ ring = [l \in Levels |-> [i \in Index |-> 0]]
  /\ head = [l \in Levels |-> 0]
  /\ tail = [l \in Levels |-> 0]
  /\ used = [l \in Levels |-> FALSE]
  /\ pressed = 0
  /\ pc = [p \in Listeners |-> "off"]
  /\ lvl = [p \in Listeners |-> 0]
  /\ h = [p \in Listeners |-> 0]
  /\ t = [p \in Listeners |-> 0]
  /\ out = [p \in Listeners |-> <<0, 0>>]
  /\ last = [p \in Listeners |-> 0]
  /\ during = [p \in Listeners |-> 0]

-----------------------------------------------------------------------------
(* Helpers                                                                 *)

(* Mutant: forget the wrap-around.                                         *)
succ_no_wrap(i) == i + 1

succ(i) == (i + 1) % RING_BUFFER_SIZE

InCall(p) == pc[p] \in CallPoints

(* Without preemption a call runs to its end before another process does.  *)
OnCPU(p) == Preemptive \/ \A q \in Listeners \ {p} : ~InCall(q)

Step(p, from, to) ==
  /\ OnCPU(p)
  /\ pc[p] = from
  /\ pc' = [pc EXCEPT ![p] = to]

Begin(p, from, to) ==
  /\ Step(p, from, to)
  /\ during' = [during EXCEPT ![p] = 0]

-----------------------------------------------------------------------------
(* The interrupt handler                                                   *)

(* Mutant: a full ring is not noticed, and the head runs into the tail.    *)
full_unnoticed(l) == FALSE

full(l) == succ(head[l]) = tail[l]

(* keyboard_push() on every level in use: a full ring loses its oldest     *)
(* entry.  Any interrupt ends a hlt.  Without preemption a call is over    *)
(* before a second key can come.                                           *)
keyboard_push ==
  /\ pressed < MaxKeys
  /\ Preemptive \/ \A p \in Listeners : InCall(p) => during[p] = 0
  /\ pressed' = pressed + 1
  /\ tail' = [l \in Levels |->
                IF used[l] /\ full(l) THEN succ(tail[l]) ELSE tail[l]]
  /\ ring' = [l \in Levels |->
                IF used[l] THEN [ring[l] EXCEPT ![head[l]] = pressed + 1]
                ELSE ring[l]]
  /\ head' = [l \in Levels |-> IF used[l] THEN succ(head[l]) ELSE head[l]]
  /\ during' = [p \in Listeners |->
                  IF InCall(p) /\ ~Preemptive THEN 1 ELSE during[p]]
  /\ pc' = [p \in Listeners |-> IF pc[p] = "hlt" THEN "ready" ELSE pc[p]]
  /\ UNCHANGED <<used, lvl, poll_vars, last>>

(* Mutant: the timer interrupt does not end a hlt.                         *)
timer_tick_masked(p) == pc[p] = "hlt" /\ UNCHANGED vars

(* The timer interrupt, as far as a halted listener notices it.            *)
timer_tick(p) ==
  /\ pc[p] = "hlt"
  /\ pc' = [pc EXCEPT ![p] = "ready"]
  /\ UNCHANGED <<queue_vars, pressed, lvl, poll_vars, last, during>>

-----------------------------------------------------------------------------
(* The listeners' calls                                                    *)

Unused == {l \in Levels : ~used[l]}

(* register_keyboard_listener(): find the first unused level ...           *)
register_scan(p) ==
  /\ \/ Unused = {} /\ Begin(p, "off", "panic") /\ UNCHANGED lvl
     \/ \E l \in Unused :
          /\ \A k \in Unused : l <= k
          /\ Begin(p, "off", "claim")
          /\ lvl' = [lvl EXCEPT ![p] = l]
  /\ UNCHANGED <<queue_vars, pressed, poll_vars, last>>

(* Mutant: forget to mark the level used.                                  *)
register_claim_unmarked(p) ==
  /\ Step(p, "claim", "ready")
  /\ last' = [last EXCEPT ![p] = 0]
  /\ UNCHANGED <<queue_vars, pressed, lvl, poll_vars, during>>

(* ... and claim it.                                                       *)
register_claim(p) ==
  /\ Step(p, "claim", "ready")
  /\ used' = [used EXCEPT ![lvl[p]] = TRUE]
  /\ last' = [last EXCEPT ![p] = 0]
  /\ UNCHANGED <<ring, head, tail, pressed, lvl, poll_vars, during>>

(* keyboard_poll(): read head, then tail, ...                              *)
poll_head(p) ==
  /\ Begin(p, "ready", "read_tail")
  /\ h' = [h EXCEPT ![p] = head[lvl[p]]]
  /\ UNCHANGED <<queue_vars, pressed, lvl, t, out, last>>

poll_tail(p) ==
  /\ Step(p, "read_tail", "compare")
  /\ t' = [t EXCEPT ![p] = tail[lvl[p]]]
  /\ UNCHANGED <<queue_vars, pressed, lvl, h, out, last, during>>

(* ... return 0 if they are equal, after which keyboard_block_read()       *)
(* halts ...                                                               *)
poll_compare(p) ==
  /\ Step(p, "compare", IF t[p] = h[p] THEN "hlt" ELSE "copy_first")
  /\ UNCHANGED <<queue_vars, pressed, lvl, poll_vars, last, during>>

(* ... copy the entry field by field (two of the four fields are enough to *)
(* tell a torn event from a whole one) ...                                 *)
poll_copy_first(p) ==
  /\ Step(p, "copy_first", "copy_rest")
  /\ out' = [out EXCEPT ![p][1] = ring[lvl[p]][t[p]]]
  /\ UNCHANGED <<queue_vars, pressed, lvl, h, t, last, during>>

(* Mutant: read the shared tail again.                                     *)
poll_copy_rest_rereads(p) ==
  /\ Step(p, "copy_rest", "advance")
  /\ out' = [out EXCEPT ![p][2] = ring[lvl[p]][tail[lvl[p]]]]
  /\ UNCHANGED <<queue_vars, pressed, lvl, h, t, last, during>>

poll_copy_rest(p) ==
  /\ Step(p, "copy_rest", "advance")
  /\ out' = [out EXCEPT ![p][2] = ring[lvl[p]][t[p]]]
  /\ UNCHANGED <<queue_vars, pressed, lvl, h, t, last, during>>

(* Mutant: forget to advance the tail.                                     *)
poll_advance_stays(p) ==
  /\ Step(p, "advance", "ready")
  /\ last' = [last EXCEPT ![p] = out[p][2]]
  /\ UNCHANGED <<queue_vars, pressed, lvl, poll_vars, during>>

(* ... and write back the tail that was read, plus one.                    *)
poll_advance(p) ==
  /\ Step(p, "advance", "ready")
  /\ tail' = [tail EXCEPT ![lvl[p]] = succ(t[p])]
  /\ last' = [last EXCEPT ![p] = out[p][2]]
  /\ UNCHANGED <<ring, head, used, pressed, lvl, poll_vars, during>>

(* remove_keyboard_listener(): memset() clears head, then tail, then used. *)
remove_head(p) ==
  /\ MayRemove
  /\ Begin(p, "ready", "clear_tail")
  /\ head' = [head EXCEPT ![lvl[p]] = 0]
  /\ UNCHANGED <<ring, tail, used, pressed, lvl, poll_vars, last>>

remove_tail(p) ==
  /\ Step(p, "clear_tail", "clear_used")
  /\ tail' = [tail EXCEPT ![lvl[p]] = 0]
  /\ UNCHANGED <<ring, head, used, pressed, lvl, poll_vars, last, during>>

remove_used(p) ==
  /\ Step(p, "clear_used", "off")
  /\ used' = [used EXCEPT ![lvl[p]] = FALSE]
  /\ UNCHANGED <<ring, head, tail, pressed, lvl, poll_vars, last, during>>

-----------------------------------------------------------------------------
keyboard_block_read(p) ==
  \/ poll_head(p)
  \/ poll_tail(p)
  \/ poll_compare(p)
  \/ poll_copy_first(p)
  \/ poll_copy_rest(p)
  \/ poll_advance(p)

register_keyboard_listener(p) == register_scan(p) \/ register_claim(p)

remove_keyboard_listener(p) == remove_head(p) \/ remove_tail(p) \/ remove_used(p)

(* panic() in register_keyboard_listener() stops the machine.              *)
Running == \A p \in Listeners : pc[p] # "panic"

Next ==
  \/ Running /\ keyboard_push
  \/ \E p \in Listeners :
       IF Running
       THEN \/ timer_tick(p)
            \/ keyboard_block_read(p)
            \/ register_keyboard_listener(p)
            \/ remove_keyboard_listener(p)
       ELSE UNCHANGED vars

Spec == Init /\ [][Next]_vars

(* Listeners keep running, and the 1 ms timer keeps interrupting.  Nobody  *)
(* is obliged to press keys, to register or to unregister.                 *)
Fairness ==
  \A p \in Listeners :
    /\ WF_vars(Running /\ keyboard_block_read(p))
    /\ WF_vars(Running /\ register_claim(p))
    /\ WF_vars(Running /\ (remove_tail(p) \/ remove_used(p)))
    /\ WF_vars(Running /\ timer_tick(p))

FairSpec == Spec /\ Fairness

-----------------------------------------------------------------------------
(* Properties                                                              *)

Registered(p) == pc[p] \notin {"off", "claim", "panic"}

(* p has decided to take the entry at t[p].                                *)
InHand(p) ==
  \/ pc[p] \in {"copy_first", "copy_rest", "advance"}
  \/ pc[p] = "compare" /\ t[p] # h[p]

Holder(l) == {p \in Listeners : lvl[p] = l /\ InHand(p)}

(* The entries from index i up to the head.                                *)
From(l, i) ==
  [k \in 1 .. (head[l] - i) % RING_BUFFER_SIZE |->
     ring[l][(i + k - 1) % RING_BUFFER_SIZE]]

Pending(l) ==
  IF Holder(l) = {} THEN From(l, tail[l])
  ELSE From(l, succ(t[CHOOSE p \in Holder(l) : TRUE]))

Fifo == INSTANCE KeyFifo WITH
  Queues <- Levels, Capacity <- RING_BUFFER_SIZE - 1,
  open <- {l \in Levels : used[l]},
  pending <- [l \in Levels |-> Pending(l)]

(* keyboard.c:45-48 calls keyboard_poll() safe in a kernel without         *)
(* preemption.  There, rings, indices and interrupts implement the plain   *)
(* bounded queue per listener, even when a key arrives in the middle of a  *)
(* poll of a full ring: no key is lost but the oldest of a full queue.     *)
ImplementsFifo == Fifo!FSpec

(* What the listener gets is the key at the front of that queue, and all   *)
(* of it: the fields of *out come from one key, newer than the last.       *)
WholeAndNewer ==
  \A p \in Listeners :
    pc[p] = "advance" =>
      /\ out[p][1] = out[p][2]
      /\ out[p][1] > last[p]
      /\ Pending(lvl[p]) # << >> => out[p][1] + 1 = Pending(lvl[p])[1]

(* With preemption, keys arriving at any point of a poll and a listener    *)
(* that comes and goes, keys may get lost or mixed, but a listener that    *)
(* has its level to itself is never given a key again or after a newer one *)
(* (keyboard.c:23-66).                                                     *)
NeverBackwards ==
  \A p \in Listeners :
    pc[p] = "advance" =>
      last[p] < out[p][1] /\ out[p][1] <= out[p][2]

(* keyboard.c:71-77: keyboard_block_read() tests and then halts without    *)
(* turning interrupts off.  A key that falls in between still reaches the  *)
(* listener, because the timer ends the hlt.                               *)
WaitingKeyIsRead ==
  \A p \in Listeners, k \in Keys :
    (Registered(p) /\ last[p] = k /\ Pending(lvl[p]) # << >>)
      ~> (last[p] # k \/ ~Registered(p) \/ ~Running)

(* Each level has one listener (register_keyboard_listener() claims an     *)
(* unused one, keyboard.h:108-117).                                        *)
OneListenerPerLevel ==
  \A p, q \in Listeners :
    Registered(p) /\ Registered(q) /\ lvl[p] = lvl[q] => p = q

-----------------------------------------------------------------------------
(* What the header promises, and the code does not keep once a call can be *)
(* interrupted for long.                                                   *)

(* keyboard.h:80-82: a full ring drops its oldest entry, and recent keys   *)
(* are not hidden: the newest key is still there or has been taken.        *)
NewestIsKept ==
  \A p \in Listeners :
    (Registered(p) /\ last[p] > 0 /\ ~InHand(p) /\ last[p] < pressed) =>
      \E i \in 1 .. Len(Pending(lvl[p])) : Pending(lvl[p])[i] = pressed
=============================================================================
