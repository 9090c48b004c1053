-------------------------- MODULE SchedulerProofs --------------------------
(***************************************************************************)
(* Proofs about module Scheduler, for a process table of any size and any  *)
(* number of priority levels.  The safety invariants are consequences of   *)
(* the inductive invariant Inv, which adds what they leave unsaid: which   *)
(* program points run with interrupts off, what each saved stack pointer   *)
(* is good for, and which of the three parties (init at boot, the          *)
(* scheduler, the process it claimed) can be on the CPU.                   *)
(*                                                                         *)
(* Behind them, and apart from them, are the proofs about pong.            *)
(***************************************************************************)
EXTENDS Scheduler, Pong, WellFoundedInduction, TLAPS

(* The points that run with interrupts off, and those that hold the lock.  *)
LockPoints == {"fork_unlock", "scan_unlock", "requeue_unlock"}
OffPoints == LockPoints \cup {"fork_spin", "scan", "requeue"}

(* The points at which the scheduler has a process in hand.                *)
ClaimPoints == {"scan_unlock", "claimed", "back", "requeue"}

(* Points of init before cpus[0].scheduler_proc is set.                    *)
EarlyPoints == {"boot"} \cup ForkPoints

IFInv ==
  /\ intr <=> (task = NULL \/ pc[task] \notin OffPoints)
  /\ mlfq_lock <=> (task # NULL /\ pc[task] \in LockPoints)
  /\ ~intr => saved

StackInv ==
  /\ \A p \in Slots :
       context[p] = IF p # task /\ pc[p] # "unused" THEN "on" ELSE "none"
  /\ \A p \in Slots : p # task => pc[p] \notin OffPoints
  /\ task # NULL => pc[task] \notin {"unused", "dead"}

StateInv ==
  \A p \in Slots :
    /\ state[p] = "UNUSED" <=> pc[p] = "unused"
    /\ state[p] = "ZOMBIE" <=> pc[p] \in {"exit", "dead"}

BootInv ==
  /\ task = NULL => scheduler_proc = NULL /\ \A p \in Slots : pc[p] = "unused"
  /\ task # NULL =>
       pc[InitProc] \in InitPoints \cup ForkPoints \cup {"run", "switch"}
  /\ \A p \in Slots : pc[p] \in InitPoints => p = InitProc
  /\ handler = "sched" <=>
       scheduler_proc # NULL /\ pc[InitProc] # "register"
  /\ scheduler_proc = NULL /\ task # NULL =>
       task = InitProc /\ pc[InitProc] \in EarlyPoints
  /\ scheduler_proc # NULL => pc[InitProc] \notin EarlyPoints

SchedInv ==
  /\ \A p \in Slots : pc[p] \in SchedPoints <=> p = scheduler_proc
  /\ scheduler_proc = NULL => claim = NULL
  /\ scheduler_proc # NULL =>
       \/ /\ task = scheduler_proc
          /\ claim # NULL <=> pc[scheduler_proc] \in ClaimPoints
       \/ /\ task = InitProc /\ pc[task] \in {"register", "handoff"}
          /\ pc[scheduler_proc] = "top" /\ claim = NULL
       \/ /\ task = claim
          /\ pc[scheduler_proc] = "back" /\ pc[InitProc] # "register"
  /\ pc[InitProc] = "register" => task = InitProc
  /\ claim # NULL =>
       /\ claim # scheduler_proc
       /\ state[claim] # "UNUSED"
       /\ pc[scheduler_proc] # "back" => state[claim] # "ZOMBIE"

ForkInv ==
  IF task # NULL /\ pc[task] \in ForkPoints
  THEN /\ child \in Slots /\ child # task /\ child # scheduler_proc
       /\ child # claim /\ child # InitProc
       /\ pc[child] = "run" /\ state[child] = "READY"
  ELSE child = NULL

QueueInv ==
  /\ QueuedOnce
  /\ \A p \in Slots :
       Queued(p) <=> (Live(p) /\ p # scheduler_proc /\ ~Held(p))

Inv ==
  /\ TypeOK
  /\ IFInv
  /\ StackInv
  /\ StateInv
  /\ BootInv
  /\ SchedInv
  /\ ForkInv
  /\ QueueInv

-----------------------------------------------------------------------------
(* Facts about the run queues.                                             *)

(* Appending a process that is not queued keeps every process queued at    *)
(* most once and adds exactly that process (list_add_tail() in             *)
(* sched_enqueue()).                                                       *)
LEMMA AppendToQueue ==
  ASSUME mlfq \in [Levels -> Seq(Slots)], QueuedOnce,
         NEW p \in Slots, ~Queued(p), NEW l \in Levels,
         mlfq' = [mlfq EXCEPT ![l] = Append(@, p)]
  PROVE  /\ mlfq' \in [Levels -> Seq(Slots)]
         /\ QueuedOnce'
         /\ \A q : Queued(q)' <=> (Queued(q) \/ q = p)
<1>1. /\ mlfq' \in [Levels -> Seq(Slots)]
      /\ \A k \in Levels : k # l => mlfq'[k] = mlfq[k]
      /\ Len(mlfq'[l]) = Len(mlfq[l]) + 1
      /\ \A i \in 1 .. Len(mlfq[l]) : mlfq'[l][i] = mlfq[l][i]
      /\ mlfq'[l][Len(mlfq[l]) + 1] = p
      /\ Len(mlfq[l]) \in Nat
  OBVIOUS
<1>2. \A q : Queued(q)' <=> (Queued(q) \/ q = p)
  <2> TAKE q
  <2>1. Queued(q)' => Queued(q) \/ q = p
    BY <1>1 DEF Queued
  <2>2. Queued(q) => Queued(q)'
    BY <1>1 DEF Queued
  <2>3. q = p => Queued(q)'
    <3> Len(mlfq[l]) + 1 \in 1 .. Len(mlfq'[l])
      BY <1>1
    <3> QED BY <1>1 DEF Queued
  <2> QED BY <2>1, <2>2, <2>3, Zenon
<1>3. QueuedOnce'
  BY <1>1 DEF QueuedOnce, Queued
<1> QED BY <1>1, <1>2, <1>3, Zenon

(* Unlinking the head of a level removes exactly that process              *)
(* (list_del_init_careful() in scheduler()).                               *)
LEMMA RemoveHead ==
  ASSUME mlfq \in [Levels -> Seq(Slots)], QueuedOnce,
         NEW l \in Levels, mlfq[l] # << >>,
         mlfq' = [mlfq EXCEPT ![l] = Tail(@)]
  PROVE  /\ mlfq' \in [Levels -> Seq(Slots)]
         /\ QueuedOnce'
         /\ Head(mlfq[l]) \in Slots
         /\ Queued(Head(mlfq[l]))
         /\ \A q : Queued(q)' <=> (Queued(q) /\ q # Head(mlfq[l]))
<1>1. /\ mlfq' \in [Levels -> Seq(Slots)]
      /\ \A k \in Levels : k # l => mlfq'[k] = mlfq[k]
      /\ Len(mlfq[l]) \in Nat \ {0}
      /\ Len(mlfq'[l]) = Len(mlfq[l]) - 1
      /\ \A i \in 1 .. Len(mlfq'[l]) : mlfq'[l][i] = mlfq[l][i + 1]
      /\ Head(mlfq[l]) = mlfq[l][1]
      /\ Head(mlfq[l]) \in Slots
  OBVIOUS
<1>2. Queued(Head(mlfq[l]))
  <2> 1 \in 1 .. Len(mlfq[l])
    BY <1>1
  <2> QED BY <1>1, Zenon DEF Queued
<1>3. \A q : Queued(q)' <=> (Queued(q) /\ q # Head(mlfq[l]))
  <2> TAKE q
  <2>1. ASSUME Queued(q)' PROVE Queued(q) /\ q # Head(mlfq[l])
    <3>0. PICK k \in Levels : \E i \in 1 .. Len(mlfq'[k]) : mlfq'[k][i] = q
      BY <2>1, Zenon DEF Queued
    <3>1. PICK i \in 1 .. Len(mlfq'[k]) : mlfq'[k][i] = q
      BY <3>0, Zenon
    <3>2. CASE k = l
      <4> i + 1 \in 1 .. Len(mlfq[l]) /\ mlfq[l][i + 1] = q /\ i + 1 # 1
        BY <1>1, <3>1, <3>2
      <4> QED BY <1>1 DEF Queued, QueuedOnce
    <3>3. CASE k # l
      BY <1>1, <3>1, <3>3 DEF Queued, QueuedOnce
    <3> QED BY <3>2, <3>3, Zenon
  <2>2. ASSUME Queued(q), q # Head(mlfq[l]) PROVE Queued(q)'
    <3>0. PICK k \in Levels : \E i \in 1 .. Len(mlfq[k]) : mlfq[k][i] = q
      BY <2>2, Zenon DEF Queued
    <3>1. PICK i \in 1 .. Len(mlfq[k]) : mlfq[k][i] = q
      BY <3>0, Zenon
    <3>2. CASE k = l
      <4> i - 1 \in 1 .. Len(mlfq'[l]) /\ mlfq'[l][i - 1] = q
        BY <1>1, <2>2, <3>1, <3>2
      <4> QED BY Zenon DEF Queued
    <3>3. CASE k # l
      BY <1>1, <3>1, <3>3, Zenon DEF Queued
    <3> QED BY <3>2, <3>3, Zenon
  <2> QED BY <2>1, <2>2, Zenon
<1>4. QueuedOnce'
  BY <1>1 DEF QueuedOnce
<1> QED BY <1>1, <1>2, <1>3, <1>4, Zenon

(* An action that leaves the queues alone leaves who is queued alone.      *)
LEMMA SameQueue ==
  ASSUME UNCHANGED mlfq
  PROVE  /\ QueuedOnce' <=> QueuedOnce
         /\ \A q : Queued(q)' <=> Queued(q)
BY DEF QueuedOnce, Queued

(* A non-empty set of naturals has a least element.                        *)
LEMMA SetHasMin ==
  ASSUME NEW S \in SUBSET Nat, S # {}
  PROVE  \E m \in S : \A t \in S : m <= t
<1>1. PICK m \in S : \A t \in S : ~(<<t, m>> \in OpToRel(<, Nat))
  BY NatLessThanWellFounded, WFMin, Zenon
<1>2. \A t \in S : ~(t < m)
  BY <1>1, Zenon DEF OpToRel
<1> QED BY <1>2

(* alloc_process() finds a slot whenever the table has an unused one.      *)
LEMMA FirstFreeIsFree ==
  ASSUME FreeSlots # {}
  PROVE  /\ FirstFree \in Slots
         /\ state[FirstFree] = "UNUSED"
<1>1. FreeSlots \in SUBSET Nat
  BY NumProcessesAssumption DEF FreeSlots, Slots
<1>2. FirstFree \in FreeSlots
  BY <1>1, SetHasMin, Zenon DEF FirstFree
<1> QED BY <1>2, Zenon DEF FreeSlots

(* scheduler()'s scan stops at a level that has a process on it, and all   *)
(* better levels are empty.                                                *)
LEMMA BestLevelIsBest ==
  ASSUME NonEmpty # {}
  PROVE  /\ BestLevel \in Levels
         /\ mlfq[BestLevel] # << >>
         /\ \A k \in Levels : k < BestLevel => mlfq[k] = << >>
<1>1. NonEmpty \in SUBSET Nat
  BY NumLevelsAssumption DEF NonEmpty, Levels
<1>2. BestLevel \in NonEmpty /\ \A k \in NonEmpty : BestLevel <= k
  BY <1>1, SetHasMin, Zenon DEF BestLevel
<1> QED BY <1>1, <1>2, NumLevelsAssumption DEF NonEmpty, Levels

-----------------------------------------------------------------------------
(* The inductive invariant holds initially and every action preserves it.  *)

(* The state kernel_main() leaves when it calls init_process() satisfies   *)
(* Inv.                                                                    *)
LEMMA InitInv == Init => Inv
<1> SUFFICES ASSUME Init PROVE Inv
  BY Zenon
<1> USE NumProcessesAssumption, NumLevelsAssumption
    DEF Slots, Levels, NULL, InitProc
<1>1. TypeOK
  BY SMTT(30) DEF Init, TypeOK, States, Contexts, ProcPoints
<1>2. IFInv
  BY Zenon DEF Init, IFInv
<1>3. StackInv /\ StateInv
  BY Zenon DEF Init, StackInv, StateInv, OffPoints, LockPoints
<1>4. BootInv /\ SchedInv /\ ForkInv
  BY DEF Init, BootInv, SchedInv, ForkInv, SchedPoints, InitPoints, EarlyPoints,
         ForkPoints
<1>5. QueueInv
  BY DEF Init, QueueInv, QueuedOnce, Queued, Live
<1> QED BY <1>1, <1>2, <1>3, <1>4, <1>5, Zenon DEF Inv

(* init installing the scheduling handler preserves Inv (process.c:244):   *)
(* the scheduler has been published by then.                               *)
LEMMA RegisterInv ==
  ASSUME Inv, register_interrupt_handler
  PROVE  Inv'
<1> USE NumProcessesAssumption, NumLevelsAssumption
    DEF Slots, Levels, NULL, InitProc, register_interrupt_handler, At, Goto,
        cpu_vars, turn_vars, fork_vars
<1>1. TypeOK'
  BY DEF Inv, TypeOK, InitPoints
<1>2. IFInv'
  BY Zenon DEF Inv, TypeOK, IFInv, OffPoints, LockPoints
<1>3. StackInv'
  BY DEF Inv, TypeOK, StackInv, OffPoints, LockPoints
<1>4. StateInv'
  BY DEF Inv, TypeOK, StateInv
<1>5. BootInv'
  BY DEF Inv, TypeOK, BootInv, InitPoints, ForkPoints, EarlyPoints
<1>6. SchedInv'
  BY DEF Inv, TypeOK, SchedInv, SchedPoints, ClaimPoints
<1>7. ForkInv'
  BY Zenon DEF Inv, TypeOK, ForkInv, ForkPoints
<1>8. QueueInv'
  BY SameQueue, Zenon DEF Inv, TypeOK, QueueInv, Live, Held
<1> QED BY <1>1, <1>2, <1>3, <1>4, <1>5, <1>6, <1>7, <1>8, Zenon DEF Inv

(* init allocating and publishing the scheduler process preserves Inv.     *)
LEMMA InitSchedulerProcInv ==
  ASSUME Inv, init_scheduler_proc, ~fork_failed, FreeSlots # {}
  PROVE  Inv'
<1> USE NumProcessesAssumption, NumLevelsAssumption
    DEF Slots, Levels, NULL, InitProc
<1>0. PICK f \in Slots :
        /\ state[f] = "UNUSED"
        /\ task = InitProc /\ pc[InitProc] = "boot"
        /\ state' = [state EXCEPT ![f] = "READY"]
        /\ context' = [context EXCEPT ![f] = "on"]
        /\ pc' = [pc EXCEPT ![f] = "top", ![InitProc] = "register"]
        /\ scheduler_proc' = f
        /\ UNCHANGED <<mlfq, mlfq_lock, task, intr, saved, handler, claim,
                       level, child, chlevel, fork_failed, fate>>
  BY FirstFreeIsFree, Zenon DEF init_scheduler_proc, At, turn_vars, fork_vars
<1>1. TypeOK'
  BY <1>0, SMTT(30) DEF Inv, TypeOK, InitPoints, SchedPoints, States, Contexts
<1>2. IFInv'
  BY <1>0, Zenon DEF Inv, TypeOK, IFInv, OffPoints, LockPoints
<1>3. StackInv'
  BY <1>0 DEF Inv, TypeOK, StackInv, OffPoints, LockPoints, StateInv
<1>4. StateInv'
  BY <1>0 DEF Inv, TypeOK, StateInv
<1>5. BootInv'
  BY <1>0 DEF Inv, TypeOK, BootInv, InitPoints, ForkPoints, EarlyPoints,
      StateInv, SchedPoints
<1>6. SchedInv'
  BY <1>0 DEF Inv, TypeOK, SchedInv, SchedPoints, ClaimPoints, StateInv,
      BootInv, InitPoints, EarlyPoints, ForkPoints
<1>7. ForkInv'
  BY <1>0, Zenon DEF Inv, TypeOK, ForkInv, ForkPoints
<1>8. QueueInv'
  BY <1>0, SameQueue DEF Inv, TypeOK, QueueInv, Live, Held, StateInv, BootInv,
      EarlyPoints
<1> QED BY <1>1, <1>2, <1>3, <1>4, <1>5, <1>6, <1>7, <1>8, Zenon DEF Inv

(* fork() claiming a slot preserves Inv: the child is held, not queued,    *)
(* until sched_enqueue().                                                  *)
LEMMA ForkStep ==
  ASSUME Inv, NEW p \in Slots, NEW l \in Levels, fork(p, l), FreeSlots # {}
  PROVE  Inv'
<1> USE NumProcessesAssumption, NumLevelsAssumption
    DEF Slots, Levels, NULL, InitProc
<1>0. PICK f \in Slots :
        /\ state[f] = "UNUSED"
        /\ task = p /\ p # scheduler_proc
        /\ pc[p] = IF p = InitProc THEN "boot" ELSE "run"
        /\ state' = [state EXCEPT ![f] = "READY"]
        /\ context' = [context EXCEPT ![f] = IF intr THEN "on" ELSE "off"]
        /\ pc' = [pc EXCEPT ![f] = "run", ![p] = "fork_spin"]
        /\ child' = f /\ chlevel' = l
        /\ saved' = intr /\ intr' = FALSE
        /\ UNCHANGED <<mlfq, mlfq_lock, task, scheduler_proc, handler, claim,
                       level, fork_failed, fate>>
  BY FirstFreeIsFree, Zenon DEF fork, At, irq_save, boot_vars, turn_vars, IsProc
<1>00. f # p /\ intr = TRUE /\ mlfq_lock = FALSE
  BY <1>0, Zenon DEF Inv, TypeOK, StateInv, IFInv, OffPoints, LockPoints
<1>1. TypeOK'
  BY <1>0, <1>00, Zenon DEF Inv, TypeOK, ProcPoints, ForkPoints, States, Contexts
<1>2. IFInv'
  BY <1>0, <1>00 DEF Inv, TypeOK, IFInv, OffPoints, LockPoints
<1>3. StackInv'
  BY <1>0, <1>00, SMTT(30) DEF Inv, TypeOK, StackInv, OffPoints, LockPoints, StateInv
<1>4. StateInv'
  BY <1>0, <1>00, Zenon DEF Inv, TypeOK, StateInv
<1>5. BootInv'
  BY <1>0, <1>00 DEF Inv, TypeOK, BootInv, InitPoints, ForkPoints, EarlyPoints,
      StateInv
<1>6. SchedInv'
  BY <1>0, <1>00, SMTT(30) DEF Inv, TypeOK, SchedInv, SchedPoints, ClaimPoints, StateInv
<1>7. ForkInv'
  <2>1. f # NULL /\ p # NULL
    OBVIOUS
  <2>2. /\ pc'[p] = "fork_spin" /\ pc'[f] = "run" /\ state'[f] = "READY"
        /\ pc[f] = "unused"
    BY <1>0, <1>00, Zenon DEF Inv, TypeOK, StateInv
  <2>3. f # scheduler_proc /\ f # claim
    BY <1>0, <2>1, <2>2, Zenon DEF Inv, SchedInv, SchedPoints
  <2>4. f # InitProc
    BY <1>0, <2>1, <2>2, Zenon DEF Inv, BootInv, InitPoints, ForkPoints
  <2> QED BY <1>0, <1>00, <2>1, <2>2, <2>3, <2>4, Zenon DEF ForkInv, ForkPoints
<1>8. QueueInv'
  <2>1. p # NULL /\ pc'[p] = "fork_spin" /\ pc[p] # "fork_spin"
    <3>1. p # NULL
      OBVIOUS
    <3> QED BY <1>0, <1>00, <3>1, Zenon DEF Inv, TypeOK
  <2>2. \A q \in Slots : Held(q)' <=> (Held(q) \/ q = f)
    BY <1>0, <2>1, Zenon DEF Held
  <2>3. \A q \in Slots : Live(q)' <=> (Live(q) \/ q = f)
    BY <1>0, Zenon DEF Inv, TypeOK, Live
  <2>4. ~Live(f) /\ scheduler_proc' = scheduler_proc /\ mlfq' = mlfq
    BY <1>0, Zenon DEF Live
  <2>5. QueuedOnce' /\ \A q \in Slots : Queued(q)' <=> Queued(q)
    BY <2>4, SameQueue, Zenon DEF Inv, QueueInv
  <2> QED BY <2>2, <2>3, <2>4, <2>5, Zenon DEF Inv, QueueInv
<1> QED BY <1>1, <1>2, <1>3, <1>4, <1>5, <1>6, <1>7, <1>8, Zenon DEF Inv

(* The return of fork() into the parent preserves Inv.                     *)
LEMMA ForkReturnInv ==
  ASSUME Inv, NEW p \in Slots, fork_return(p)
  PROVE  Inv'
<1> USE NumProcessesAssumption, NumLevelsAssumption
    DEF Slots, Levels, NULL, InitProc, fork_return, At, Goto, irq_restore,
        boot_vars, turn_vars
<1>1. TypeOK'
  BY Zenon DEF Inv, TypeOK, ProcPoints, InitPoints
<1>2. IFInv'
  BY Zenon DEF Inv, TypeOK, IFInv, OffPoints, LockPoints
<1>3. StackInv'
  BY Zenon DEF Inv, TypeOK, StackInv, OffPoints, LockPoints
<1>4. StateInv'
  BY Zenon DEF Inv, TypeOK, StateInv
<1>5. BootInv'
  BY DEF Inv, TypeOK, BootInv, InitPoints, ForkPoints, EarlyPoints
<1>6. SchedInv'
  BY DEF Inv, TypeOK, SchedInv, SchedPoints, ClaimPoints
<1>7. ForkInv'
  BY Zenon DEF Inv, TypeOK, ForkInv, ForkPoints
<1>8. QueueInv'
  BY SameQueue, Zenon DEF Inv, TypeOK, QueueInv, Live, Held, ForkInv
<1> QED BY <1>1, <1>2, <1>3, <1>4, <1>5, <1>6, <1>7, <1>8, Zenon DEF Inv

(* yield() marking its caller READY preserves Inv.                         *)
LEMMA YieldInv ==
  ASSUME Inv, NEW p \in Slots, yield(p)
  PROVE  Inv'
<1> USE NumProcessesAssumption, NumLevelsAssumption
    DEF Slots, Levels, NULL, InitProc, yield, At, Goto, cpu_vars, boot_vars,
        turn_vars, fork_vars, IsProc
<1>1. TypeOK'
  BY ZenonT(30) DEF Inv, TypeOK, ProcPoints, States
<1>2. IFInv'
  BY Zenon DEF Inv, TypeOK, IFInv, OffPoints, LockPoints
<1>3. StackInv'
  BY DEF Inv, TypeOK, StackInv, OffPoints, LockPoints
<1>4. StateInv'
  BY DEF Inv, TypeOK, StateInv
<1>5. BootInv'
  BY DEF Inv, TypeOK, BootInv, InitPoints, ForkPoints, EarlyPoints, SchedInv,
      SchedPoints
<1>6. SchedInv'
  BY DEF Inv, TypeOK, SchedInv, SchedPoints, ClaimPoints
<1>7. ForkInv'
  BY Zenon DEF Inv, TypeOK, ForkInv, ForkPoints
<1>8. QueueInv'
  BY SameQueue, SMTT(30) DEF Inv, TypeOK, QueueInv, Live, Held, StateInv, SchedInv
<1> QED BY <1>1, <1>2, <1>3, <1>4, <1>5, <1>6, <1>7, <1>8, Zenon DEF Inv

(* exit_process() marking its caller ZOMBIE preserves Inv.                 *)
LEMMA ExitInv ==
  ASSUME Inv, NEW p \in Slots, exit_process(p)
  PROVE  Inv'
<1> USE NumProcessesAssumption, NumLevelsAssumption
    DEF Slots, Levels, NULL, InitProc, exit_process, At, Goto, cpu_vars,
        boot_vars, turn_vars, fork_vars, IsProc
<1>1. TypeOK'
  BY DEF Inv, TypeOK, ProcPoints, States
<1>2. IFInv'
  BY Zenon DEF Inv, TypeOK, IFInv, OffPoints, LockPoints
<1>3. StackInv'
  BY Zenon DEF Inv, TypeOK, StackInv, OffPoints, LockPoints
<1>4. StateInv'
  BY Zenon DEF Inv, TypeOK, StateInv
<1>5. BootInv'
  BY DEF Inv, TypeOK, BootInv, InitPoints, ForkPoints, EarlyPoints
<1>6. SchedInv'
  BY DEF Inv, TypeOK, SchedInv, SchedPoints, ClaimPoints
<1>7. ForkInv'
  BY Zenon DEF Inv, TypeOK, ForkInv, ForkPoints
<1>8. QueueInv'
  BY SameQueue DEF Inv, TypeOK, QueueInv, Live, Held, StateInv, SchedInv,
      BootInv, EarlyPoints, ForkPoints
<1> QED BY <1>1, <1>2, <1>3, <1>4, <1>5, <1>6, <1>7, <1>8, Zenon DEF Inv

(* The scheduler turning interrupts off for the lock preserves Inv.        *)
LEMMA TopInv ==
  ASSUME Inv, NEW s \in Slots, sched_top(s)
  PROVE  Inv'
<1> USE NumProcessesAssumption, NumLevelsAssumption
    DEF Slots, Levels, NULL, InitProc, sched_top, At, Goto, boot_vars,
        turn_vars, fork_vars
<1>1. TypeOK'
  BY Zenon DEF Inv, TypeOK, SchedPoints
<1>2. IFInv'
  BY DEF Inv, TypeOK, IFInv, OffPoints, LockPoints
<1>3. StackInv'
  BY Zenon DEF Inv, TypeOK, StackInv, OffPoints, LockPoints
<1>4. StateInv'
  BY Zenon DEF Inv, TypeOK, StateInv
<1>5. BootInv'
  BY DEF Inv, TypeOK, BootInv, InitPoints, ForkPoints, EarlyPoints
<1>6. SchedInv'
  BY DEF Inv, TypeOK, SchedInv, SchedPoints, ClaimPoints
<1>7. ForkInv'
  BY Zenon DEF Inv, TypeOK, ForkInv, ForkPoints
<1>8. QueueInv'
  BY SameQueue, Zenon DEF Inv, TypeOK, QueueInv, Live, Held
<1> QED BY <1>1, <1>2, <1>3, <1>4, <1>5, <1>6, <1>7, <1>8, Zenon DEF Inv

(* The scheduler releasing the lock after its scan preserves Inv.          *)
LEMMA UnlockInv ==
  ASSUME Inv, NEW s \in Slots, sched_unlock(s)
  PROVE  Inv'
<1> USE NumProcessesAssumption, NumLevelsAssumption
    DEF Slots, Levels, NULL, InitProc, sched_unlock, At, Goto, irq_restore,
        boot_vars, turn_vars, fork_vars
<1>1. TypeOK'
  BY Zenon DEF Inv, TypeOK, SchedPoints
<1>2. IFInv'
  BY Zenon DEF Inv, TypeOK, IFInv, OffPoints, LockPoints
<1>3. StackInv'
  BY Zenon DEF Inv, TypeOK, StackInv, OffPoints, LockPoints
<1>4. StateInv'
  BY Zenon DEF Inv, TypeOK, StateInv
<1>5. BootInv'
  BY DEF Inv, TypeOK, BootInv, InitPoints, ForkPoints, EarlyPoints
<1>6. SchedInv'
  BY DEF Inv, TypeOK, SchedInv, SchedPoints, ClaimPoints
<1>7. ForkInv'
  BY Zenon DEF Inv, TypeOK, ForkInv, ForkPoints
<1>8. QueueInv'
  BY SameQueue, Zenon DEF Inv, TypeOK, QueueInv, Live, Held
<1> QED BY <1>1, <1>2, <1>3, <1>4, <1>5, <1>6, <1>7, <1>8, Zenon DEF Inv

(* The scheduler resuming after a turn, dropping a zombie or not,          *)
(* preserves Inv.                                                          *)
LEMMA BackInv ==
  ASSUME Inv, NEW s \in Slots, sched_back(s)
  PROVE  Inv'
<1> USE NumProcessesAssumption, NumLevelsAssumption
    DEF Slots, Levels, NULL, InitProc, sched_back, At, Goto, irq_save,
        boot_vars, fork_vars
<1>1. TypeOK'
  BY ZenonT(30) DEF Inv, TypeOK, SchedPoints
<1>2. IFInv'
  <2>1. intr = TRUE /\ mlfq_lock = FALSE
    BY Zenon DEF Inv, TypeOK, IFInv, OffPoints, LockPoints
  <2>2. pc'[task'] = IF state[claim] = "ZOMBIE" THEN "top" ELSE "requeue"
    BY Zenon DEF Inv, TypeOK
  <2>3. CASE state[claim] = "ZOMBIE"
    BY <2>1, <2>2, <2>3, Zenon DEF IFInv, OffPoints, LockPoints
  <2>4. CASE state[claim] # "ZOMBIE"
    BY <2>1, <2>2, <2>4 DEF IFInv, OffPoints, LockPoints
  <2> QED BY <2>3, <2>4, Zenon
<1>3. StackInv'
  BY DEF Inv, TypeOK, StackInv, OffPoints, LockPoints
<1>4. StateInv'
  BY Zenon DEF Inv, TypeOK, StateInv
<1>5. BootInv'
  BY DEF Inv, TypeOK, BootInv, InitPoints, ForkPoints, EarlyPoints
<1>6. SchedInv'
  BY SMTT(30) DEF Inv, TypeOK, SchedInv, SchedPoints, ClaimPoints
<1>7. ForkInv'
  BY Zenon DEF Inv, TypeOK, ForkInv, ForkPoints
<1>8. QueueInv'
  BY SameQueue DEF Inv, TypeOK, QueueInv, Live, Held, SchedInv, SchedPoints,
      ClaimPoints
<1> QED BY <1>1, <1>2, <1>3, <1>4, <1>5, <1>6, <1>7, <1>8, Zenon DEF Inv

(* The scheduler releasing the lock after putting a process back preserves *)
(* Inv.                                                                    *)
LEMMA RequeuedInv ==
  ASSUME Inv, NEW s \in Slots, sched_requeued(s)
  PROVE  Inv'
<1> USE NumProcessesAssumption, NumLevelsAssumption
    DEF Slots, Levels, NULL, InitProc, sched_requeued, At, Goto, irq_restore,
        boot_vars, turn_vars, fork_vars
<1>1. TypeOK'
  BY Zenon DEF Inv, TypeOK, SchedPoints
<1>2. IFInv'
  BY Zenon DEF Inv, TypeOK, IFInv, OffPoints, LockPoints
<1>3. StackInv'
  BY Zenon DEF Inv, TypeOK, StackInv, OffPoints, LockPoints
<1>4. StateInv'
  BY Zenon DEF Inv, TypeOK, StateInv
<1>5. BootInv'
  BY DEF Inv, TypeOK, BootInv, InitPoints, ForkPoints, EarlyPoints
<1>6. SchedInv'
  BY DEF Inv, TypeOK, SchedInv, SchedPoints, ClaimPoints
<1>7. ForkInv'
  BY Zenon DEF Inv, TypeOK, ForkInv, ForkPoints
<1>8. QueueInv'
  BY SameQueue, Zenon DEF Inv, TypeOK, QueueInv, Live, Held
<1> QED BY <1>1, <1>2, <1>3, <1>4, <1>5, <1>6, <1>7, <1>8, Zenon DEF Inv

(* A process that switches to the scheduler, by yield(), exit_process() or *)
(* a tick, finds its frame live and preserves Inv.                         *)
LEMMA SwitchToScheduler ==
  ASSUME Inv, NEW r \in {"handoff", "run", "switch", "exit", "dead"},
         handler = "sched", task # NULL, task # scheduler_proc, intr,
         r \in {"exit", "dead"} <=> state[task] = "ZOMBIE",
         r = "handoff" => task = InitProc,
         ctx_switch(scheduler_proc, r),
         UNCHANGED <<state, mlfq, mlfq_lock, boot_vars, turn_vars, fork_vars>>
  PROVE  Inv'
<1> USE NumProcessesAssumption, NumLevelsAssumption
    DEF Slots, Levels, NULL, InitProc
<1>0. /\ scheduler_proc \in Slots /\ task \in Slots
      /\ pc[task] \notin OffPoints /\ pc[task] # "unused"
      /\ pc[scheduler_proc] \in {"top", "back"}
      /\ task' = scheduler_proc
      /\ context' = [context EXCEPT ![task] = "on", ![scheduler_proc] = "none"]
      /\ intr' = TRUE /\ intr = TRUE
      /\ pc' = [pc EXCEPT ![task] = r]
      /\ UNCHANGED <<state, mlfq, mlfq_lock, scheduler_proc, handler, saved,
                     claim, level, child, chlevel, fork_failed, fate>>
  BY Zenon DEF Inv, TypeOK, BootInv, SchedInv, StackInv, IFInv, SchedPoints, OffPoints,
         LockPoints, ctx_switch, Goto, boot_vars, turn_vars, fork_vars
<1>00. /\ task = InitProc => r \in {"handoff", "run", "switch"}
       /\ pc[InitProc] # "register"
  BY <1>0, Zenon DEF Inv, TypeOK, StateInv, BootInv, InitPoints, ForkPoints
<1>1. TypeOK'
  BY <1>0, ZenonT(30) DEF Inv, TypeOK, ProcPoints, InitPoints, Contexts
<1>2. IFInv'
  BY <1>0 DEF Inv, TypeOK, IFInv, OffPoints, LockPoints
<1>3. StackInv'
  BY <1>0, Zenon DEF Inv, TypeOK, StackInv, OffPoints, LockPoints
<1>4. StateInv'
  BY <1>0, SMTT(30) DEF Inv, TypeOK, StateInv
<1>5. BootInv'
  <2>1. InitProc \in Slots /\ scheduler_proc # NULL
    BY <1>0
  <2>2. \A q \in Slots : pc'[q] = IF q = task THEN r ELSE pc[q]
    BY <1>0, Zenon DEF Inv, TypeOK
  <2>3. /\ pc[InitProc] \in InitPoints \cup ForkPoints \cup {"run", "switch"}
        /\ pc[InitProc] \notin EarlyPoints
        /\ \A q \in Slots : pc[q] \in InitPoints => q = InitProc
    BY <2>1, Zenon DEF Inv, BootInv
  <2>4. pc'[InitProc] \in {"handoff", "run", "switch"}
    BY <1>00, <2>1, <2>2, <2>3, Zenon DEF InitPoints, ForkPoints, EarlyPoints
  <2>5. \A q \in Slots : pc'[q] \in InitPoints => q = InitProc
    BY <2>2, <2>3, Zenon DEF InitPoints
  <2> QED
    BY <1>0, <2>1, <2>4, <2>5, ZenonT(30) DEF BootInv, InitPoints, ForkPoints, EarlyPoints
<1>6. SchedInv'
  <2>1. /\ pc'[task] = r /\ pc'[scheduler_proc] = pc[scheduler_proc]
        /\ \A q \in Slots : q # task => pc'[q] = pc[q]
    BY <1>0, Zenon DEF Inv, TypeOK
  <2>2. \A q \in Slots : pc'[q] \in SchedPoints <=> q = scheduler_proc'
    BY <1>0, <2>1, Zenon DEF Inv, SchedInv, SchedPoints
  <2>3. scheduler_proc # NULL /\ InitProc \in Slots
    BY <1>0
  <2>4. claim # NULL <=> pc[scheduler_proc] \in ClaimPoints
    BY <2>3, Zenon DEF Inv, SchedInv, ClaimPoints
  <2>5. pc'[InitProc] # "register"
    BY <1>00, <2>1, <2>3, Zenon
  <2> QED
    BY <1>0, <2>1, <2>2, <2>3, <2>4, <2>5, ZenonT(30) DEF Inv, SchedInv
<1>7. ForkInv'
  BY <1>0, Zenon DEF Inv, TypeOK, ForkInv, ForkPoints, OffPoints, LockPoints
<1>8. QueueInv'
  BY <1>0, SameQueue, Zenon DEF Inv, TypeOK, QueueInv, Live, Held, OffPoints,
      LockPoints
<1> QED BY <1>1, <1>2, <1>3, <1>4, <1>5, <1>6, <1>7, <1>8, Zenon DEF Inv

(* The switch to the claimed process preserves Inv: what was queued has a  *)
(* live frame.                                                             *)
LEMMA DispatchInv ==
  ASSUME Inv, NEW s \in Slots, sched_dispatch(s)
  PROVE  Inv'
<1> USE NumProcessesAssumption, NumLevelsAssumption
    DEF Slots, Levels, NULL, InitProc
<1>00. /\ task = s /\ s = scheduler_proc /\ pc[s] = "claimed"
       /\ claim \in Slots /\ claim # s
       /\ state[claim] \notin {"UNUSED", "ZOMBIE"}
  BY DEF Inv, TypeOK, SchedInv, SchedPoints, ClaimPoints, sched_dispatch, At
<1>01. /\ intr = TRUE /\ context[claim] = "on"
       /\ pc[claim] \notin OffPoints \cup {"unused", "dead"}
  BY <1>00, Zenon DEF Inv, TypeOK, IFInv, StackInv, StateInv, OffPoints, LockPoints
<1>0. /\ state' = [state EXCEPT ![claim] = "RUNNING"]
      /\ task' = claim
      /\ context' = [context EXCEPT ![s] = "on", ![claim] = "none"]
      /\ intr' = TRUE
      /\ pc' = [pc EXCEPT ![s] = "back"]
      /\ UNCHANGED <<mlfq, mlfq_lock, scheduler_proc, handler, saved, claim,
                     level, child, chlevel, fork_failed, fate>>
  <2>1. ~(claim = NULL \/ context[claim] = "none")
    BY <1>00, <1>01
  <2>2. pc[claim] # "dead"
    BY <1>01, Zenon
  <2>3. ctx_switch(claim, "back")
    BY Zenon DEF sched_dispatch
  <2>4. /\ task' = claim
        /\ context' = [context EXCEPT ![s] = "on", ![claim] = "none"]
        /\ intr' = TRUE
        /\ pc' = [pc EXCEPT ![s] = "back"]
        /\ UNCHANGED <<saved, fate>>
    BY <1>00, <1>01, <2>1, <2>2, <2>3, Zenon DEF ctx_switch, Goto
  <2> QED BY <2>4, Zenon DEF sched_dispatch, boot_vars, turn_vars, fork_vars
<1>1. TypeOK'
  BY <1>00, <1>01, <1>0, SMTT(30) DEF Inv, TypeOK, SchedPoints, States, Contexts
<1>2. IFInv'
  BY <1>00, <1>01, <1>0, Zenon DEF Inv, TypeOK, IFInv, OffPoints, LockPoints
<1>3. StackInv'
  BY <1>00, <1>01, <1>0 DEF Inv, TypeOK, StackInv, OffPoints, LockPoints
<1>4. StateInv'
  BY <1>00, <1>01, <1>0, Zenon DEF Inv, TypeOK, StateInv
<1>5. BootInv'
  BY <1>00, <1>01, <1>0 DEF Inv, TypeOK, BootInv, InitPoints, ForkPoints,
      EarlyPoints
<1>6. SchedInv'
  BY <1>00, <1>01, <1>0 DEF Inv, TypeOK, SchedInv, SchedPoints, ClaimPoints
<1>7. ForkInv'
  BY <1>00, <1>01, <1>0, Zenon DEF Inv, TypeOK, ForkInv, ForkPoints, OffPoints,
      LockPoints
<1>8. QueueInv'
  BY <1>00, <1>01, <1>0, SameQueue, Zenon DEF Inv, TypeOK, QueueInv, Live, Held,
      OffPoints, LockPoints
<1> QED BY <1>1, <1>2, <1>3, <1>4, <1>5, <1>6, <1>7, <1>8, Zenon DEF Inv

(* sched_enqueue() of a new child preserves Inv.                           *)
LEMMA ForkEnqueueInv ==
  ASSUME Inv, NEW p \in Slots, fork_enqueue(p)
  PROVE  Inv'
<1> USE NumProcessesAssumption, NumLevelsAssumption
    DEF Slots, Levels, NULL, InitProc
<1>00. /\ task = p /\ pc[p] = "fork_spin"
       /\ child \in Slots /\ chlevel \in Levels
       /\ ~Queued(child)
       /\ mlfq_lock = FALSE /\ intr = FALSE
  BY DEF Inv, TypeOK, ForkInv, ForkPoints, QueueInv, Held, IFInv, OffPoints,
         LockPoints, fork_enqueue, At
<1>0. /\ mlfq_lock' = TRUE
      /\ mlfq' = [mlfq EXCEPT ![chlevel] = Append(@, child)]
      /\ pc' = [pc EXCEPT ![p] = "fork_unlock"]
      /\ UNCHANGED <<state, task, intr, saved, context, scheduler_proc, handler,
                     claim, level, child, chlevel, fork_failed, fate>>
  BY <1>00, Zenon DEF fork_enqueue, At, sched_enqueue, Goto, cpu_vars, boot_vars,
               turn_vars, fork_vars
<1>01. /\ mlfq' \in [Levels -> Seq(Slots)]
       /\ QueuedOnce'
       /\ \A q : Queued(q)' <=> (Queued(q) \/ q = child)
  BY <1>00, <1>0, AppendToQueue, Zenon DEF Inv, TypeOK, QueueInv
<1>1. TypeOK'
  BY <1>00, <1>0, <1>01 DEF Inv, TypeOK, ProcPoints, ForkPoints
<1>2. IFInv'
  BY <1>00, <1>0, Zenon DEF Inv, TypeOK, IFInv, OffPoints, LockPoints
<1>3. StackInv'
  BY <1>00, <1>0, Zenon DEF Inv, TypeOK, StackInv, OffPoints, LockPoints
<1>4. StateInv'
  BY <1>00, <1>0, Zenon DEF Inv, TypeOK, StateInv
<1>5. BootInv'
  BY <1>00, <1>0 DEF Inv, TypeOK, BootInv, InitPoints, ForkPoints, EarlyPoints
<1>6. SchedInv'
  BY <1>00, <1>0, SMTT(30) DEF Inv, TypeOK, SchedInv, SchedPoints, ClaimPoints
<1>7. ForkInv'
  BY <1>00, <1>0, Zenon DEF Inv, TypeOK, ForkInv, ForkPoints
<1>8. QueueInv'
  BY <1>00, <1>0, <1>01 DEF Inv, TypeOK, QueueInv, Live, Held, ForkInv,
      ForkPoints
<1> QED BY <1>1, <1>2, <1>3, <1>4, <1>5, <1>6, <1>7, <1>8, Zenon DEF Inv

(* sched_enqueue() of the process whose turn ended preserves Inv.          *)
LEMMA RequeueInv ==
  ASSUME Inv, NEW s \in Slots, sched_requeue(s)
  PROVE  Inv'
<1> USE NumProcessesAssumption, NumLevelsAssumption
    DEF Slots, Levels, NULL, InitProc
<1>00. /\ task = s /\ s = scheduler_proc /\ pc[s] = "requeue"
       /\ claim \in Slots /\ claim # s
       /\ state[claim] \notin {"UNUSED", "ZOMBIE"}
       /\ ~Queued(claim)
       /\ demote(level) \in Levels
       /\ mlfq_lock = FALSE /\ intr = FALSE
  BY DEF Inv, TypeOK, SchedInv, SchedPoints, ClaimPoints, QueueInv, Held, IFInv,
         OffPoints, LockPoints, demote, sched_requeue, At
<1>0. /\ mlfq_lock' = TRUE
      /\ mlfq' = [mlfq EXCEPT ![demote(level)] = Append(@, claim)]
      /\ pc' = [pc EXCEPT ![s] = "requeue_unlock"]
      /\ claim' = NULL
      /\ UNCHANGED <<state, task, intr, saved, context, scheduler_proc, handler,
                     level, child, chlevel, fork_failed, fate>>
  BY <1>00, Zenon DEF sched_requeue, At, sched_enqueue, Goto, cpu_vars, boot_vars,
               fork_vars
<1>01. /\ mlfq' \in [Levels -> Seq(Slots)]
       /\ QueuedOnce'
       /\ \A q : Queued(q)' <=> (Queued(q) \/ q = claim)
  BY <1>00, <1>0, AppendToQueue, Zenon DEF Inv, TypeOK, QueueInv
<1>1. TypeOK'
  BY <1>00, <1>0, <1>01, Zenon DEF Inv, TypeOK, SchedPoints
<1>2. IFInv'
  BY <1>00, <1>0, Zenon DEF Inv, TypeOK, IFInv, OffPoints, LockPoints
<1>3. StackInv'
  BY <1>00, <1>0, Zenon DEF Inv, TypeOK, StackInv, OffPoints, LockPoints
<1>4. StateInv'
  BY <1>00, <1>0, Zenon DEF Inv, TypeOK, StateInv
<1>5. BootInv'
  BY <1>00, <1>0, SMTT(30) DEF Inv, TypeOK, BootInv, InitPoints, ForkPoints, EarlyPoints
<1>6. SchedInv'
  BY <1>00, <1>0, SMTT(30) DEF Inv, TypeOK, SchedInv, SchedPoints, ClaimPoints
<1>7. ForkInv'
  BY <1>00, <1>0, Zenon DEF Inv, TypeOK, ForkInv, ForkPoints
<1>8. QueueInv'
  BY <1>00, <1>0, <1>01 DEF Inv, TypeOK, QueueInv, Live, Held, States
<1> QED BY <1>1, <1>2, <1>3, <1>4, <1>5, <1>6, <1>7, <1>8, ZenonT(30) DEF Inv

(* While the scheduler is looking for a process, init is on a queue.       *)
LEMMA SomeoneIsQueued ==
  ASSUME Inv, task # NULL, claim = NULL, pc[task] # "fork_spin"
  PROVE  NonEmpty # {}
<1>1. Queued(InitProc)
  <2>1. /\ InitProc \in Slots
        /\ pc[InitProc] \in InitPoints \cup ForkPoints \cup {"run", "switch"}
    BY NumProcessesAssumption DEF Inv, BootInv, Slots, InitProc
  <2>2. state[InitProc] \in States \ {"UNUSED", "ZOMBIE"}
    BY <2>1, Zenon DEF Inv, TypeOK, StateInv, InitPoints, ForkPoints
  <2>3. InitProc # scheduler_proc
    BY <2>1, Zenon DEF Inv, SchedInv, SchedPoints, InitPoints, ForkPoints
  <2>4. ~Held(InitProc)
    BY DEF Held, InitProc, NULL
  <2> QED BY <2>1, <2>2, <2>3, <2>4, Zenon DEF Inv, QueueInv, Live, States
<1>2. PICK l \in Levels : \E i \in 1 .. Len(mlfq[l]) : mlfq[l][i] = InitProc
  BY <1>1, Zenon DEF Queued
<1>3. mlfq[l] # << >>
  BY <1>2
<1> QED BY <1>2, <1>3, Zenon DEF NonEmpty

(* Unlinking the oldest process of the best level preserves Inv.           *)
LEMMA ScanInv ==
  ASSUME Inv, NEW s \in Slots, sched_scan(s)
  PROVE  Inv'
<1> USE NumProcessesAssumption, NumLevelsAssumption
    DEF Slots, Levels, NULL, InitProc
<1>00. /\ task = s /\ s = scheduler_proc /\ pc[s] = "scan" /\ claim = NULL
       /\ mlfq_lock = FALSE /\ intr = FALSE
  BY SMTT(30) DEF Inv, TypeOK, SchedInv, SchedPoints, ClaimPoints, IFInv, OffPoints,
         LockPoints, sched_scan, At
<1>02. NonEmpty # {}
  BY <1>00, SomeoneIsQueued
<1>03. BestLevel \in Levels /\ mlfq[BestLevel] # << >>
  BY <1>02, BestLevelIsBest, Zenon
<1>0. /\ mlfq_lock' = TRUE
      /\ mlfq' = [mlfq EXCEPT ![BestLevel] = Tail(@)]
      /\ claim' = Head(mlfq[BestLevel]) /\ level' = BestLevel
      /\ pc' = [pc EXCEPT ![s] = "scan_unlock"]
      /\ UNCHANGED <<state, task, intr, saved, context, scheduler_proc, handler,
                     child, chlevel, fork_failed, fate>>
  BY <1>02, Zenon DEF sched_scan, At, Goto, cpu_vars, boot_vars, fork_vars
<1>01. /\ mlfq' \in [Levels -> Seq(Slots)]
       /\ QueuedOnce'
       /\ claim' \in Slots
       /\ Queued(claim')
       /\ \A q : Queued(q)' <=> (Queued(q) /\ q # claim')
  BY <1>03, <1>0, RemoveHead, Zenon DEF Inv, TypeOK, QueueInv
<1>04. Live(claim') /\ claim' # scheduler_proc
  BY <1>01, Zenon DEF Inv, QueueInv
<1>1. TypeOK'
  BY <1>00, <1>0, <1>01, <1>03, Zenon DEF Inv, TypeOK, SchedPoints
<1>2. IFInv'
  BY <1>00, <1>0, Zenon DEF Inv, TypeOK, IFInv, OffPoints, LockPoints
<1>3. StackInv'
  BY <1>00, <1>0, Zenon DEF Inv, TypeOK, StackInv, OffPoints, LockPoints
<1>4. StateInv'
  BY <1>00, <1>0, Zenon DEF Inv, TypeOK, StateInv
<1>5. BootInv'
  BY <1>00, <1>0, SMTT(30) DEF Inv, TypeOK, BootInv, InitPoints, ForkPoints, EarlyPoints
<1>6. SchedInv'
  <2>1. /\ claim' # NULL /\ claim' # scheduler_proc
        /\ state'[claim'] \notin {"UNUSED", "ZOMBIE"}
    <3>1. claim' # NULL
      BY <1>01
    <3> QED BY <1>0, <1>04, <3>1, Zenon DEF Live
  <2>2. /\ pc'[s] = "scan_unlock" /\ s # NULL
        /\ \A q \in Slots : q # s => pc'[q] = pc[q]
    <3>1. s # NULL
      OBVIOUS
    <3> QED BY <1>0, <3>1, Zenon DEF Inv, TypeOK
  <2>3. \A q \in Slots : pc'[q] \in SchedPoints <=> q = scheduler_proc'
    BY <1>00, <1>0, <2>2, Zenon DEF Inv, SchedInv, SchedPoints
  <2>4. pc'[InitProc] # "register"
    <3>1. InitProc \in Slots
      OBVIOUS
    <3>2. pc[InitProc] = "register" => InitProc = s
      BY <1>00, Zenon DEF Inv, SchedInv
    <3> QED BY <2>2, <3>1, <3>2, Zenon
  <2> QED BY <1>00, <1>0, <2>1, <2>2, <2>3, <2>4, ZenonT(30) DEF SchedInv, ClaimPoints
<1>7. ForkInv'
  BY <1>00, <1>0, Zenon DEF Inv, TypeOK, ForkInv, ForkPoints, StackInv
<1>8. QueueInv'
  BY <1>00, <1>0, <1>01, <1>04, SMTT(30) DEF Inv, TypeOK, QueueInv, Live, Held
<1> QED BY <1>1, <1>2, <1>3, <1>4, <1>5, <1>6, <1>7, <1>8, ZenonT(30) DEF Inv

(* init_process() queueing init and switching to it preserves Inv.         *)
LEMMA InitProcessInv ==
  ASSUME Inv, init_process
  PROVE  Inv'
<1> USE NumProcessesAssumption, NumLevelsAssumption
    DEF Slots, Levels, NULL, InitProc
<1>00. /\ task = NULL /\ scheduler_proc = NULL /\ claim = NULL
       /\ handler = "tick" /\ child = NULL
       /\ intr = TRUE /\ mlfq_lock = FALSE
       /\ \A p \in Slots : pc[p] = "unused" /\ state[p] = "UNUSED"
       /\ \A p \in Slots : context[p] = "none"
       /\ \A p \in Slots : ~Queued(p)
  BY Zenon DEF Inv, TypeOK, BootInv, SchedInv, ForkInv, IFInv, StackInv, StateInv,
         QueueInv, Live, init_process
<1>0. /\ state' = [state EXCEPT ![InitProc] = "RUNNING"]
      /\ mlfq' = [mlfq EXCEPT ![NUM_PRIORITY_LEVELS - 1] = Append(@, InitProc)]
      /\ task' = InitProc
      /\ pc' = [pc EXCEPT ![InitProc] = "boot"]
      /\ UNCHANGED <<mlfq_lock, intr, saved, context, scheduler_proc, handler,
                     claim, level, child, chlevel, fork_failed, fate>>
  BY Zenon DEF init_process, Goto, boot_vars, turn_vars, fork_vars
<1>01. /\ mlfq' \in [Levels -> Seq(Slots)]
       /\ QueuedOnce'
       /\ \A q : Queued(q)' <=> (Queued(q) \/ q = InitProc)
  <2>1. InitProc \in Slots /\ NUM_PRIORITY_LEVELS - 1 \in Levels
    OBVIOUS
  <2>2. mlfq \in [Levels -> Seq(Slots)] /\ QueuedOnce
    BY Zenon DEF Inv, TypeOK, QueueInv
  <2> HIDE DEF Slots, Levels, InitProc
  <2> QED BY <1>00, <1>0, <2>1, <2>2, AppendToQueue, Zenon
<1>1. TypeOK'
  BY <1>00, <1>0, <1>01 DEF Inv, TypeOK, InitPoints, States
<1>2. IFInv'
  BY <1>00, <1>0 DEF Inv, TypeOK, IFInv, OffPoints, LockPoints
<1>3. StackInv'
  BY <1>00, <1>0 DEF Inv, TypeOK, StackInv, OffPoints, LockPoints
<1>4. StateInv'
  BY <1>00, <1>0, Zenon DEF Inv, TypeOK, StateInv
<1>5. BootInv'
  BY <1>00, <1>0 DEF Inv, TypeOK, BootInv, InitPoints, ForkPoints, EarlyPoints
<1>6. SchedInv'
  BY <1>00, <1>0, Zenon DEF Inv, TypeOK, SchedInv, SchedPoints, ClaimPoints
<1>7. ForkInv'
  BY <1>00, <1>0 DEF Inv, TypeOK, ForkInv, ForkPoints
<1>8. QueueInv'
  BY <1>00, <1>0, <1>01 DEF Inv, TypeOK, QueueInv, Live, Held
<1> QED BY <1>1, <1>2, <1>3, <1>4, <1>5, <1>6, <1>7, <1>8, Zenon DEF Inv

(* A step that only fails a fork() or changes the fate keeps Inv.          *)
LEMMA FateInv ==
  ASSUME Inv, fork_failed' \in BOOLEAN, fate' \in {"ok", "panic", "wild"},
         UNCHANGED <<state, mlfq, mlfq_lock, cpu_vars, pc, boot_vars, turn_vars,
                     child, chlevel>>
  PROVE  Inv'
<1>1. /\ state' = state /\ mlfq' = mlfq /\ mlfq_lock' = mlfq_lock
      /\ task' = task /\ intr' = intr /\ saved' = saved /\ context' = context
      /\ pc' = pc /\ scheduler_proc' = scheduler_proc /\ handler' = handler
      /\ claim' = claim /\ level' = level /\ child' = child
      /\ chlevel' = chlevel
  BY Zenon DEF cpu_vars, boot_vars, turn_vars
<1>2. TypeOK'
  BY <1>1, Zenon DEF Inv, TypeOK
<1>3a. IFInv'
  BY <1>1 DEF Inv, IFInv
<1>3b. StackInv'
  BY <1>1, Zenon DEF Inv, StackInv
<1>4. StateInv' /\ BootInv'
  BY <1>1, Zenon DEF Inv, StateInv, BootInv
<1>5. SchedInv'
  BY <1>1, Zenon DEF Inv, SchedInv
<1>6. ForkInv'
  BY <1>1, Zenon DEF Inv, ForkInv
<1>7. QueuedOnce' /\ \A p \in Slots : Queued(p)' <=> Queued(p)
  <2>1. QueuedOnce'
    <3>1. QueuedOnce /\ mlfq' = mlfq
      BY <1>1, Zenon DEF Inv, QueueInv
    <3> QED BY <3>1, SMTT(30) DEF QueuedOnce
  <2>2. ASSUME NEW p \in Slots PROVE Queued(p)' <=> Queued(p)
    BY <1>1, Zenon DEF Queued
  <2> QED BY <2>1, <2>2, ZenonT(30)
<1>8. \A p \in Slots : (Live(p)' <=> Live(p)) /\ (Held(p)' <=> Held(p))
  BY <1>1, Zenon DEF Live, Held
<1>9. QueueInv'
  BY <1>1, <1>7, <1>8, Zenon DEF Inv, QueueInv
<1> QED BY <1>2, <1>3a, <1>3b, <1>4, <1>5, <1>6, <1>9, Zenon DEF Inv

(* Every voluntary hand-over and every preemption is a SwitchToScheduler,  *)
(* except the preemption of the scheduler itself, which loses control.     *)
LEMMA HandOverInv ==
  ASSUME Inv,
         \/ init_handoff
         \/ \E p \in Slots : yield_switch(p) \/ exit_switch(p)
         \/ timer_interrupt_handler_sched
  PROVE  Inv'
<1> USE NumProcessesAssumption DEF Slots, NULL, InitProc
<1>1. CASE init_handoff
  <2>1. /\ task = InitProc /\ pc[InitProc] = "handoff"
        /\ ctx_switch(scheduler_proc, "run")
    BY <1>1, Zenon DEF init_handoff, At
  <2>2. /\ handler = "sched" /\ task # NULL /\ task # scheduler_proc /\ intr
        /\ state[task] # "ZOMBIE"
    <3>1. scheduler_proc # NULL
      BY <2>1 DEF Inv, BootInv, EarlyPoints, ForkPoints
    <3>2. task # scheduler_proc
      BY <2>1 DEF Inv, SchedInv, SchedPoints
    <3>3. intr
      BY <2>1, Zenon DEF Inv, IFInv, OffPoints, LockPoints
    <3> QED BY <2>1, <3>1, <3>2, <3>3 DEF Inv, BootInv, StateInv
  <2> QED BY <1>1, <2>1, <2>2, SwitchToScheduler, Zenon DEF init_handoff
<1>2. ASSUME NEW p \in Slots, yield_switch(p) \/ exit_switch(p) PROVE Inv'
  <2>1. task = p /\ pc[p] \in {"switch", "exit"}
    BY <1>2, Zenon DEF yield_switch, exit_switch, At
  <2>2. /\ handler = "sched" /\ task # NULL /\ task # scheduler_proc /\ intr
        /\ pc[p] = "exit" <=> state[task] = "ZOMBIE"
    <3>1. scheduler_proc # NULL /\ pc[InitProc] # "register"
      BY <2>1, Zenon DEF Inv, BootInv, SchedInv, EarlyPoints, ForkPoints
    <3>2. task # scheduler_proc
      BY <2>1, Zenon DEF Inv, SchedInv, SchedPoints
    <3>3. intr
      BY <2>1, Zenon DEF Inv, IFInv, OffPoints, LockPoints
    <3> QED BY <2>1, <3>1, <3>2, <3>3, Zenon DEF Inv, BootInv, StateInv
  <2>3. CASE yield_switch(p)
    BY <2>1, <2>2, <2>3, SwitchToScheduler, Zenon DEF yield_switch, At
  <2>4. CASE exit_switch(p)
    BY <2>1, <2>2, <2>4, SwitchToScheduler, Zenon DEF exit_switch, At
  <2> QED BY <1>2, <2>3, <2>4, Zenon
<1>3. CASE timer_interrupt_handler_sched
  <2>1. /\ task # NULL /\ handler = "sched" /\ intr
        /\ ctx_switch(scheduler_proc, pc[task])
    BY <1>3, Zenon DEF timer_interrupt_handler_sched
  <2>2. CASE task = scheduler_proc
    <3>1. context[scheduler_proc] = "none"
      BY <2>1, <2>2, Zenon DEF Inv, TypeOK, StackInv
    <3> QED BY <1>3, <2>1, <3>1, FateInv, Zenon
            DEF timer_interrupt_handler_sched, ctx_switch, fork_vars, Inv, TypeOK
  <2>3. CASE task # scheduler_proc
    <3>1. /\ pc[task] \in {"handoff", "run", "switch", "exit"}
          /\ pc[task] = "exit" <=> state[task] = "ZOMBIE"
          /\ pc[task] = "handoff" => task = InitProc
      BY <2>1, <2>3, Zenon
         DEF Inv, TypeOK, BootInv, SchedInv, StackInv, StateInv, IFInv, InitPoints,
             ProcPoints, ForkPoints, EarlyPoints, OffPoints, LockPoints
    <3> QED BY <1>3, <2>1, <2>3, <3>1, SwitchToScheduler, Zenon
            DEF timer_interrupt_handler_sched
  <2> QED BY <2>2, <2>3, Zenon
<1> QED BY <1>1, <1>2, <1>3, Zenon

(* Every step preserves Inv.                                               *)
LEMMA NextInv == Inv /\ [Next]_vars => Inv'
<1> SUFFICES ASSUME Inv, [Next]_vars PROVE Inv'
  BY Zenon
<1>1. CASE Boot
  <2>1. CASE init_scheduler_proc /\ (fork_failed \/ FreeSlots = {})
    BY <2>1, FateInv, Zenon
       DEF init_scheduler_proc, cpu_vars, boot_vars, fork_vars, Inv, TypeOK
  <2>2. CASE init_scheduler_proc /\ ~(fork_failed \/ FreeSlots = {})
    BY <2>2, InitSchedulerProcInv, Zenon
  <2> QED BY <1>1, <2>1, <2>2, InitProcessInv, RegisterInv, HandOverInv, Zenon DEF Boot
<1>2. ASSUME NEW p \in Slots, Kernel(p) PROVE Inv'
  <2>1. CASE scheduler(p)
    BY <2>1, TopInv, ScanInv, UnlockInv, DispatchInv, BackInv, RequeueInv,
       RequeuedInv, Zenon DEF scheduler
  <2> QED BY <1>2, <2>1, ForkEnqueueInv, ForkReturnInv, HandOverInv, Zenon DEF Kernel
<1>3. ASSUME NEW p \in Slots, Request(p) PROVE Inv'
  <2>1. ASSUME NEW l \in Levels, fork(p, l) PROVE Inv'
    <3>1. CASE FreeSlots = {}
      BY <2>1, <3>1, FateInv, Zenon
         DEF fork, cpu_vars, boot_vars, turn_vars, Inv, TypeOK, At
    <3> QED BY <2>1, <3>1, ForkStep, Zenon
  <2> QED BY <1>3, <2>1, YieldInv, ExitInv, Zenon DEF Request
<1>4. CASE timer_interrupt_handler_sched
  BY <1>4, HandOverInv, Zenon
<1>5. CASE UNCHANGED vars
  BY <1>5, FateInv, Zenon DEF vars, fork_vars, Inv, TypeOK
<1> QED BY <1>1, <1>2, <1>3, <1>4, <1>5, Zenon DEF Next, halted

(* The inductive invariant holds in every reachable state.                 *)
THEOREM Invariance == Spec => []Inv
BY InitInv, NextInv, PTL DEF Spec

-----------------------------------------------------------------------------
(* The safety invariants, for every table size and number of levels.       *)

(* Type correctness: every value any variable takes is one its C type has  *)
(* a meaning for; no queue ever holds anything but table entries.          *)
THEOREM TypeCorrectness == Spec => []TypeOK
<1>1. Inv => TypeOK
  BY Zenon DEF Inv
<1> QED BY <1>1, Invariance, PTL

(* No process is ever on the run queues twice (scheduler.c:42, 86).        *)
THEOREM QueuesHoldNoDuplicates == Spec => []QueuedOnce
<1>1. Inv => QueuedOnce
  BY Zenon DEF Inv, QueueInv
<1> QED BY <1>1, Invariance, PTL

(* No runnable process is ever lost: it is queued unless the scheduler or  *)
(* fork() has it in hand (scheduler.c:58-112, process.c:465-498).          *)
THEOREM NoProcessIsLost == Spec => []NoneLost
<1>1. Inv => NoneLost
  BY Zenon DEF Inv, QueueInv, NoneLost
<1> QED BY <1>1, Invariance, PTL

(* What is queued can be switched to: it is alive, is not the scheduler    *)
(* and has a live frame that resumes with interrupts on (scheduler.c:101). *)
THEOREM QueuedProcessesCanRun == Spec => []QueuedIsResumable
<1>1. Inv => QueuedIsResumable
  <2> SUFFICES ASSUME Inv, NEW p \in Slots, Queued(p)
               PROVE  /\ Live(p) /\ p # scheduler_proc /\ pc[p] # "dead"
                      /\ context[p] = "on" \/ (p = InitProc /\ task = p)
    BY Zenon DEF QueuedIsResumable
  <2>1. Live(p) /\ p # scheduler_proc /\ ~Held(p)
    BY Zenon DEF Inv, QueueInv
  <2>2. pc[p] \notin {"dead", "unused"}
    BY <2>1, Zenon DEF Inv, StateInv, Live
  <2>3. p # task => context[p] = "on"
    BY <2>2, Zenon DEF Inv, StackInv
  <2>4. p = task => p = InitProc
    BY <2>1, NumProcessesAssumption, Zenon
       DEF Inv, BootInv, SchedInv, Held, Slots, NULL
  <2> QED BY <2>1, <2>2, <2>3, <2>4, Zenon
<1> QED BY <1>1, Invariance, PTL

(* mlfq_lock is held only with interrupts off, and whoever is about to     *)
(* spin for it finds it free (scheduler.c:35-40, 70-72).                   *)
THEOREM LockNeverSpins == Spec => []NoSelfDeadlock
<1>1. Inv => NoSelfDeadlock
  BY Zenon DEF Inv, IFInv, NoSelfDeadlock, OffPoints, LockPoints
<1> QED BY <1>1, Invariance, PTL

(* A yield, an exit or a preemption always finds the scheduler's frame.    *)
THEOREM SchedulerFrameIsLive == Spec => []SchedulerCanResume
<1>1. Inv => SchedulerCanResume
  BY NumProcessesAssumption, Zenon
     DEF Inv, TypeOK, BootInv, SchedInv, StackInv, SchedulerCanResume,
         SchedPoints, Slots, NULL
<1> QED BY <1>1, Invariance, PTL

(* scheduler()'s scan never comes up empty (scheduler.c:74-97).            *)
THEOREM ScanNeverEmpty == Spec => []ScanFindsSomeone
<1>1. Inv => ScanFindsSomeone
  BY Zenon DEF Inv, SchedInv, ScanFindsSomeone, ClaimPoints
<1> QED BY <1>1, Invariance, PTL
-----------------------------------------------------------------------------
(* The scheduler implements module MLFQ, for any table size and number of  *)
(* levels: five actions of Scheduler are the steps of the abstract queue,  *)
(* and every other step, interrupts and context switches included, leaves  *)
(* the abstract state alone.                                               *)

AbstractStep == [Abstract!MNext]_(Abstract!mlfqvars)

(* Equal queues, claim, level and process states map to equal abstract     *)
(* states.                                                                 *)
LEMMA SameAbstractState ==
  ASSUME UNCHANGED <<mlfq, claim, level, Gone>>
  PROVE  AbstractStep
BY Zenon DEF AbstractStep, Abstract!mlfqvars

(* An action that changes no queue, no claim and no process state.         *)
LEMMA OtherStep ==
  ASSUME UNCHANGED <<mlfq, claim, level, state>>
  PROVE  AbstractStep
<1>1. UNCHANGED Gone
  BY Zenon DEF Gone
<1> QED BY <1>1, SameAbstractState, Zenon

(* Abstract!Waiting is Queued.                                             *)
LEMMA WaitingIsQueued ==
  ASSUME NEW p
  PROVE  Abstract!Waiting(p) <=> Queued(p)
BY Zenon DEF Abstract!Waiting, Abstract!PriorityLevels, Queued, Levels

(* Queueing a live process that nobody holds is an arrival.                *)
LEMMA ArriveStep ==
  ASSUME NEW p \in Slots, NEW l \in Levels,
         ~Queued(p), p # claim, state[p] # "ZOMBIE",
         mlfq' = [mlfq EXCEPT ![l] = Append(@, p)],
         UNCHANGED <<claim, level, Gone>>
  PROVE  AbstractStep
<1>1. Abstract!Arrive(p, l)
  BY WaitingIsQueued, Zenon DEF Abstract!Arrive, Gone
<1> QED BY <1>1, Zenon
        DEF AbstractStep, Abstract!MNext, Abstract!PriorityLevels, Levels

(* init_process() is an arrival.                                           *)
LEMMA InitProcessStep ==
  ASSUME Inv, init_process
  PROVE  AbstractStep
<1> USE NumProcessesAssumption, NumLevelsAssumption DEF NULL, InitProc
<1>1. /\ InitProc \in Slots /\ NUM_PRIORITY_LEVELS - 1 \in Levels
      /\ state[InitProc] = "UNUSED"
  BY DEF Inv, BootInv, StateInv, init_process, Slots, Levels
<1>2. ~Queued(InitProc) /\ InitProc # claim
  BY <1>1 DEF Inv, QueueInv, Live, BootInv, SchedInv, init_process
<1>3. UNCHANGED <<claim, level, Gone>>
  BY <1>1, Zenon DEF Inv, TypeOK, init_process, turn_vars, Gone
<1> QED BY <1>1, <1>2, <1>3, ArriveStep, Zenon DEF init_process

(* sched_enqueue() of a new child is an arrival.                           *)
LEMMA ForkEnqueueStep ==
  ASSUME Inv, NEW p \in Slots, fork_enqueue(p)
  PROVE  AbstractStep
<1>1. task = p /\ pc[p] = "fork_spin" /\ task # NULL
  BY NumProcessesAssumption DEF fork_enqueue, At, Slots, NULL
<1>2. /\ child \in Slots /\ chlevel \in Levels
      /\ child # claim /\ state[child] = "READY"
  BY <1>1, Zenon DEF Inv, TypeOK, ForkInv, ForkPoints
<1>3. ~Queued(child)
  BY <1>1, <1>2, Zenon DEF Inv, QueueInv, Held
<1>4. UNCHANGED <<claim, level, Gone>>
  BY Zenon DEF fork_enqueue, turn_vars, Gone
<1> QED BY <1>2, <1>3, <1>4, ArriveStep, Zenon DEF fork_enqueue, sched_enqueue

(* The scan begins the turn of the oldest process of the best level.       *)
LEMMA ScanStep ==
  ASSUME Inv, NEW s \in Slots, sched_scan(s)
  PROVE  AbstractStep
<1>1. /\ task = s /\ s # NULL /\ pc[s] = "scan" /\ claim = NULL
  BY NumProcessesAssumption
     DEF Inv, SchedInv, SchedPoints, ClaimPoints, sched_scan, At, Slots, NULL
<1>2. NonEmpty # {}
  BY <1>1, SomeoneIsQueued, Zenon
<1>3. /\ BestLevel \in Levels /\ mlfq[BestLevel] # << >>
      /\ \A k \in Levels : k < BestLevel => mlfq[k] = << >>
  BY <1>2, BestLevelIsBest, Zenon
<1>4. /\ claim' = Head(mlfq[BestLevel]) /\ level' = BestLevel
      /\ mlfq' = [mlfq EXCEPT ![BestLevel] = Tail(@)]
      /\ UNCHANGED state
  BY <1>2, Zenon DEF sched_scan
<1>5. UNCHANGED Gone
  <2>1. claim' \in Slots /\ Queued(claim')
    BY <1>3, <1>4, RemoveHead, Zenon DEF Inv, TypeOK, QueueInv
  <2>2. state[claim'] # "ZOMBIE"
    BY <2>1, Zenon DEF Inv, QueueInv, Live
  <2> QED BY <1>1, <1>4, <2>2, NumProcessesAssumption DEF Gone, Slots, NULL
<1>6. Abstract!BeginTurn(BestLevel)
  BY <1>1, <1>3, <1>4, <1>5, Zenon
     DEF Abstract!BeginTurn, Abstract!PriorityLevels, Levels
<1> QED BY <1>3, <1>6, Zenon
        DEF AbstractStep, Abstract!MNext, Abstract!PriorityLevels, Levels

(* Putting a process back ends its turn one level down.                    *)
LEMMA RequeueStep ==
  ASSUME Inv, NEW s \in Slots, sched_requeue(s)
  PROVE  AbstractStep
<1> USE NumProcessesAssumption, NumLevelsAssumption DEF Slots, NULL
<1>1. /\ claim \in Slots /\ state[claim] # "ZOMBIE"
      /\ level \in Levels /\ demote(level) \in Levels
  BY DEF Inv, TypeOK, SchedInv, SchedPoints, ClaimPoints, demote, Levels,
         sched_requeue, At
<1>2. /\ mlfq' = [mlfq EXCEPT ![demote(level)] = Append(@, claim)]
      /\ claim' = NULL
      /\ UNCHANGED <<level, state>>
  BY <1>1, Zenon DEF sched_requeue, sched_enqueue
<1>3. UNCHANGED Gone
  BY <1>1, <1>2 DEF Gone
<1>4. Abstract!EndTurn(demote(level))
  BY <1>1, <1>2, <1>3
     DEF Abstract!EndTurn, Abstract!PriorityLevels, Levels, demote
<1> QED BY <1>1, <1>4, Zenon
        DEF AbstractStep, Abstract!MNext, Abstract!PriorityLevels, Levels

(* Dropping a zombie retires it; keeping the claim changes nothing         *)
(* abstract.                                                               *)
LEMMA BackStep ==
  ASSUME Inv, NEW s \in Slots, sched_back(s)
  PROVE  AbstractStep
<1> USE NumProcessesAssumption DEF Slots, NULL
<1>1. claim \in Slots
  BY Zenon DEF Inv, TypeOK, SchedInv, SchedPoints, ClaimPoints, sched_back, At
<1>2. CASE state[claim] = "ZOMBIE"
  <2>1. claim' = NULL /\ UNCHANGED <<mlfq, level, state>>
    BY <1>2, Zenon DEF sched_back
  <2>2. Gone' = Gone \cup {claim}
    BY <1>1, <1>2, <2>1 DEF Gone
  <2>3. Abstract!Retire
    BY <1>1, <2>1, <2>2 DEF Abstract!Retire
  <2> QED BY <2>3, Zenon DEF AbstractStep, Abstract!MNext
<1>3. CASE state[claim] # "ZOMBIE"
  BY <1>3, OtherStep, Zenon DEF sched_back
<1> QED BY <1>2, <1>3, Zenon

(* The steps that change a process state without touching the queues.      *)
LEMMA StateStep ==
  ASSUME Inv, NEW p \in Slots,
         \/ \E l \in Levels : fork(p, l)
         \/ yield(p) \/ exit_process(p) \/ sched_dispatch(p)
         \/ init_scheduler_proc
  PROVE  AbstractStep
<1> USE NumProcessesAssumption DEF Slots, NULL
<1>1. UNCHANGED <<mlfq, claim, level>>
  BY Zenon DEF fork, yield, exit_process, sched_dispatch, init_scheduler_proc,
         turn_vars
<1>2. UNCHANGED Gone
  <2>1. CASE \E l \in Levels : fork(p, l)
    BY <1>1, <2>1, FirstFreeIsFree, ZenonT(30) DEF fork, Gone, Inv, TypeOK
  <2>2. CASE init_scheduler_proc
    BY <1>1, <2>2, FirstFreeIsFree DEF init_scheduler_proc, Gone, Inv, TypeOK
  <2>3. CASE yield(p)
    BY <1>1, <2>3, Zenon DEF yield, At, Gone, Inv, TypeOK, StateInv
  <2>4. CASE exit_process(p)
    <3>1. p = claim
      BY <2>4, Zenon DEF exit_process, At, IsProc, Inv, BootInv, SchedInv, EarlyPoints,
                  ForkPoints
    <3> QED BY <1>1, <2>4, <3>1, Zenon DEF exit_process, Gone, Inv, TypeOK
  <2>5. CASE sched_dispatch(p)
    <3>1. claim \in Slots /\ state[claim] # "ZOMBIE"
      BY <2>5 DEF sched_dispatch, At, Inv, TypeOK, SchedInv, SchedPoints,
                  ClaimPoints
    <3> QED BY <1>1, <2>5, <3>1, ZenonT(30) DEF sched_dispatch, Gone, Inv, TypeOK
  <2> QED BY <2>1, <2>2, <2>3, <2>4, <2>5, Zenon
<1> QED BY <1>1, <1>2, SameAbstractState, Zenon

(* Every step of the scheduler is a step of the MLFQ or changes nothing it *)
(* sees.                                                                   *)
LEMMA StepRefinement == Inv /\ [Next]_vars => AbstractStep
<1> SUFFICES ASSUME Inv, [Next]_vars PROVE AbstractStep
  BY Zenon
<1>1. CASE Boot
  <2>1. CASE init_scheduler_proc
    BY <2>1, StateStep, NumProcessesAssumption DEF Slots
  <2>2. CASE register_interrupt_handler \/ init_handoff
    BY <2>2, OtherStep, Zenon DEF register_interrupt_handler, init_handoff, turn_vars
  <2> QED BY <1>1, <2>1, <2>2, InitProcessStep, Zenon DEF Boot
<1>2. ASSUME NEW p \in Slots, Kernel(p) PROVE AbstractStep
  <2>1. CASE \/ sched_top(p) \/ sched_unlock(p) \/ sched_requeued(p)
             \/ fork_return(p) \/ yield_switch(p) \/ exit_switch(p)
    BY <2>1, OtherStep, Zenon
       DEF sched_top, sched_unlock, sched_requeued, fork_return, yield_switch,
           exit_switch, turn_vars
  <2> QED BY <1>2, <2>1, ScanStep, StateStep, BackStep, RequeueStep,
             ForkEnqueueStep, Zenon DEF Kernel, scheduler
<1>3. ASSUME NEW p \in Slots, Request(p) PROVE AbstractStep
  BY <1>3, StateStep, Zenon DEF Request
<1>4. CASE timer_interrupt_handler_sched
  BY <1>4, OtherStep, Zenon DEF timer_interrupt_handler_sched, turn_vars
<1>5. CASE UNCHANGED vars
  BY <1>5, OtherStep, Zenon DEF vars, turn_vars
<1> QED BY <1>1, <1>2, <1>3, <1>4, <1>5, Zenon DEF Next, halted

(* scheduler.c:30-112 over every interleaving of forks, yields, exits and  *)
(* timer interrupts implements the plain multilevel feedback queue.        *)
THEOREM Refinement == Spec => ImplementsMLFQ
<1>1. Init => Abstract!MInit
  BY NumLevelsAssumption, Zenon
     DEF Init, Abstract!MInit, Abstract!PriorityLevels, Levels, Gone
<1>2. Inv /\ [Next]_vars => [Abstract!MNext]_(Abstract!mlfqvars)
  BY StepRefinement, Zenon DEF AbstractStep
<1> QED BY <1>1, <1>2, Invariance, PTL DEF Spec, ImplementsMLFQ, Abstract!MSpec
-----------------------------------------------------------------------------
(***************************************************************************)
(* Pong, for any screen, speeds and lengths of frames.  The debounce may   *)
(* swallow the event that would turn the ball, but then no event is taken  *)
(* in that frame, and by the next the debounce is over.                    *)
(***************************************************************************)

(* The clock's values, and the records of the game.                        *)
W == 2^TickBits
Obj == [x : Int, y : Int, width : Int, height : Int, vel_x : Int, vel_y : Int]
Balls == {b \in Obj : b.width = BALL_RADIUS /\ b.height = BALL_RADIUS}
Paddles(x) == {p \in Obj : p.x = x /\ p.vel_x = 0
                           /\ p.width = PADDLE_WIDTH /\ p.height = PADDLE_HEIGHT}
Scores == [1..2 -> Int]
Handled == [ball : Balls, event : Int, score : Scores, serves : Int, hits : Int]

(* Where a serve starts from.                                              *)
InMiddle(b) == /\ b.x = screen_width \div 2 - BALL_RADIUS \div 2
               /\ b.y = screen_height \div 2 - BALL_RADIUS \div 2

(* A ball where another is, however each flies.                            *)
SamePlace(b, c) == b.x = c.x /\ b.y = c.y /\ b.width = c.width /\ b.height = c.height

(* What is assumed of the constants, one by one.                           *)
LEMMA PongConstants ==
  /\ screen_width \in Nat /\ screen_height \in Nat /\ PADDLE_WIDTH \in Nat
  /\ PADDLE_HEIGHT \in Nat /\ BALL_RADIUS \in Nat /\ MaxFrames \in Nat
  /\ EVENT_DEBOUNCE_TICKS \in Nat /\ PONG_FRAME_MS \in Nat /\ PLAYER_SPEED \in Int
  /\ W \in Nat \ {0} /\ StartTicks \in 0 .. W - 1 /\ PastEvent \in 0 .. W - 1
  /\ screen_width > 2 * PADDLE_WIDTH + 2 * BALL_RADIUS + 1
  /\ screen_height > BALL_RADIUS + 1
  /\ EVENT_DEBOUNCE_TICKS <= PONG_FRAME_MS
<1>1. /\ {screen_width, screen_height, PADDLE_WIDTH, PADDLE_HEIGHT, BALL_RADIUS, MaxFrames,
           EVENT_DEBOUNCE_TICKS, PONG_FRAME_MS} \subseteq Nat
      /\ {W, W - StartTicks, W - PastEvent} \subseteq Nat \ {0}
      /\ {StartTicks, PastEvent} \subseteq Nat
  BY PongAssumption, Zenon DEF W
<1>2. W \in Nat \ {0} /\ StartTicks \in 0 .. W - 1 /\ PastEvent \in 0 .. W - 1
  <2> HIDE DEF W
  <2> QED
    BY <1>1
<1> QED
  BY <1>1, <1>2, PongAssumption, Zenon

(* C's division rounds towards zero.                                       *)
LEMMA Quotient ==
  ASSUME NEW a \in Int, NEW b \in Nat \ {0}
  PROVE  Quot(a, b) \in Int /\ Quot(0, b) = 0
  BY DEF Quot

(* The middle of the screen is away from walls and paddles, and in play.   *)
LEMMA MiddleIsClear ==
  ASSUME NEW b \in Balls, InMiddle(b),
         NEW p1 \in Paddles(0), NEW p2 \in Paddles(screen_width - PADDLE_WIDTH)
  PROVE  /\ ~Unturned(b, p1, p2)
         /\ ~(b.x + b.width <= 0) /\ ~(b.x - b.width >= screen_width)
<1>1. /\ b.x \in Int /\ b.y \in Int /\ b.width = BALL_RADIUS /\ b.height = BALL_RADIUS
      /\ b.x = screen_width \div 2 - BALL_RADIUS \div 2
      /\ b.y = screen_height \div 2 - BALL_RADIUS \div 2
  BY Zenon DEF InMiddle, Balls, Obj
<1>2. p1.x = 0 /\ p1.width = PADDLE_WIDTH /\ p2.x = screen_width - PADDLE_WIDTH
  BY Zenon DEF Paddles
<1>3. ~AtWall(b) /\ ~(b.y <= 0) /\ ~(b.y + b.height >= screen_height)
  BY <1>1, PongConstants DEF AtWall
<1>4. ~rects_overlap(b, p1)
  <2>1. ~(b.x < 0 + PADDLE_WIDTH)
    BY <1>1, PongConstants
  <2> QED
    BY <1>2, <2>1, Zenon DEF rects_overlap
<1>5. ~rects_overlap(b, p2)
  <2>1. ~(b.x + b.width > screen_width - PADDLE_WIDTH)
    BY <1>1, PongConstants
  <2> QED
    BY <1>2, <2>1, Zenon DEF rects_overlap
<1>6. ~(b.x + b.width <= 0) /\ ~(b.x - b.width >= screen_width)
  BY <1>1, PongConstants
<1> QED
  BY <1>3, <1>4, <1>5, <1>6, Zenon DEF Unturned

(* The ball never overlaps both paddles.                                   *)
LEMMA OnePaddle ==
  ASSUME NEW b \in Balls,
         NEW p1 \in Paddles(0), NEW p2 \in Paddles(screen_width - PADDLE_WIDTH)
  PROVE  ~(rects_overlap(b, p1) /\ rects_overlap(b, p2))
<1>1. /\ b.x \in Int /\ b.width = BALL_RADIUS
      /\ p1.x = 0 /\ p1.width = PADDLE_WIDTH /\ p2.x = screen_width - PADDLE_WIDTH
  BY Zenon DEF Balls, Obj, Paddles
<1>2. ~(b.x < 0 + PADDLE_WIDTH /\ b.x + b.width > screen_width - PADDLE_WIDTH)
  BY <1>1, PongConstants
<1> QED
  BY <1>1, <1>2, Zenon DEF rects_overlap

(* A ball with other speeds is a ball.                                     *)
LEMMA NewSpeeds ==
  ASSUME NEW b \in Balls, NEW v \in Int
  PROVE  /\ [b EXCEPT !.vel_y = v] \in Balls /\ SamePlace([b EXCEPT !.vel_y = v], b)
         /\ [b EXCEPT !.vel_y = v].vel_y = v /\ [b EXCEPT !.vel_y = v].vel_x = b.vel_x
         /\ [b EXCEPT !.vel_x = v] \in Balls /\ SamePlace([b EXCEPT !.vel_x = v], b)
         /\ [b EXCEPT !.vel_x = v].vel_x = v /\ [b EXCEPT !.vel_x = v].vel_y = b.vel_y
  BY Zenon DEF Balls, Obj, SamePlace

(* So is one put elsewhere.                                                *)
LEMMA NewPlace ==
  ASSUME NEW b \in Balls, NEW v \in Int
  PROVE  /\ [b EXCEPT !.x = v] \in Balls /\ [b EXCEPT !.x = v].x = v
         /\ [b EXCEPT !.y = v] \in Balls /\ [b EXCEPT !.y = v].y = v
         /\ [b EXCEPT !.y = v].x = b.x
  BY Zenon DEF Balls, Obj

(* The state of the handlers with one field replaced: another event.       *)
LEMMA NewEvent ==
  ASSUME NEW s \in Handled, NEW e \in Int
  PROVE  /\ [s EXCEPT !.event = e] \in Handled /\ [s EXCEPT !.event = e].event = e
         /\ [s EXCEPT !.event = e].ball = s.ball /\ [s EXCEPT !.event = e].score = s.score
         /\ [s EXCEPT !.event = e].serves = s.serves /\ [s EXCEPT !.event = e].hits = s.hits
  BY Zenon DEF Handled

(* Another ball.                                                           *)
LEMMA NewBall ==
  ASSUME NEW s \in Handled, NEW b \in Balls
  PROVE  /\ [s EXCEPT !.ball = b] \in Handled /\ [s EXCEPT !.ball = b].ball = b
         /\ [s EXCEPT !.ball = b].event = s.event /\ [s EXCEPT !.ball = b].score = s.score
         /\ [s EXCEPT !.ball = b].serves = s.serves /\ [s EXCEPT !.ball = b].hits = s.hits
  BY Zenon DEF Handled

(* Another score.                                                          *)
LEMMA NewScore ==
  ASSUME NEW s \in Handled, NEW c \in Scores
  PROVE  /\ [s EXCEPT !.score = c] \in Handled /\ [s EXCEPT !.score = c].score = c
         /\ [s EXCEPT !.score = c].event = s.event /\ [s EXCEPT !.score = c].ball = s.ball
         /\ [s EXCEPT !.score = c].serves = s.serves /\ [s EXCEPT !.score = c].hits = s.hits
  BY Zenon DEF Handled

(* Another number of serves.                                               *)
LEMMA NewServe ==
  ASSUME NEW s \in Handled, NEW n \in Int
  PROVE  /\ [s EXCEPT !.serves = n] \in Handled /\ [s EXCEPT !.serves = n].serves = n
         /\ [s EXCEPT !.serves = n].event = s.event /\ [s EXCEPT !.serves = n].ball = s.ball
         /\ [s EXCEPT !.serves = n].score = s.score /\ [s EXCEPT !.serves = n].hits = s.hits
  BY Zenon DEF Handled

(* Another number of hits.                                                 *)
LEMMA NewHit ==
  ASSUME NEW s \in Handled, NEW n \in Int
  PROVE  /\ [s EXCEPT !.hits = n] \in Handled /\ [s EXCEPT !.hits = n].hits = n
         /\ [s EXCEPT !.hits = n].event = s.event /\ [s EXCEPT !.hits = n].ball = s.ball
         /\ [s EXCEPT !.hits = n].score = s.score /\ [s EXCEPT !.hits = n].serves = s.serves
  BY Zenon DEF Handled

(* The types of the fields.                                                *)
LEMMA HandledTyped ==
  ASSUME NEW s \in Handled
  PROVE  /\ s.ball \in Balls /\ s.event \in Int /\ s.score \in Scores /\ s.serves \in Int
         /\ s.hits \in Int
         /\ s.ball.vel_x \in Int /\ s.ball.vel_y \in Int /\ s.ball.x \in Int /\ s.ball.y \in Int
         /\ s.ball.width = BALL_RADIUS /\ s.ball.height = BALL_RADIUS
  BY Zenon DEF Handled, Balls, Obj

(* What a wall does (pong.c:121-135).                                      *)
WallEffect(s, u, now) ==
  /\ u \in Handled /\ SamePlace(u.ball, s.ball)
  /\ u.score = s.score /\ u.serves = s.serves /\ u.hits = s.hits
  /\ ~Debounced(s, now) => u = s
  /\ Debounced(s, now) =>
       /\ u.event = now
       /\ ~(s.ball.y <= 0 /\ u.ball.vel_y < 0)
       /\ ~(s.ball.y + s.ball.height >= screen_height /\ u.ball.vel_y > 0)

(* It turns the ball, unless the event is too soon after another.          *)
LEMMA WallHit ==
  ASSUME NEW s \in Handled, NEW now \in Int
  PROVE  WallEffect(s, pong_on_wall_hit(s, now), now)
<1> DEFINE u == pong_on_wall_hit(s, now)
           v == IF s.ball.y <= 0 THEN abs(s.ball.vel_y) ELSE -abs(s.ball.vel_y)
<1>1. /\ s.ball \in Balls /\ s.ball.vel_y \in Int /\ s.ball.y \in Int
      /\ s.ball.height = BALL_RADIUS
  BY Zenon DEF Handled, Balls, Obj
<1>2. CASE ~Debounced(s, now)
  <2>1. u = s
    BY <1>2, Zenon DEF pong_on_wall_hit
  <2> QED
    BY <1>2, <2>1, Zenon DEF SamePlace, WallEffect
<1>3. CASE Debounced(s, now)
  <2> DEFINE b == [s.ball EXCEPT !.vel_y = v]
             u1 == [s EXCEPT !.event = now]
  <2>1. u = [u1 EXCEPT !.ball = b]
    BY <1>3, Zenon DEF pong_on_wall_hit
  <2>2. /\ v \in Int
        /\ ~(s.ball.y <= 0 /\ v < 0)
        /\ ~(s.ball.y + s.ball.height >= screen_height /\ v > 0)
    BY <1>1, PongConstants DEF abs
  <2> HIDE DEF v, u
  <2>3. b \in Balls /\ SamePlace(b, s.ball) /\ b.vel_y = v
    BY <1>1, <2>2, NewSpeeds, Zenon
  <2> HIDE DEF b
  <2>4. /\ u1 \in Handled /\ u1.score = s.score /\ u1.serves = s.serves
        /\ u1.hits = s.hits /\ u1.event = now
    BY NewEvent, Zenon
  <2> HIDE DEF u1
  <2>5. /\ u \in Handled /\ u.ball = b /\ u.score = s.score /\ u.serves = s.serves
        /\ u.hits = s.hits /\ u.event = now
    BY <2>1, <2>3, <2>4, NewBall, Zenon
  <2>6. WallEffect(s, u, now)
    BY <1>3, <2>2, <2>3, <2>5, Zenon DEF WallEffect
  <2> QED
    BY <2>6, Zenon DEF u
<1> QED
  BY <1>2, <1>3, Zenon

(* What a paddle at x does (pong.c:103-119).                               *)
PaddleEffect(s, u, x, now) ==
  /\ u \in Handled /\ SamePlace(u.ball, s.ball)
  /\ u.score = s.score /\ u.serves = s.serves
  /\ ~Debounced(s, now) => u = s
  /\ Debounced(s, now) =>
       /\ u.event = now /\ u.hits = s.hits + 1
       /\ x < screen_width \div 2 => ~(u.ball.vel_x < 0)
       /\ ~(x < screen_width \div 2) => ~(u.ball.vel_x > 0)

(* It turns the ball towards the other.                                    *)
LEMMA PaddleHit ==
  ASSUME NEW s \in Handled, NEW p \in Obj, NEW now \in Int
  PROVE  PaddleEffect(s, pong_on_player_hit(s, p, now), p.x, now)
<1> DEFINE u == pong_on_player_hit(s, p, now)
           v == IF p.x < screen_width \div 2 THEN abs(s.ball.vel_x) ELSE -abs(s.ball.vel_x)
           w == s.ball.vel_y + Quot(p.vel_y, 2)
<1>1. /\ s.ball \in Balls /\ s.ball.vel_x \in Int /\ s.ball.vel_y \in Int
      /\ p.x \in Int /\ p.vel_y \in Int
  BY Zenon DEF Handled, Balls, Obj
<1>2. CASE ~Debounced(s, now)
  <2>1. u = s
    BY <1>2, Zenon DEF pong_on_player_hit
  <2> QED
    BY <1>2, <2>1, Zenon DEF SamePlace, PaddleEffect
<1>3. CASE Debounced(s, now)
  <2> DEFINE a == [s.ball EXCEPT !.vel_x = v]
             b == [a EXCEPT !.vel_y = w]
             u1 == [s EXCEPT !.event = now]
             u2 == [u1 EXCEPT !.hits = s.hits + 1]
             u3 == [u2 EXCEPT !.ball = a]
  <2>1. u = [u3 EXCEPT !.ball = [u3.ball EXCEPT !.vel_y = w]]
    BY <1>3, ZenonT(30) DEF pong_on_player_hit
  <2>2. /\ v \in Int
        /\ p.x < screen_width \div 2 => ~(v < 0)
        /\ ~(p.x < screen_width \div 2) => ~(v > 0)
    BY <1>1, PongConstants DEF abs
  <2>3. w \in Int
    <3>1. Quot(p.vel_y, 2) \in Int
      BY <1>1, Quotient
    <3> QED
      BY <1>1, <3>1
  <2> HIDE DEF v, u, w
  <2>4. a \in Balls /\ SamePlace(a, s.ball) /\ a.vel_x = v
    BY <1>1, <2>2, NewSpeeds, Zenon
  <2> HIDE DEF a
  <2>6. b \in Balls /\ SamePlace(b, a) /\ b.vel_x = v
    BY <2>3, <2>4, NewSpeeds, Zenon
  <2>5. /\ u1 \in Handled /\ u1.score = s.score /\ u1.serves = s.serves /\ u1.event = now
    BY NewEvent, Zenon
  <2> HIDE DEF u1
  <2>10. /\ u2 \in Handled /\ u2.score = s.score /\ u2.serves = s.serves
         /\ u2.hits = s.hits + 1 /\ u2.event = now
    <3>1. s.hits + 1 \in Int
      BY HandledTyped
    <3> QED
      BY <2>5, <3>1, NewHit, Zenon
  <2> HIDE DEF u2
  <2>11. /\ u3 \in Handled /\ u3.ball = a /\ u3.score = s.score /\ u3.serves = s.serves
         /\ u3.hits = s.hits + 1 /\ u3.event = now
    BY <2>4, <2>10, NewBall, Zenon
  <2> HIDE DEF u3
  <2>12. u = [u3 EXCEPT !.ball = b]
    BY <2>1, <2>11, Zenon
  <2> HIDE DEF b
  <2>7. /\ u \in Handled /\ u.ball = b /\ u.score = s.score /\ u.serves = s.serves
        /\ u.hits = s.hits + 1 /\ u.event = now
    BY <2>6, <2>11, <2>12, NewBall, Zenon
  <2>8. SamePlace(b, s.ball)
    BY <2>4, <2>6, Zenon DEF SamePlace
  <2>9. PaddleEffect(s, u, p.x, now)
    BY <1>3, <2>2, <2>6, <2>7, <2>8, Zenon DEF PaddleEffect
  <2> QED
    BY <2>9, Zenon DEF u
<1> QED
  BY <1>2, <1>3, Zenon

(* What a point does (pong.c:137-153, 217-229).                            *)
ScoreEffect(s, u, player, now) ==
  /\ u \in Handled
  /\ \/ u = s
     \/ /\ Debounced(s, now) /\ InMiddle(u.ball) /\ u.event = now
        /\ u.score = [s.score EXCEPT ![player] = @ + 1] /\ u.serves = s.serves + 1

(* The ball goes to the middle for the next serve.                         *)
LEMMA Scored ==
  ASSUME NEW s \in Handled, NEW player \in 1 .. 2, NEW vx \in Int, NEW vy \in Int, NEW now \in Int
  PROVE  ScoreEffect(s, pong_on_score(s, player, vx, vy, now), player, now)
<1> DEFINE u == pong_on_score(s, player, vx, vy, now)
           b == reset(s.ball, vx, vy)
           c == [s.score EXCEPT ![player] = @ + 1]
<1>1. CASE ~Debounced(s, now)
  <2>1. u = s
    BY <1>1, Zenon DEF pong_on_score
  <2> QED
    BY <2>1, Zenon DEF ScoreEffect
<1>2. CASE Debounced(s, now)
  <2>1. b \in Balls /\ InMiddle(b)
    <3> DEFINE mx == screen_width \div 2 - s.ball.width \div 2
               my == screen_height \div 2 - s.ball.height \div 2
               b1 == [s.ball EXCEPT !.x = mx]
               b2 == [b1 EXCEPT !.y = my]
               b3 == [b2 EXCEPT !.vel_x = vx]
    <3>1. b = [b3 EXCEPT !.vel_y = vy]
      BY Zenon DEF reset
    <3>2. /\ mx \in Int /\ mx = screen_width \div 2 - BALL_RADIUS \div 2
          /\ my \in Int /\ my = screen_height \div 2 - BALL_RADIUS \div 2
          /\ s.ball \in Balls
      BY HandledTyped, PongConstants
    <3> HIDE DEF mx, my, b
    <3>3. b1 \in Balls /\ b1.x = mx
      BY <3>2, NewPlace, ZenonT(30)
    <3> HIDE DEF b1
    <3>4. b2 \in Balls /\ b2.x = mx /\ b2.y = my
      BY <3>2, <3>3, NewPlace, Zenon
    <3> HIDE DEF b2
    <3>5. b3 \in Balls /\ SamePlace(b3, b2)
      BY <3>4, NewSpeeds, Zenon
    <3> HIDE DEF b3
    <3>6. b \in Balls /\ SamePlace(b, b3)
      BY <3>1, <3>5, NewSpeeds, Zenon
    <3> QED
      BY <3>2, <3>4, <3>5, <3>6, Zenon DEF InMiddle, SamePlace
  <2>2. c \in Scores
    BY HandledTyped DEF Scores
  <2> DEFINE u1 == [s EXCEPT !.event = now]
             u2 == [u1 EXCEPT !.score = [u1.score EXCEPT ![player] = s.score[player] + 1]]
             u3 == [u2 EXCEPT !.ball = b]
  <2>3. u = [u3 EXCEPT !.serves = s.serves + 1]
    BY <1>2, Zenon DEF pong_on_score
  <2> HIDE DEF u, b
  <2>4. /\ u1 \in Handled /\ u1.score = s.score /\ u1.event = now
    BY NewEvent, Zenon
  <2> HIDE DEF u1
  <2>5. u2 \in Handled /\ u2.score = c /\ u2.event = now
    <3>1. u2 = [u1 EXCEPT !.score = c]
      BY <2>4, Zenon
    <3> HIDE DEF c, u2
    <3> QED
      BY <2>2, <2>4, <3>1, NewScore, Zenon
  <2> HIDE DEF u2
  <2>6. u3 \in Handled /\ u3.score = c /\ u3.ball = b /\ u3.event = now
    BY <2>1, <2>5, NewBall, Zenon
  <2> HIDE DEF u3
  <2>7. u \in Handled /\ u.ball = b /\ u.score = c /\ u.serves = s.serves + 1 /\ u.event = now
    <3>1. s.serves + 1 \in Int
      BY HandledTyped
    <3> QED
      BY <2>3, <2>6, <3>1, NewServe, Zenon
  <2>8. ScoreEffect(s, u, player, now)
    BY <1>2, <2>1, <2>7, Zenon DEF ScoreEffect, c
  <2> QED
    BY <2>8, Zenon DEF u
<1> QED
  BY <1>1, <1>2, Zenon

(* What the handlers make of a frame.  If the ball still flies into what   *)
(* it has hit, and not because of a paddle hit taken at a wall, the event  *)
(* was swallowed and no other was taken.                                   *)
UpdateEffect(s, p1, p2, b, now) ==
  /\ s \in Handled
  /\ s.event = last_event \/ \E i \in 1 .. 4 : s.event = now[i]
  /\ \/ s.score = score
     \/ /\ \E p \in {1, 2} : s.score = [score EXCEPT ![p] = @ + 1]
        /\ s.serves = serves + 1 /\ InMiddle(s.ball)
  /\ Unturned(s.ball, p1, p2) /\ ~(AtWall(b) /\ s.hits > 0) =>
       /\ s.event = last_event
       /\ \E i \in 1 .. 4 : ~(Since(now[i], last_event) >= EVENT_DEBOUNCE_TICKS)

(* The state of the handlers at the beginning of a frame.                  *)
Start(b) == [ball |-> b, event |-> last_event, score |-> score, serves |-> serves, hits |-> 0]

(* Where a ball touches does not depend on how it flies.                   *)
LEMMA TouchesSame ==
  ASSUME NEW b, NEW c, SamePlace(b, c), NEW p
  PROVE  (AtWall(b) <=> AtWall(c)) /\ (rects_overlap(b, p) <=> rects_overlap(c, p))
  BY Zenon DEF SamePlace, AtWall, rects_overlap

(* What the walls and the paddles make of it.                              *)
Touched(s, p1, p2, b, now) ==
  /\ s \in Handled /\ s.score = score /\ s.serves = serves
  /\ s.event = last_event \/ \E i \in 1 .. 4 : s.event = now[i]
  /\ Unturned(s.ball, p1, p2) /\ ~(AtWall(b) /\ s.hits > 0) =>
       /\ s.event = last_event
       /\ \E i \in 1 .. 4 : ~(Since(now[i], last_event) >= EVENT_DEBOUNCE_TICKS)

(* The walls and the paddles (pong.c:162-171).                             *)
LEMMA WallAndPaddles ==
  ASSUME NEW b \in Balls, last_event \in Int, score \in Scores, serves \in Int,
         NEW p1 \in Paddles(0), NEW p2 \in Paddles(screen_width - PADDLE_WIDTH),
         NEW now \in [1..4 -> Int],
         NEW s1, s1 = IF AtWall(b) THEN pong_on_wall_hit(Start(b), now[1]) ELSE Start(b),
         NEW s2, s2 = IF rects_overlap(s1.ball, p1) THEN pong_on_player_hit(s1, p1, now[2]) ELSE s1,
         NEW s3, s3 = IF rects_overlap(s2.ball, p2) THEN pong_on_player_hit(s2, p2, now[3]) ELSE s2
  PROVE  Touched(s3, p1, p2, b, now)
<1> DEFINE s0 == Start(b)
<1>1. /\ s0 \in Handled /\ s0.ball = b /\ s0.event = last_event /\ s0.score = score
      /\ s0.serves = serves /\ s0.hits = 0
  BY DEF Handled, Start
<1>2. /\ now[1] \in Int /\ now[2] \in Int /\ now[3] \in Int
      /\ p1 \in Obj /\ p2 \in Obj /\ p1.x = 0 /\ p2.x = screen_width - PADDLE_WIDTH
  BY DEF Paddles
<1>3. s1 = (IF AtWall(b) THEN pong_on_wall_hit(s0, now[1]) ELSE s0)
  BY Zenon
<1> HIDE DEF s0
<1>4. IF AtWall(b) THEN WallEffect(s0, s1, now[1]) ELSE s1 = s0
  BY <1>1, <1>2, <1>3, WallHit, Zenon
<1>5. s1 \in Handled /\ SamePlace(s1.ball, b) /\ s1.score = score /\ s1.serves = serves
      /\ s1.hits = 0
  BY <1>1, <1>4, Zenon DEF WallEffect, SamePlace
<1>6. IF rects_overlap(b, p1) THEN PaddleEffect(s1, s2, 0, now[2]) ELSE s2 = s1
  BY <1>2, <1>5, PaddleHit, TouchesSame, Zenon
<1>7. s2 \in Handled /\ SamePlace(s2.ball, b) /\ s2.score = score /\ s2.serves = serves
  BY <1>5, <1>6, Zenon DEF PaddleEffect, SamePlace
<1>8. IF rects_overlap(b, p2) THEN PaddleEffect(s2, s3, screen_width - PADDLE_WIDTH, now[3]) ELSE s3 = s2
  <2>1. rects_overlap(s2.ball, p2) <=> rects_overlap(b, p2)
    BY <1>7, TouchesSame, Zenon
  <2>2. PaddleEffect(s2, pong_on_player_hit(s2, p2, now[3]), screen_width - PADDLE_WIDTH, now[3])
    BY <1>2, <1>7, PaddleHit
  <2> QED
    BY <2>1, <2>2, Zenon
<1>9. s3 \in Handled /\ SamePlace(s3.ball, b) /\ s3.score = score /\ s3.serves = serves
  BY <1>7, <1>8, Zenon DEF PaddleEffect, SamePlace
<1>10. s1.event = last_event \/ s1.event = now[1]
  BY <1>1, <1>4, Zenon DEF WallEffect
<1>11. s2.event = s1.event \/ s2.event = now[2]
  BY <1>6, Zenon DEF PaddleEffect
<1>12. s3.event = s2.event \/ s3.event = now[3]
  BY <1>8, Zenon DEF PaddleEffect
<1>13. 1 \in 1 .. 4 /\ 2 \in 1 .. 4 /\ 3 \in 1 .. 4
  OBVIOUS
<1>14. s3.event = last_event \/ \E i \in 1 .. 4 : s3.event = now[i]
  BY <1>10, <1>11, <1>12, <1>13, Zenon
<1>15. ASSUME Unturned(s3.ball, p1, p2), ~(AtWall(b) /\ s3.hits > 0)
       PROVE  /\ s3.event = last_event
              /\ \E i \in 1 .. 4 : ~(Since(now[i], last_event) >= EVENT_DEBOUNCE_TICKS)
  <2>1. CASE AtWall(b)
    <3>1. ~(s3.hits > 0)
      BY <1>15, <2>1, Zenon
    <3>2. s2 = s1 \/ s2.hits = 1
      <4>1. s2 = s1 \/ s2.hits = s1.hits + 1
        BY <1>6, Zenon DEF PaddleEffect
      <4> QED
        BY <1>5, <4>1
    <3>3. s3 = s2 \/ s3.hits = s2.hits + 1
      BY <1>8, Zenon DEF PaddleEffect
    <3>4. s2 = s1 /\ s3 = s1
      <4>1. s1.hits = 0
        BY <1>5, Zenon
      <4>2. s2.hits = 0 \/ s2.hits = 1
        BY <3>2, <4>1, ZenonT(30)
      <4>3. s3 = s2
        BY <3>1, <3>3, <4>2
      <4>4. s2.hits # 1
        BY <3>1, <4>3
      <4> QED
        BY <3>2, <4>3, <4>4, Zenon
    <3>5. WallEffect(s0, s1, now[1])
      BY <1>4, <2>1, Zenon
    <3>6. ~Debounced(s0, now[1])
      <4>1. AtWall(s3.ball) /\ s3.ball.y = b.y /\ s3.ball.height = b.height
        BY <1>9, <2>1, TouchesSame, Zenon DEF SamePlace
      <4>2. \/ b.y <= 0 /\ s1.ball.vel_y < 0
            \/ b.y + b.height >= screen_height /\ s1.ball.vel_y > 0
        BY <1>15, <3>4, <4>1, Zenon DEF Unturned
      <4> QED
        BY <1>1, <3>5, <4>2, Zenon DEF WallEffect
    <3>7. s1 = s0
      BY <3>5, <3>6, Zenon DEF WallEffect
    <3> QED
      BY <1>1, <1>13, <3>4, <3>6, <3>7, Zenon DEF Debounced
  <2>2. CASE ~AtWall(b)
    <3>1. s1 = s0 /\ ~AtWall(s3.ball)
      BY <1>4, <1>9, <2>2, TouchesSame, Zenon
    <3>2. ~(s3.ball.y <= 0) /\ ~(s3.ball.y + s3.ball.height >= screen_height)
      BY <3>1, Zenon DEF AtWall
    <3>3. \/ rects_overlap(b, p1) /\ s3.ball.vel_x < 0
          \/ rects_overlap(b, p2) /\ s3.ball.vel_x > 0
      BY <1>9, <1>15, <3>2, TouchesSame, Zenon DEF Unturned
    <3>4. 0 < screen_width \div 2 /\ ~(screen_width - PADDLE_WIDTH < screen_width \div 2)
      BY PongConstants
    <3>5. CASE rects_overlap(b, p1) /\ s3.ball.vel_x < 0
      <4>1. s3 = s2
        BY <1>8, <3>5, OnePaddle, Zenon
      <4>2. PaddleEffect(s1, s2, 0, now[2])
        BY <1>6, <3>5, Zenon
      <4>3. ~Debounced(s1, now[2])
        BY <3>4, <3>5, <4>1, <4>2, Zenon DEF PaddleEffect
      <4>4. s2 = s1
        BY <4>2, <4>3, Zenon DEF PaddleEffect
      <4> QED
        BY <1>1, <1>13, <3>1, <4>1, <4>3, <4>4, Zenon DEF Debounced
    <3>6. CASE rects_overlap(b, p2) /\ s3.ball.vel_x > 0
      <4>1. s2 = s1
        BY <1>6, <3>6, OnePaddle, Zenon
      <4>2. PaddleEffect(s2, s3, screen_width - PADDLE_WIDTH, now[3])
        BY <1>8, <3>6, Zenon
      <4>3. ~Debounced(s2, now[3])
        BY <3>4, <3>6, <4>2, Zenon DEF PaddleEffect
      <4>4. s3 = s2
        BY <4>2, <4>3, Zenon DEF PaddleEffect
      <4> QED
        BY <1>1, <1>13, <3>1, <4>1, <4>3, <4>4, Zenon DEF Debounced
    <3> QED
      BY <3>3, <3>5, <3>6, Zenon
  <2> QED
    BY <2>1, <2>2, Zenon
<1> QED
  BY <1>9, <1>14, <1>15, ZenonT(30) DEF Touched

(* A frame as a whole (pong.c:155-180).                                    *)
LEMMA Updated ==
  ASSUME NEW b \in Balls, last_event \in Int, score \in Scores, serves \in Int,
         NEW p1 \in Paddles(0), NEW p2 \in Paddles(screen_width - PADDLE_WIDTH),
         NEW vx \in Int, NEW vy \in Int, NEW now \in [1..4 -> Int]
  PROVE  UpdateEffect(pong_update(p1, p2, b, vx, vy, now), p1, p2, b, now)
<1> DEFINE s1 == IF AtWall(b) THEN pong_on_wall_hit(Start(b), now[1]) ELSE Start(b)
           s2 == IF rects_overlap(s1.ball, p1) THEN pong_on_player_hit(s1, p1, now[2]) ELSE s1
           s3 == IF rects_overlap(s2.ball, p2) THEN pong_on_player_hit(s2, p2, now[3]) ELSE s2
           s4 == IF s3.ball.x + s3.ball.width <= 0 THEN pong_on_score(s3, 1, vx, vy, now[4]) ELSE s3
           s5 == IF s4.ball.x - s4.ball.width >= screen_width
                 THEN pong_on_score(s4, 2, vx, vy, now[4]) ELSE s4
<1>1. pong_update(p1, p2, b, vx, vy, now) = s5
  BY Zenon DEF pong_update, Start
<1>2. now[4] \in Int /\ 1 \in 1 .. 2 /\ 2 \in 1 .. 2 /\ 4 \in 1 .. 4
  OBVIOUS
<1>3. s1 = (IF AtWall(b) THEN pong_on_wall_hit(Start(b), now[1]) ELSE Start(b))
  BY Zenon
<1> HIDE DEF s1
<1>4. s2 = (IF rects_overlap(s1.ball, p1) THEN pong_on_player_hit(s1, p1, now[2]) ELSE s1)
  BY Zenon
<1> HIDE DEF s2
<1>5. s3 = (IF rects_overlap(s2.ball, p2) THEN pong_on_player_hit(s2, p2, now[3]) ELSE s2)
  BY Zenon
<1> HIDE DEF s3
<1>6. Touched(s3, p1, p2, b, now)
  BY <1>3, <1>4, <1>5, WallAndPaddles, Zenon
<1>12. s3 \in Handled /\ s3.score = score /\ s3.serves = serves
  BY <1>6, Zenon DEF Touched
<1>7. s4 = s3 \/ ScoreEffect(s3, s4, 1, now[4])
  BY <1>2, <1>12, Scored, Zenon
<1> HIDE DEF s4
<1>8. \/ s4 = s3
      \/ /\ s4 \in Handled /\ InMiddle(s4.ball) /\ s4.event = now[4]
         /\ s4.score = [score EXCEPT ![1] = @ + 1] /\ s4.serves = serves + 1
  BY <1>7, <1>12, Zenon DEF ScoreEffect
<1>9. s5 = s4 \/ (ScoreEffect(s4, s5, 2, now[4]) /\ s4.ball.x - s4.ball.width >= screen_width)
  BY <1>2, <1>8, <1>12, Scored, Zenon
<1> HIDE DEF s5
<1>10. \/ s5 = s3
       \/ /\ s5 \in Handled /\ InMiddle(s5.ball) /\ s5.event = now[4]
          /\ \E p \in {1, 2} : s5.score = [score EXCEPT ![p] = @ + 1]
          /\ s5.serves = serves + 1
  <2>1. CASE s4 = s3
    BY <1>9, <1>12, <2>1, Zenon DEF ScoreEffect
  <2>2. CASE s4 # s3
    <3>1. /\ s4 \in Handled /\ InMiddle(s4.ball) /\ s4.event = now[4]
          /\ s4.score = [score EXCEPT ![1] = @ + 1] /\ s4.serves = serves + 1
      BY <1>8, <2>2, Zenon
    <3>2. ~(s4.ball.x - s4.ball.width >= screen_width)
      BY <3>1, HandledTyped, MiddleIsClear, Zenon
    <3> QED
      BY <1>9, <3>1, <3>2, Zenon
  <2> QED
    BY <2>1, <2>2, Zenon
<1>11. UpdateEffect(s5, p1, p2, b, now)
  <2>1. CASE s5 = s3
    BY <1>6, <2>1, Zenon DEF UpdateEffect, Touched
  <2>2. CASE s5 # s3
    <3>1. /\ s5 \in Handled /\ InMiddle(s5.ball) /\ s5.event = now[4]
          /\ \E p \in {1, 2} : s5.score = [score EXCEPT ![p] = @ + 1]
          /\ s5.serves = serves + 1
      BY <1>10, <2>2, Zenon
    <3>2. ~Unturned(s5.ball, p1, p2)
      BY <3>1, HandledTyped, MiddleIsClear, Zenon
    <3> QED
      BY <1>2, <3>1, <3>2, Zenon DEF UpdateEffect
  <2> QED
    BY <2>1, <2>2, Zenon
<1> QED
  BY <1>1, <1>11, Zenon

(* Objects move by whole pixels (pong.c:155-160).                          *)
LEMMA MovedBall ==
  ASSUME NEW b \in Balls, NEW d \in Int
  PROVE  Moved(b, d) \in Balls
<1> DEFINE mx == b.x + Quot(b.vel_x * d, 1000)
           my == b.y + Quot(b.vel_y * d, 1000)
           b1 == [b EXCEPT !.x = mx]
<1>1. Moved(b, d) = [b1 EXCEPT !.y = my]
  BY Zenon DEF Moved
<1>2. b.x \in Int /\ b.y \in Int /\ b.vel_x * d \in Int /\ b.vel_y * d \in Int
  BY DEF Balls, Obj
<1>3. Quot(b.vel_x * d, 1000) \in Int /\ Quot(b.vel_y * d, 1000) \in Int
  BY <1>2, Quotient
<1>4. mx \in Int /\ my \in Int
  BY <1>2, <1>3
<1> HIDE DEF mx, my
<1>5. b1 \in Balls
  BY <1>4, NewPlace, Zenon
<1> HIDE DEF b1
<1> QED
  BY <1>1, <1>4, <1>5, NewPlace, Zenon

(* A paddle moves up and down.                                             *)
LEMMA MovedPaddle ==
  ASSUME NEW x \in Int, NEW p \in Paddles(x), NEW v \in Int, NEW d \in Int
  PROVE  Moved([p EXCEPT !.vel_y = v], d) \in Paddles(x)
<1> DEFINE q == [p EXCEPT !.vel_y = v]
           mx == q.x + Quot(q.vel_x * d, 1000)
           my == q.y + Quot(q.vel_y * d, 1000)
           q1 == [q EXCEPT !.x = mx]
<1>1. Moved(q, d) = [q1 EXCEPT !.y = my]
  BY Zenon DEF Moved
<1>2. q \in Paddles(x)
  BY Zenon DEF Paddles, Obj
<1> HIDE DEF q
<1>3. q.x = x /\ q.y \in Int /\ q.vel_x * d = 0 /\ q.vel_y * d \in Int
  BY <1>2 DEF Paddles, Obj
<1>4. Quot(q.vel_x * d, 1000) = 0 /\ Quot(q.vel_y * d, 1000) \in Int
  BY <1>3, Quotient
<1>5. mx = x /\ my \in Int
  BY <1>3, <1>4
<1> HIDE DEF mx, my
<1>6. q1 \in Paddles(x)
  BY <1>2, <1>5, Zenon DEF Paddles, Obj
<1> HIDE DEF q1
<1>7. [q1 EXCEPT !.y = my] \in Paddles(x)
  BY <1>5, <1>6, Zenon DEF Paddles, Obj
<1> QED
  BY <1>1, <1>7, Zenon DEF q

(* Division with remainder.                                                *)
LEMMA Remains ==
  ASSUME NEW w \in Nat \ {0}, NEW a \in Int
  PROVE  a = w * (a \div w) + (a % w) /\ a % w \in 0 .. w - 1 /\ a \div w \in Int
OBVIOUS

(* The remainder is the only one.                                          *)
LEMMA OnlyRemainder ==
  ASSUME NEW w \in Nat \ {0}, NEW q \in Int, NEW r \in 0 .. w - 1
  PROVE  (w * q + r) % w = r
OBVIOUS

(* As long as it does not go round, the clock tells how much later it is   *)
(* than at an event.                                                       *)
LEMMA Later ==
  ASSUME NEW w \in Nat \ {0}, NEW u \in Int, NEW e \in Int, NEW n \in Nat,
         ((u - e) % w) + n < w
  PROVE  (((u + n) % w) - e) % w = ((u - e) % w) + n
<1> DEFINE a == (u - e) % w
           q == (u - e) \div w
           c == (u + n) % w
           k == (u + n) \div w
<1>1. u - e = w * q + a /\ a \in 0 .. w - 1 /\ q \in Int
  <2>1. u - e \in Int
    OBVIOUS
  <2> QED
    BY <2>1, Remains, Zenon
<1>2. u + n = w * k + c /\ c \in 0 .. w - 1 /\ k \in Int
  <2>1. u + n \in Int
    OBVIOUS
  <2> QED
    BY <2>1, Remains, Zenon
<1>3. a + n < w
  BY Zenon
<1> HIDE DEF a, q, c, k
<1>4. w * (q - k) = w * q - w * k
  BY <1>1, <1>2
<1>5. c - e = w * (q - k) + (a + n) /\ a + n \in 0 .. w - 1 /\ q - k \in Int
  BY <1>1, <1>2, <1>3, <1>4
<1>6. (c - e) % w = a + n
  BY <1>5, OnlyRemainder, Zenon
<1> QED
  BY <1>6, Zenon DEF a, c

(* An event during a frame is at most a frame ago at its end.              *)
LEMMA SinceEvent ==
  ASSUME NEW w \in Nat \ {0}, NEW u \in Int, NEW n \in Nat, NEW m \in Nat, m <= n, n < w
  PROVE  (((u + n) % w) - ((u + m) % w)) % w = n - m
<1> DEFINE c == (u + n) % w
           k == (u + n) \div w
           d == (u + m) % w
           j == (u + m) \div w
<1>1. u + n = w * k + c /\ c \in 0 .. w - 1 /\ k \in Int
  <2>1. u + n \in Int
    OBVIOUS
  <2> QED
    BY <2>1, Remains, Zenon
<1>2. u + m = w * j + d /\ d \in 0 .. w - 1 /\ j \in Int
  <2>1. u + m \in Int
    OBVIOUS
  <2> QED
    BY <2>1, Remains, Zenon
<1> HIDE DEF c, k, d, j
<1>3. w * (j - k) = w * j - w * k
  BY <1>1, <1>2
<1>4. c - d = w * (j - k) + (n - m) /\ n - m \in 0 .. w - 1 /\ j - k \in Int
  BY <1>1, <1>2, <1>3
<1>5. (c - d) % w = n - m
  BY <1>4, OnlyRemainder, Zenon
<1> QED
  BY <1>5, Zenon DEF c, d

(* The longest frame.                                                      *)
Longest == CHOOSE long \in Frames :
             /\ \A length \in Frames : length <= long
             /\ Since(StartTicks, PastEvent) + (MaxFrames + 1) * long < W

(* The time that the frames after the n-th may take, and one more.         *)
Left(n) == (MaxFrames - n + 1) * Longest

(* How long ago the last event was when a frame begins.                    *)
Age == Since(ticks, last_event)

(* The inductive invariant.  A ball that flies into what it has hit was    *)
(* let through by the debounce, which is over by the next frame.           *)
PongInv ==
  /\ player1 \in Paddles(0) /\ player2 \in Paddles(screen_width - PADDLE_WIDTH)
  /\ ball \in Balls /\ score \in Scores /\ serves \in Int
  /\ stuck \in 0 .. 1 /\ frames \in 0 .. MaxFrames
  /\ ticks \in 0 .. W - 1 /\ last \in 0 .. W - 1 /\ last_event \in 0 .. W - 1
  /\ Age + Left(frames) < W
  /\ stuck > 0 => Age >= EVENT_DEBOUNCE_TICKS

(* There is a longest frame.                                               *)
LEMMA LongestIs ==
  /\ Longest \in Nat /\ \A length \in Frames : length \in Nat /\ length <= Longest
  /\ Since(StartTicks, PastEvent) + (MaxFrames + 1) * Longest < W
<1>1. /\ Longest \in Frames /\ \A length \in Frames : length <= Longest
      /\ Since(StartTicks, PastEvent) + (MaxFrames + 1) * Longest < W
  BY PongAssumption, Zenon DEF Longest, W
<1>2. \A length \in Frames : length \in Nat
  BY PongAssumption, Zenon
<1> QED
  BY <1>1, <1>2, Zenon

(* A frame uses up one.                                                    *)
LEMMA FrameLeft ==
  ASSUME NEW n \in 0 .. MaxFrames, n < MaxFrames
  PROVE  /\ Left(n) \in Nat /\ Left(n + 1) \in Nat
         /\ Left(n) = Left(n + 1) + Longest /\ Left(n + 1) >= Longest
<1> DEFINE k == MaxFrames - n
<1>1. k \in Nat \ {0} /\ MaxFrames - n + 1 = k + 1 /\ MaxFrames - (n + 1) + 1 = k
  BY PongConstants
<1>2. Longest \in Nat
  BY LongestIs, Zenon
<1> HIDE DEF k
<1>3. (k + 1) * Longest = k * Longest + Longest /\ k * Longest >= Longest /\ k * Longest \in Nat
  BY <1>1, <1>2
<1>4. Left(n) = (k + 1) * Longest /\ Left(n + 1) = k * Longest
  BY <1>1, Zenon DEF Left
<1> QED
  BY <1>2, <1>3, <1>4

(* Time passes in a frame that no event ends.                              *)
LEMMA AgeGrows ==
  ASSUME PongInv, frames < MaxFrames, NEW n \in Nat, n <= Longest
  PROVE  /\ Age \in 0 .. W - 1 /\ Age + n + Left(frames + 1) < W
         /\ Since((ticks + n) % W, last_event) = Age + n
<1>1. Age = (ticks - last_event) % W
  BY Zenon DEF Age, Since, W
<1>2. ticks \in Int /\ last_event \in Int /\ W \in Nat \ {0} /\ Longest \in Nat
  BY PongConstants, LongestIs DEF PongInv
<1>3. ticks - last_event \in Int
  BY <1>2
<1>4. Age \in 0 .. W - 1
  BY <1>1, <1>2, <1>3, Remains, Zenon
<1>5. /\ Age + Left(frames) < W /\ Left(frames) = Left(frames + 1) + Longest
      /\ Left(frames + 1) \in Nat
  BY FrameLeft, Zenon DEF PongInv
<1>6. Age + n + Left(frames + 1) < W /\ Age + n < W
  BY <1>2, <1>4, <1>5
<1>7. (((ticks + n) % W) - last_event) % W = ((ticks - last_event) % W) + n
  BY <1>1, <1>2, <1>6, Later, ZenonT(30)
<1> QED
  BY <1>1, <1>4, <1>6, <1>7, Zenon DEF Since, W

(* The clock starts again at an event.                                     *)
LEMMA AgeRestarts ==
  ASSUME PongInv, frames < MaxFrames, NEW n \in Nat, n <= Longest, NEW m \in Nat, m <= n
  PROVE  /\ Since((ticks + n) % W, (ticks + m) % W) = n - m
         /\ n - m + Left(frames + 1) < W
<1>1. ticks \in Int /\ W \in Nat \ {0} /\ Longest \in Nat
  BY PongConstants, LongestIs DEF PongInv
<1>2. Age \in 0 .. W - 1
  BY AgeGrows, Zenon
<1>3. /\ Age + Left(frames) < W /\ Left(frames) = Left(frames + 1) + Longest
      /\ Left(frames + 1) \in Nat
  BY FrameLeft, Zenon DEF PongInv
<1>4. n - m + Left(frames + 1) < W /\ n < W
  BY <1>1, <1>2, <1>3
<1>5. (((ticks + n) % W) - ((ticks + m) % W)) % W = n - m
  <2>1. n < W
    BY <1>4, Zenon
  <2> QED
    BY <1>1, <2>1, SinceEvent, ZenonT(60)
<1> QED
  BY <1>4, <1>5, Zenon DEF Since, W

(* What one frame does, with the choices it is made of named.              *)
FrameIs(p1, p2, b, s, lag, length) ==
  /\ length \in Nat /\ length <= Longest /\ length >= PONG_FRAME_MS
  /\ lag \in [1..4 -> Nat] /\ \A i \in 1 .. 4 : lag[i] <= length
  /\ p1 \in Paddles(0) /\ p2 \in Paddles(screen_width - PADDLE_WIDTH)
  /\ UpdateEffect(s, p1, p2, b, [i \in 1..4 |-> (ticks + lag[i]) % W])
  /\ frames < MaxFrames /\ frames' = frames + 1
  /\ player1' = p1 /\ player2' = p2 /\ ball' = s.ball /\ score' = s.score
  /\ last_event' = s.event /\ serves' = s.serves
  /\ stuck' = IF Unturned(s.ball, p1, p2) /\ ~(AtWall(b) /\ s.hits > 0) THEN stuck + 1 ELSE 0
  /\ last' = ticks /\ ticks' = (ticks + length) % W

(* The step of the game is such a frame (pong.c:186-215).                  *)
LEMMA FrameStep ==
  ASSUME PongInv, pong_frame
  PROVE  \E p1, p2, b, s, lag, length : FrameIs(p1, p2, b, s, lag, length)
<1>1. PICK keys \in KeySets, length \in Frames, vx \in Serves, vy \in Serves :
        \E lag \in Readings(length) : play(keys, length, lag, vx, vy)
  BY Zenon DEF pong_frame
<1>2. PICK lag \in Readings(length) : play(keys, length, lag, vx, vy)
  BY <1>1, Zenon
<1>3. frames < MaxFrames /\ frames' = frames + 1
  BY Zenon DEF pong_frame
<1>4. length \in Nat /\ length <= Longest /\ vx \in Int /\ vy \in Int
  BY LongestIs, PongAssumption, Zenon
<1>5. lag \in [1..4 -> Nat] /\ \A i \in 1 .. 4 : lag[i] <= length
  <2>1. lag \in [1..4 -> Nat]
    BY PongAssumption, Zenon DEF Readings
  <2>2. lag[1] <= lag[2] /\ lag[2] <= lag[3] /\ lag[3] <= lag[4] /\ lag[4] <= length
    BY Zenon DEF Readings
  <2> QED
    BY <1>4, <2>1, <2>2
<1> DEFINE delta == Since(ticks, last)
           p1 == Moved(pong_handle_input(player1, keys, "w", "s"), delta)
           p2 == Moved(pong_handle_input(player2, keys, "up", "down"), delta)
           b == Moved(ball, delta)
           now == [i \in 1..4 |-> (ticks + lag[i]) % W]
           s == pong_update(p1, p2, b, vx, vy, now)
<1>6. /\ length >= PONG_FRAME_MS
      /\ player1' = p1 /\ player2' = p2 /\ ball' = s.ball /\ score' = s.score
      /\ last_event' = s.event /\ serves' = s.serves
      /\ stuck' = (IF Unturned(s.ball, p1, p2) /\ ~(AtWall(b) /\ s.hits > 0) THEN stuck + 1 ELSE 0)
      /\ last' = ticks /\ ticks' = (ticks + length) % W
  BY <1>2, Zenon DEF play, W
<1>7. delta \in Int
  <2>1. ticks - last \in Int /\ W \in Nat \ {0}
    BY PongConstants DEF PongInv
  <2>2. (ticks - last) % W \in Int
    <3> HIDE DEF W
    <3> QED
      BY <2>1
  <2> QED
    BY <2>2, Zenon DEF Since, W
<1> HIDE DEF delta
<1>8. p1 \in Paddles(0) /\ p2 \in Paddles(screen_width - PADDLE_WIDTH)
  <2>1. 0 \in Int /\ screen_width - PADDLE_WIDTH \in Int
    BY PongConstants
  <2>2. Velocity(keys, "w", "s") \in Int /\ Velocity(keys, "up", "down") \in Int
    BY PongConstants DEF Velocity
  <2> QED
    BY <1>7, <2>1, <2>2, MovedPaddle, Zenon DEF pong_handle_input, PongInv
<1>9. b \in Balls
  BY <1>7, MovedBall, Zenon DEF PongInv
<1>10. now \in [1..4 -> Int]
  <2>1. ASSUME NEW i \in 1 .. 4 PROVE (ticks + lag[i]) % W \in Int
    <3>1. ticks + lag[i] \in Int /\ W \in Nat \ {0}
      BY <1>5, PongConstants DEF PongInv
    <3> HIDE DEF W
    <3> QED
      BY <3>1
  <2> QED
    BY <2>1, Zenon
<1> HIDE DEF p1, p2, b, now
<1>11. UpdateEffect(s, p1, p2, b, now)
  <2>1. last_event \in Int /\ score \in Scores /\ serves \in Int
    BY PongConstants DEF PongInv
  <2> QED
    BY <1>4, <1>8, <1>9, <1>10, <2>1, Updated, ZenonT(30)
<1> HIDE DEF s
<1>12. FrameIs(p1, p2, b, s, lag, length)
  BY <1>3, <1>4, <1>5, <1>6, <1>8, <1>11, Zenon DEF FrameIs, now
<1> QED
  BY <1>12, Zenon

(* The invariant is kept.                                                  *)
LEMMA PongStep ==
  PongInv /\ [pong_frame]_pvars => PongInv'
<1> SUFFICES ASSUME PongInv, [pong_frame]_pvars PROVE PongInv'
  BY Zenon
<1>1. CASE UNCHANGED pvars
  BY <1>1, Zenon DEF PongInv, pvars, Age, Since
<1>2. CASE pong_frame
  <2>1. PICK p1, p2, b, s, lag, length : FrameIs(p1, p2, b, s, lag, length)
    BY <1>2, FrameStep, Zenon
  <2> DEFINE now == [i \in 1..4 |-> (ticks + lag[i]) % W]
  <2>2. /\ length \in Nat /\ length <= Longest /\ length >= PONG_FRAME_MS
        /\ lag \in [1..4 -> Nat] /\ \A i \in 1 .. 4 : lag[i] <= length
        /\ p1 \in Paddles(0) /\ p2 \in Paddles(screen_width - PADDLE_WIDTH)
        /\ UpdateEffect(s, p1, p2, b, now)
        /\ frames < MaxFrames /\ frames' = frames + 1
    BY <2>1, Zenon DEF FrameIs
  <2>3. /\ player1' = p1 /\ player2' = p2 /\ ball' = s.ball /\ score' = s.score
        /\ last_event' = s.event /\ serves' = s.serves
        /\ stuck' = (IF Unturned(s.ball, p1, p2) /\ ~(AtWall(b) /\ s.hits > 0) THEN stuck + 1 ELSE 0)
        /\ last' = ticks /\ ticks' = (ticks + length) % W
    BY <2>1, Zenon DEF FrameIs
  <2>4. \A i \in 1 .. 4 : now[i] = (ticks + lag[i]) % W /\ lag[i] \in Nat /\ lag[i] <= Longest
    BY <2>2, LongestIs
  <2> HIDE DEF now
  <2>5. \A u \in Int : u % W \in 0 .. W - 1
    BY PongConstants, Remains, Zenon
  <2>6. \A n \in Nat : ticks + n \in Int
    BY PongConstants DEF PongInv
  <2>7. s \in Handled /\ (s.event = last_event \/ \E i \in 1 .. 4 : s.event = now[i])
    BY <2>2, Zenon DEF UpdateEffect
  <2>8. /\ player1' \in Paddles(0) /\ player2' \in Paddles(screen_width - PADDLE_WIDTH)
        /\ ball' \in Balls /\ score' \in Scores /\ serves' \in Int
    BY <2>2, <2>3, <2>7, HandledTyped, ZenonT(30)
  <2>9. frames' \in 0 .. MaxFrames
    BY <2>2, PongConstants DEF PongInv
  <2>10. /\ ticks' \in 0 .. W - 1 /\ last' \in 0 .. W - 1 /\ last_event' \in 0 .. W - 1
    <3>1. ticks' \in 0 .. W - 1 /\ \A i \in 1 .. 4 : now[i] \in 0 .. W - 1
      BY <2>2, <2>3, <2>4, <2>5, <2>6, Zenon
    <3> QED
      BY <2>3, <2>7, <3>1, Zenon DEF PongInv
  <2>11. Age' = Since((ticks + length) % W, s.event)
    BY <2>3, Zenon DEF Age, Since
  <2>12. CASE s.event = last_event
    <3>1. /\ Age \in 0 .. W - 1 /\ Age + length + Left(frames + 1) < W
          /\ Since((ticks + length) % W, last_event) = Age + length
      BY <2>2, AgeGrows, Zenon
    <3>2. Age' = Age + length
      BY <2>11, <2>12, <3>1, Zenon
    <3>3. (Age + Left(frames) < W)'
      BY <2>2, <3>1, <3>2, Zenon DEF Left
    <3>4. Age' >= EVENT_DEBOUNCE_TICKS
      BY <2>2, <3>1, <3>2, PongConstants
    <3>5. stuck' \in 0 .. 1
      <4>1. CASE Unturned(s.ball, p1, p2) /\ ~(AtWall(b) /\ s.hits > 0)
        <5>1. PICK i \in 1 .. 4 : ~(Since(now[i], last_event) >= EVENT_DEBOUNCE_TICKS)
          BY <2>2, <4>1, Zenon DEF UpdateEffect
        <5>2. Since(now[i], last_event) = Age + lag[i]
          BY <2>2, <2>4, AgeGrows, Zenon
        <5>3. ~(Age + lag[i] >= EVENT_DEBOUNCE_TICKS) /\ lag[i] \in Nat
          BY <2>4, <5>1, <5>2, Zenon
        <5>4. ~(Age >= EVENT_DEBOUNCE_TICKS)
          BY <3>1, <5>3, PongConstants
        <5>5. stuck \in 0 .. 1 /\ ~(stuck > 0)
          BY <5>4, Zenon DEF PongInv
        <5>6. stuck' = stuck + 1
          BY <2>3, <4>1, Zenon
        <5> QED
          BY <5>5, <5>6
      <4>2. CASE ~(Unturned(s.ball, p1, p2) /\ ~(AtWall(b) /\ s.hits > 0))
        <5>1. stuck' = 0
          BY <2>3, <4>2, Zenon
        <5> QED
          BY <5>1
      <4> QED
        BY <4>1, <4>2, Zenon
    <3> QED
      BY <2>8, <2>9, <2>10, <3>3, <3>4, <3>5, Zenon DEF PongInv
  <2>13. CASE s.event # last_event
    <3>1. PICK i \in 1 .. 4 : s.event = now[i]
      BY <2>7, <2>13, Zenon
    <3>2. /\ Since((ticks + length) % W, (ticks + lag[i]) % W) = length - lag[i]
          /\ length - lag[i] + Left(frames + 1) < W
      BY <2>2, <2>4, AgeRestarts, Zenon
    <3>3. Age' = length - lag[i]
      BY <2>4, <2>11, <3>1, <3>2, Zenon
    <3>4. (Age + Left(frames) < W)'
      BY <2>2, <3>2, <3>3, Zenon DEF Left
    <3>5. stuck' = 0
      BY <2>2, <2>3, <2>13, Zenon DEF UpdateEffect
    <3>6. stuck' \in 0 .. 1 /\ ~(stuck' > 0)
      BY <3>5
    <3> QED
      BY <2>8, <2>9, <2>10, <3>4, <3>6, Zenon DEF PongInv
  <2> QED
    BY <2>12, <2>13, Zenon
<1> QED
  BY <1>1, <1>2, Zenon

(* A rectangle is clipped to the screen (graphics.c).                      *)
LEMMA FillInside ==
  ASSUME NEW x0 \in Int, NEW y0 \in Int, NEW x1 \in Int, NEW y1 \in Int,
         NEW r \in gfx_fill_rect(x0, y0, x1, y1)
  PROVE  r.x0 >= 0 /\ r.y0 >= 0 /\ r.x1 < screen_width /\ r.y1 < screen_height
<1>1. /\ r.x0 = Most(x0, 0) /\ r.y0 = Most(y0, 0)
      /\ r.x1 = Least(x1, screen_width - 1) /\ r.y1 = Least(y1, screen_height - 1)
  BY DEF gfx_fill_rect
<1> QED
  BY <1>1, PongConstants, SMTT(30) DEF Most, Least

(* Whatever the objects' places, nothing is drawn outside (pong.c:233-268).*)
LEMMA AllDrawnInside ==
  ASSUME PongInv
  PROVE  DrawnInside
<1> DEFINE Inside(r) == r.x0 >= 0 /\ r.y0 >= 0 /\ r.x1 < screen_width /\ r.y1 < screen_height
<1>1. ASSUME NEW o \in Obj, NEW r \in draw_obj(o) PROVE Inside(r)
  <2>1. o.x \in Int /\ o.y \in Int /\ o.x + o.width \in Int /\ o.y + o.height \in Int
    BY DEF Obj
  <2> QED
    BY <1>1, <2>1, FillInside, Zenon DEF draw_obj
<1>2. ASSUME NEW x \in Int, NEW y \in Int, NEW r \in draw_score(x, y) PROVE Inside(r)
  <2>1. PICK row \in 0..6, col \in 0..4 :
          r \in gfx_fill_rect(x + col * FONT_SCALE, y + row * FONT_SCALE,
                              x + (col + 1) * FONT_SCALE, y + (row + 1) * FONT_SCALE)
    BY <1>2 DEF draw_score
  <2>2. /\ x + col * FONT_SCALE \in Int /\ y + row * FONT_SCALE \in Int
        /\ x + (col + 1) * FONT_SCALE \in Int /\ y + (row + 1) * FONT_SCALE \in Int
    BY DEF FONT_SCALE
  <2> QED
    BY <2>1, <2>2, FillInside, Zenon
<1>3. ASSUME NEW r \in draw_net PROVE Inside(r)
  <2>1. PICK i \in 0 .. screen_height - 1 :
          r \in gfx_fill_rect(screen_width \div 2 - NET_WIDTH \div 2, i,
                              screen_width \div 2 + NET_WIDTH \div 2, i + NET_HEIGHT)
    BY <1>3, Zenon DEF draw_net
  <2>2. /\ screen_width \div 2 - NET_WIDTH \div 2 \in Int /\ i \in Int
        /\ screen_width \div 2 + NET_WIDTH \div 2 \in Int /\ i + NET_HEIGHT \in Int
    BY PongConstants DEF NET_WIDTH, NET_HEIGHT
  <2> QED
    BY <2>1, <2>2, FillInside, Zenon
<1>4. player1 \in Obj /\ player2 \in Obj /\ ball \in Obj
  BY Zenon DEF PongInv, Paddles, Balls
<1>5. /\ screen_width \div 4 - (5 * FONT_SCALE) \div 2 \in Int
      /\ (3 * screen_width) \div 4 - (5 * FONT_SCALE) \div 2 \in Int /\ 20 \in Int
  BY PongConstants DEF FONT_SCALE
<1> QED
  BY <1>1, <1>2, <1>3, <1>4, <1>5, Zenon DEF DrawnInside, pong_draw

(* The game starts in such a state (pong.c:49-75, 186-195).                *)
LEMMA PongStarts == PInit => PongInv
<1> SUFFICES ASSUME PInit PROVE PongInv
  BY Zenon
<1>1. /\ \E y1, y2 \in {Middle} \cup PastRows :
           player1 = Paddle(0, y1) /\ player2 = Paddle(screen_width - PADDLE_WIDTH, y2)
      /\ \E vx, vy \in Serves : ball = reset(Ball, vx, vy)
      /\ score = <<0, 0>> /\ serves = 1
      /\ ticks = StartTicks /\ last = StartTicks /\ last_event = PastEvent
      /\ stuck = 0 /\ frames = 0
  BY Zenon DEF PInit
<1>2. player1 \in Paddles(0) /\ player2 \in Paddles(screen_width - PADDLE_WIDTH)
  <2>1. ASSUME NEW x \in Int, NEW y \in Int PROVE Paddle(x, y) \in Paddles(x)
    <3>1. PADDLE_WIDTH \in Int /\ PADDLE_HEIGHT \in Int
      BY PongConstants
    <3> QED
      BY <3>1 DEF Paddles, Paddle, Obj
  <2>2. 0 \in Int /\ screen_width - PADDLE_WIDTH \in Int /\ Middle \in Int
    BY PongConstants DEF Middle
  <2>3. {Middle} \cup PastRows \subseteq Int
    BY <2>2, PongAssumption, Zenon
  <2> QED
    BY <1>1, <2>1, <2>2, <2>3, Zenon
<1>3. ball \in Balls
  <2>1. PICK vx \in Serves, vy \in Serves : ball = reset(Ball, vx, vy)
    BY <1>1, Zenon
  <2> DEFINE mx == screen_width \div 2 - Ball.width \div 2
             my == screen_height \div 2 - Ball.height \div 2
             b1 == [Ball EXCEPT !.x = mx]
             b2 == [b1 EXCEPT !.y = my]
             b3 == [b2 EXCEPT !.vel_x = vx]
  <2>2. ball = [b3 EXCEPT !.vel_y = vy]
    BY <2>1, ZenonT(30) DEF reset
  <2>3. Ball \in Balls /\ mx \in Int /\ my \in Int /\ vx \in Int /\ vy \in Int
    BY PongConstants, PongAssumption DEF Ball, Balls, Obj
  <2> HIDE DEF mx, my
  <2>4. b1 \in Balls
    BY <2>3, NewPlace, Zenon
  <2> HIDE DEF b1
  <2>5. b2 \in Balls
    BY <2>3, <2>4, NewPlace, Zenon
  <2> HIDE DEF b2
  <2>6. b3 \in Balls
    BY <2>3, <2>5, NewSpeeds, Zenon
  <2> HIDE DEF b3
  <2> QED
    BY <2>2, <2>3, <2>6, NewSpeeds, Zenon
<1>4. score \in Scores /\ serves \in Int /\ stuck \in 0 .. 1 /\ frames \in 0 .. MaxFrames
  BY <1>1, PongConstants DEF Scores
<1>5. ticks \in 0 .. W - 1 /\ last \in 0 .. W - 1 /\ last_event \in 0 .. W - 1
  BY <1>1, PongConstants, Zenon
<1>6. Age + Left(frames) < W
  <2>1. MaxFrames - 0 + 1 = MaxFrames + 1
    BY PongConstants
  <2>2. Age = Since(StartTicks, PastEvent) /\ Left(frames) = (MaxFrames + 1) * Longest
    BY <1>1, <2>1, Zenon DEF Age, Left
  <2> QED
    BY <2>2, LongestIs, Zenon
<1>7. ~(stuck > 0)
  BY <1>1
<1> QED
  BY <1>2, <1>3, <1>4, <1>5, <1>6, <1>7, Zenon DEF PongInv

(* However slow the frames, late the events and fast the paddles, the ball *)
(* is turned back by the next frame, and what is drawn is on the screen    *)
(* (pong.c:98-180, 249-268).                                               *)
THEOREM PongStaysInside == PSpec => []PongInside
<1>1. PongInv => PongInside
  <2> SUFFICES ASSUME PongInv PROVE PongInside
    BY Zenon
  <2>1. stuck <= 1
    BY DEF PongInv
  <2> QED
    BY <2>1, AllDrawnInside, Zenon DEF PongInside, BallTurnsBack
<1> QED
  BY <1>1, PongStarts, PongStep, PTL DEF PSpec

(* A point is scored once for a serve, and the next ball is served from    *)
(* the middle (pong.c:137-153, 217-229).                                   *)
THEOREM OnePointPerServe == PSpec => PointPerServe
<1> DEFINE Point == score' # score =>
             /\ \E p \in {1, 2} : score' = [score EXCEPT ![p] = @ + 1]
             /\ serves' = serves + 1
             /\ ball'.x = screen_width \div 2 - BALL_RADIUS \div 2
             /\ ball'.y = screen_height \div 2 - BALL_RADIUS \div 2
<1>1. PongInv /\ [pong_frame]_pvars => [Point]_pvars
  <2> SUFFICES ASSUME PongInv, pong_frame PROVE Point
    BY Zenon
  <2>1. PICK p1, p2, b, s, lag, length : FrameIs(p1, p2, b, s, lag, length)
    BY FrameStep, Zenon
  <2>2. ball' = s.ball /\ score' = s.score /\ serves' = s.serves
    BY <2>1, Zenon DEF FrameIs
  <2>3. \/ s.score = score
        \/ /\ \E p \in {1, 2} : s.score = [score EXCEPT ![p] = @ + 1]
           /\ s.serves = serves + 1 /\ InMiddle(s.ball)
    BY <2>1, Zenon DEF FrameIs, UpdateEffect
  <2> QED
    BY <2>2, <2>3, Zenon DEF InMiddle
<1> QED
  BY <1>1, PongStarts, PongStep, PTL DEF PSpec, PointPerServe
=============================================================================
