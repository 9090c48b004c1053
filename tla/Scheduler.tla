----------------------------- MODULE Scheduler -----------------------------
(***************************************************************************)
(* The multilevel feedback queue scheduler of the x86_64 kernel, together  *)
(* with everything that moves the single CPU from one stack to another:    *)
(* kernel/scheduler/{scheduler,process,lock}.c, ctx_switch() and swtch()   *)
(* (arch/x86_64), the timer interrupt (kernel/time.c) and the IF flag      *)
(* (arch/x86_64/irqflags.c).                                               *)
(*                                                                         *)
(* One CPU executes `task`.  Each process stands at a program point pc[p]; *)
(* only the task moves.  The program points are the places where an        *)
(* interrupt can be taken, or where the spinlock is held.  What a process  *)
(* computes between kernel calls is arbitrary: any process but init may    *)
(* compute forever, fork, yield or exit, and init is the idle loop.        *)
(***************************************************************************)
EXTENDS Integers, Sequences

CONSTANTS
  NUM_PROCESSES,         \* size of the process table    (process.h:9)
  NUM_PRIORITY_LEVELS    \* number of levels of the mlfq (scheduler.h)

ASSUME NumProcessesAssumption == NUM_PROCESSES \in Nat \ {0}
ASSUME NumLevelsAssumption == NUM_PRIORITY_LEVELS \in Nat \ {0}

Slots == 1 .. NUM_PROCESSES
Levels == 0 .. NUM_PRIORITY_LEVELS - 1
NULL == 0          \* no process; as `task`, the throwaway bootstrap_proc
InitProc == 1      \* alloc_process() gives init the first slot of the table

VARIABLES
  state,           \* processes[].state
  mlfq,            \* the run queues, one sequence of processes per level
  mlfq_lock,       \* TRUE while the spinlock is held
  task,            \* cpus[0].task
  scheduler_proc,  \* cpus[0].scheduler_proc
  handler,         \* what vector 32 runs: "tick" or "sched"
  intr,            \* the IF flag
  saved,           \* the IF that irq_save() returned to the code now on the CPU
  context,         \* what processes[].context.sp points at, see Contexts
  pc,              \* where each process stands
  claim, level,    \* scheduler()'s locals p and level
  child, chlevel,  \* fork()'s local child and argument level
  fork_failed,     \* init()'s test a < 0 || b < 0
  fate             \* "ok", "panic", or "wild": control jumped into garbage

cpu_vars == <<task, intr, saved, context>>
boot_vars == <<scheduler_proc, handler>>
turn_vars == <<claim, level>>
fork_vars == <<child, chlevel, fork_failed>>
vars == <<state, mlfq, mlfq_lock, cpu_vars, pc, boot_vars, turn_vars, fork_vars,
          fate>>

States == {"UNUSED", "READY", "RUNNING", "ZOMBIE"}

(* context.sp either points at a frame swtch() can pop, which then resumes *)
(* with IF set ("on") or clear ("off"), or at stack memory that has been   *)
(* reused since the frame was popped ("none").                             *)
Contexts == {"none", "on", "off"}

InitPoints == {"boot", "register", "handoff"}
ForkPoints == {"fork_spin", "fork_unlock"}
ProcPoints == {"unused", "run", "switch", "exit", "dead"} \cup ForkPoints
SchedPoints == {"top", "scan", "scan_unlock", "claimed", "back", "requeue",
                "requeue_unlock"}

(* Every variable stays within its C type's meaningful values: in          *)
(* particular every queued, claimed or running process is a table entry.   *)
TypeOK ==
  /\ state \in [Slots -> States]
  /\ mlfq \in [Levels -> Seq(Slots)]
  /\ mlfq_lock \in BOOLEAN
  /\ task \in Slots \cup {NULL}
  /\ scheduler_proc \in Slots \cup {NULL}
  /\ handler \in {"tick", "sched"}
  /\ intr \in BOOLEAN
  /\ saved \in BOOLEAN
  /\ context \in [Slots -> Contexts]
  /\ pc \in [Slots -> InitPoints \cup ProcPoints \cup SchedPoints]
  /\ claim \in Slots \cup {NULL}
  /\ level \in Levels
  /\ child \in Slots \cup {NULL}
  /\ chlevel \in Levels
  /\ fork_failed \in BOOLEAN
  /\ fate \in {"ok", "panic", "wild"}

-----------------------------------------------------------------------------
(* Helpers                                                                 *)

At(p, point) == fate = "ok" /\ task = p /\ pc[p] = point

Goto(p, point) == pc' = [pc EXCEPT ![p] = point]

(* Mutant: read the flags but forget the cli.                              *)
irq_save_no_cli == saved' = intr /\ UNCHANGED intr

irq_save == saved' = intr /\ intr' = FALSE

(* irq_restore() only ever enables interrupts.                             *)
irq_restore == intr' = (intr \/ saved) /\ UNCHANGED saved

(* ctx_switch() and swtch(): the arguments &old->context.sp and            *)
(* new->context.sp are both evaluated before swtch() saves the outgoing    *)
(* stack pointer, so switching to oneself loads a frame that is already    *)
(* gone.  `resume` is where the outgoing task continues, with the IF it    *)
(* has now.  A zombie that is switched back to panics.                     *)
ctx_switch(new, resume) ==
  IF new = NULL \/ context[new] = "none"
  THEN /\ fate' = "wild"
       /\ UNCHANGED <<cpu_vars, pc>>
  ELSE /\ fate' = IF pc[new] = "dead" THEN "panic" ELSE fate
       /\ task' = new
       /\ context' = [context EXCEPT ![task] = IF intr THEN "on" ELSE "off",
                                     ![new] = "none"]
       /\ intr' = (context[new] = "on")
       /\ Goto(task, resume)
       /\ UNCHANGED saved

FreeSlots == {s \in Slots : state[s] = "UNUSED"}
FirstFree == CHOOSE s \in FreeSlots : \A t \in FreeSlots : s <= t

Queued(p) == \E l \in Levels : \E i \in 1 .. Len(mlfq[l]) : mlfq[l][i] = p

(* Mutant: scan the levels from the wrong end.                             *)
WorstLevel ==
  CHOOSE l \in {k \in Levels : mlfq[k] # << >>} :
    \A k \in Levels : mlfq[k] # << >> => k <= l

(* The highest priority level that has a process on it.                    *)
NonEmpty == {l \in Levels : mlfq[l] # << >>}
BestLevel == CHOOSE l \in NonEmpty : \A k \in NonEmpty : l <= k

(* sched_enqueue() once its caller has interrupts off: panic on a bad      *)
(* level, spin for the lock, append.                                       *)
sched_enqueue(p, l) ==
  IF l \notin Levels
  THEN fate' = "panic" /\ UNCHANGED <<mlfq, mlfq_lock>>
  ELSE /\ ~mlfq_lock
       /\ mlfq_lock' = TRUE
       /\ mlfq' = [mlfq EXCEPT ![l] = Append(@, p)]
       /\ UNCHANGED fate

(* Mutant: never demote.                                                   *)
demote_never(l) == l

demote(l) == IF l + 1 < NUM_PRIORITY_LEVELS THEN l + 1 ELSE l

-----------------------------------------------------------------------------
(* Boot: init_scheduler(), init_process() and init().                      *)

Init ==
  /\ state = [s \in Slots |-> "UNUSED"]
  /\ mlfq = [l \in Levels |-> << >>]
  /\ mlfq_lock = FALSE
  /\ task = NULL
  /\ scheduler_proc = NULL
  /\ handler = "tick"
  /\ intr = TRUE
  /\ saved = TRUE
  /\ context = [s \in Slots |-> "none"]
  /\ pc = [s \in Slots |-> "unused"]
  /\ claim = NULL
  /\ level = 0
  /\ child = NULL
  /\ chlevel = 0
  /\ fork_failed = FALSE
  /\ fate = "ok"

(* init is put on the lowest level and switched to directly, so it runs    *)
(* while it is queued until it first hands the CPU over.                   *)
init_process ==
  /\ fate = "ok" /\ task = NULL
  /\ state' = [state EXCEPT ![InitProc] = "RUNNING"]
  /\ mlfq' = [mlfq EXCEPT ![NUM_PRIORITY_LEVELS - 1] = Append(@, InitProc)]
  /\ task' = InitProc
  /\ Goto(InitProc, "boot")
  /\ UNCHANGED <<mlfq_lock, boot_vars, intr, saved, context, turn_vars,
                 fork_vars, fate>>

(* Mutant: forget to publish the scheduler process in cpus[0].             *)
init_scheduler_proc_unpublished ==
  /\ At(InitProc, "boot") /\ ~fork_failed /\ FreeSlots # {}
  /\ state' = [state EXCEPT ![FirstFree] = "READY"]
  /\ context' = [context EXCEPT ![FirstFree] = "on"]
  /\ pc' = [pc EXCEPT ![FirstFree] = "top", ![InitProc] = "register"]
  /\ UNCHANGED <<mlfq, mlfq_lock, task, intr, saved, boot_vars, turn_vars,
                 fork_vars, fate>>

(* init, after its forks: panic if one failed, allocate the scheduler      *)
(* process, whose first frame enters forkret() and so enables interrupts,  *)
(* and publish it as cpus[0].scheduler_proc.                               *)
init_scheduler_proc ==
  /\ At(InitProc, "boot")
  /\ IF fork_failed \/ FreeSlots = {}
     THEN /\ fate' = "panic"
          /\ UNCHANGED <<state, context, pc, scheduler_proc>>
     ELSE /\ state' = [state EXCEPT ![FirstFree] = "READY"]
          /\ context' = [context EXCEPT ![FirstFree] = "on"]
          /\ pc' = [pc EXCEPT ![FirstFree] = "top", ![InitProc] = "register"]
          /\ scheduler_proc' = FirstFree
          /\ UNCHANGED fate
  /\ UNCHANGED <<mlfq, mlfq_lock, task, intr, saved, handler, turn_vars,
                 fork_vars>>

register_interrupt_handler ==
  /\ At(InitProc, "register")
  /\ handler' = "sched"
  /\ Goto(InitProc, "handoff")
  /\ UNCHANGED <<state, mlfq, mlfq_lock, cpu_vars, scheduler_proc, turn_vars,
                 fork_vars, fate>>

init_handoff ==
  /\ At(InitProc, "handoff")
  /\ ctx_switch(scheduler_proc, "run")
  /\ UNCHANGED <<state, mlfq, mlfq_lock, boot_vars, turn_vars, fork_vars>>

-----------------------------------------------------------------------------
(* What a process may ask of the kernel.                                   *)

IsProc(p) == p \in Slots /\ p # scheduler_proc

(* fork(): with interrupts off, claim the first unused slot and give the   *)
(* child a copy of the parent's stack.  The child returns from the same    *)
(* call with the parent's IF.  A full table makes fork() return -1, which  *)
(* only init looks at.  init forks during boot only, the others any time.  *)
fork(p, l) ==
  /\ IsProc(p)
  /\ At(p, IF p = InitProc THEN "boot" ELSE "run")
  /\ IF FreeSlots = {}
     THEN /\ fork_failed' = (fork_failed \/ p = InitProc)
          /\ UNCHANGED <<state, context, pc, child, chlevel, intr, saved>>
     ELSE /\ state' = [state EXCEPT ![FirstFree] = "READY"]
          /\ context' = [context EXCEPT ![FirstFree] = IF intr THEN "on" ELSE "off"]
          /\ pc' = [pc EXCEPT ![FirstFree] = "run", ![p] = "fork_spin"]
          /\ child' = FirstFree
          /\ chlevel' = l
          /\ irq_save
          /\ UNCHANGED fork_failed
  /\ UNCHANGED <<mlfq, mlfq_lock, task, boot_vars, turn_vars, fate>>

(* sched_enqueue(child, level), up to the release of the lock ...          *)
fork_enqueue(p) ==
  /\ At(p, "fork_spin")
  /\ sched_enqueue(child, chlevel)
  /\ Goto(p, "fork_unlock")
  /\ UNCHANGED <<state, cpu_vars, boot_vars, turn_vars, fork_vars>>

(* ... and the return into the parent.                                     *)
fork_return(p) ==
  /\ At(p, "fork_unlock")
  /\ mlfq_lock' = FALSE
  /\ irq_restore
  /\ child' = NULL
  /\ Goto(p, IF p = InitProc THEN "boot" ELSE "run")
  /\ UNCHANGED <<state, mlfq, task, context, boot_vars, turn_vars, chlevel,
                 fork_failed, fate>>

(* yield(): an interrupt can come between marking oneself READY and the    *)
(* switch.                                                                 *)
yield(p) ==
  /\ IsProc(p)
  /\ At(p, "run")
  /\ IF scheduler_proc = NULL
     THEN fate' = "panic" /\ UNCHANGED <<state, pc>>
     ELSE /\ state' = [state EXCEPT ![p] = "READY"]
          /\ Goto(p, "switch")
          /\ UNCHANGED fate
  /\ UNCHANGED <<mlfq, mlfq_lock, cpu_vars, boot_vars, turn_vars, fork_vars>>

yield_switch(p) ==
  /\ At(p, "switch")
  /\ ctx_switch(scheduler_proc, "run")
  /\ UNCHANGED <<state, mlfq, mlfq_lock, boot_vars, turn_vars, fork_vars>>

(* Mutant: init's idle loop may end, and init exit.                        *)
exit_process_init_too(p) ==
  /\ IsProc(p)
  /\ At(p, "run")
  /\ state' = [state EXCEPT ![p] = "ZOMBIE"]
  /\ Goto(p, "exit")
  /\ UNCHANGED <<mlfq, mlfq_lock, cpu_vars, boot_vars, turn_vars, fork_vars,
                 fate>>

(* exit_process(): likewise between becoming a ZOMBIE and the switch.      *)
exit_process(p) ==
  /\ IsProc(p) /\ p # InitProc
  /\ At(p, "run")
  /\ state' = [state EXCEPT ![p] = "ZOMBIE"]
  /\ Goto(p, "exit")
  /\ UNCHANGED <<mlfq, mlfq_lock, cpu_vars, boot_vars, turn_vars, fork_vars,
                 fate>>

exit_switch(p) ==
  /\ At(p, "exit")
  /\ ctx_switch(scheduler_proc, "dead")
  /\ UNCHANGED <<state, mlfq, mlfq_lock, boot_vars, turn_vars, fork_vars>>

(* timer_interrupt_handler_sched(): whoever runs with IF set is suspended  *)
(* where it stands, to be resumed with IF set by the iret, and the CPU is  *)
(* switched to the scheduler -- the scheduler itself included.             *)
timer_interrupt_handler_sched ==
  /\ fate = "ok" /\ task # NULL
  /\ handler = "sched"
  /\ intr
  /\ ctx_switch(scheduler_proc, pc[task])
  /\ UNCHANGED <<state, mlfq, mlfq_lock, boot_vars, turn_vars, fork_vars>>

-----------------------------------------------------------------------------
(* scheduler(): the body of the scheduler process.                         *)

(* sti, then irq_save() before the lock.                                   *)
sched_top(s) ==
  /\ s = scheduler_proc
  /\ At(s, "top")
  /\ saved' = TRUE
  /\ intr' = FALSE
  /\ Goto(s, "scan")
  /\ UNCHANGED <<state, mlfq, mlfq_lock, task, context, boot_vars, turn_vars,
                 fork_vars, fate>>

(* Mutant: remember the level after the one the process was found on.      *)
sched_scan_level_off_by_one(s) ==
  /\ At(s, "scan") /\ ~mlfq_lock /\ NonEmpty # {}
  /\ mlfq_lock' = TRUE
  /\ claim' = Head(mlfq[BestLevel])
  /\ level' = BestLevel + 1
  /\ mlfq' = [mlfq EXCEPT ![BestLevel] = Tail(@)]
  /\ Goto(s, "scan_unlock")
  /\ UNCHANGED <<state, cpu_vars, boot_vars, fork_vars, fate>>

(* Take the lock and unlink the oldest process of the best level.          *)
sched_scan(s) ==
  /\ At(s, "scan")
  /\ ~mlfq_lock
  /\ mlfq_lock' = TRUE
  /\ IF NonEmpty = {}
     THEN /\ claim' = NULL
          /\ level' = 0
          /\ UNCHANGED mlfq
     ELSE /\ claim' = Head(mlfq[BestLevel])
          /\ level' = BestLevel
          /\ mlfq' = [mlfq EXCEPT ![BestLevel] = Tail(@)]
  /\ Goto(s, "scan_unlock")
  /\ UNCHANGED <<state, cpu_vars, boot_vars, fork_vars, fate>>

(* Release the lock and interrupts; with nothing to run, look again.       *)
sched_unlock(s) ==
  /\ At(s, "scan_unlock")
  /\ mlfq_lock' = FALSE
  /\ irq_restore
  /\ Goto(s, IF claim = NULL THEN "top" ELSE "claimed")
  /\ UNCHANGED <<state, mlfq, task, context, boot_vars, turn_vars, fork_vars,
                 fate>>

sched_dispatch(s) ==
  /\ At(s, "claimed")
  /\ state' = [state EXCEPT ![claim] = "RUNNING"]
  /\ ctx_switch(claim, "back")
  /\ UNCHANGED <<mlfq, mlfq_lock, boot_vars, turn_vars, fork_vars>>

(* Mutants: put back only processes that yielded; put back even zombies.   *)
sched_back_ready_only(s) ==
  /\ At(s, "back")
  /\ IF state[claim] # "READY"
     THEN claim' = NULL /\ Goto(s, "top") /\ UNCHANGED <<intr, saved>>
     ELSE irq_save /\ Goto(s, "requeue") /\ UNCHANGED claim
  /\ UNCHANGED <<state, mlfq, mlfq_lock, task, context, boot_vars, level,
                 fork_vars, fate>>

sched_back_zombies_too(s) ==
  /\ At(s, "back")
  /\ irq_save
  /\ Goto(s, "requeue")
  /\ UNCHANGED <<state, mlfq, mlfq_lock, task, context, boot_vars, turn_vars,
                 fork_vars, fate>>

(* The process handed the CPU back: drop a zombie, queue anything else one *)
(* level down.                                                             *)
sched_back(s) ==
  /\ At(s, "back")
  /\ IF state[claim] = "ZOMBIE"
     THEN /\ claim' = NULL
          /\ Goto(s, "top")
          /\ UNCHANGED <<intr, saved>>
     ELSE /\ irq_save
          /\ Goto(s, "requeue")
          /\ UNCHANGED claim
  /\ UNCHANGED <<state, mlfq, mlfq_lock, task, context, boot_vars, level,
                 fork_vars, fate>>

sched_requeue(s) ==
  /\ At(s, "requeue")
  /\ sched_enqueue(claim, demote(level))
  /\ claim' = NULL
  /\ Goto(s, "requeue_unlock")
  /\ UNCHANGED <<state, cpu_vars, boot_vars, level, fork_vars>>

sched_requeued(s) ==
  /\ At(s, "requeue_unlock")
  /\ mlfq_lock' = FALSE
  /\ irq_restore
  /\ Goto(s, "top")
  /\ UNCHANGED <<state, mlfq, task, context, boot_vars, turn_vars, fork_vars,
                 fate>>

(* _panic() halts for good; a wild jump is not modelled further.           *)
halted ==
  /\ fate # "ok"
  /\ UNCHANGED vars

-----------------------------------------------------------------------------
scheduler(s) ==
  \/ sched_top(s)
  \/ sched_scan(s)
  \/ sched_unlock(s)
  \/ sched_dispatch(s)
  \/ sched_back(s)
  \/ sched_requeue(s)
  \/ sched_requeued(s)

(* Steps that kernel code takes without waiting for anyone's decision.     *)
Kernel(p) ==
  \/ scheduler(p)
  \/ fork_enqueue(p)
  \/ fork_return(p)
  \/ yield_switch(p)
  \/ exit_switch(p)

Boot ==
  \/ init_process
  \/ init_scheduler_proc
  \/ register_interrupt_handler
  \/ init_handoff

(* What a process decides to do.                                           *)
Request(p) ==
  \/ \E l \in Levels : fork(p, l)
  \/ yield(p)
  \/ exit_process(p)

Next ==
  \/ Boot
  \/ \E p \in Slots : Kernel(p) \/ Request(p)
  \/ timer_interrupt_handler_sched
  \/ halted

Spec == Init /\ [][Next]_vars

(* The CPU keeps executing kernel code, and the timer keeps ticking: it    *)
(* eventually interrupts a process that stays on the CPU.  A tick takes    *)
(* the CPU from kernel code of a process over and over at worst, but not   *)
(* before the very same instruction every time.  Nothing obliges a process *)
(* to fork, yield or exit, or the timer to hit the scheduler.              *)
Preempt == task # scheduler_proc /\ timer_interrupt_handler_sched

Fairness ==
  /\ WF_vars(Boot)
  /\ \A p \in Slots : SF_vars(Kernel(p))
  /\ WF_vars(Preempt)

FairSpec == Spec /\ Fairness

-----------------------------------------------------------------------------
(* Properties                                                              *)

Live(p) == state[p] \in {"READY", "RUNNING"}

(* The scheduler has unlinked p from the mlfq and not put it back, or      *)
(* fork() has allocated p and not queued it yet.                           *)
Held(p) ==
  \/ p = claim
  \/ p = child /\ task # NULL /\ pc[task] = "fork_spin"

(* No process is ever on the run queues twice, on one level or on two,     *)
(* however forks, yields, exits and preemptions interleave: each place     *)
(* that queues one was holding it (scheduler.c:42, 86).                    *)
QueuedOnce ==
  \A l, k \in Levels : \A i \in 1 .. Len(mlfq[l]), j \in 1 .. Len(mlfq[k]) :
    mlfq[l][i] = mlfq[k][j] => l = k /\ i = j

(* No process is lost: every live process other than the scheduler is on   *)
(* the mlfq exactly when nobody holds it (init runs while queued until its *)
(* first hand-over; scheduler.c:74-112, process.c:465-498).                *)
NoneLost ==
  \A p \in Slots :
    Live(p) /\ p # scheduler_proc => (Queued(p) <=> ~Held(p))

(* scheduler.c:103-108: a zombie never comes back.  Whatever is queued is  *)
(* not a zombie and has a frame swtch() can resume, with interrupts on, so *)
(* the switch at scheduler.c:101 always lands in live code and the timer   *)
(* can interrupt it again; and the scheduler never queues itself.          *)
QueuedIsResumable ==
  \A p \in Slots :
    Queued(p) =>
      /\ Live(p)
      /\ p # scheduler_proc
      /\ pc[p] # "dead"
      /\ context[p] = "on" \/ (p = InitProc /\ task = p)

(* scheduler.c:35-37: the lock is held with interrupts off, so whoever is  *)
(* about to spin on it (interrupts off, one CPU) finds it free: nobody     *)
(* waits for a holder that can no longer run.                              *)
NoSelfDeadlock ==
  /\ mlfq_lock => ~intr
  /\ task # NULL /\ pc[task] \in {"fork_spin", "scan", "requeue"}
       => ~mlfq_lock /\ ~intr

(* After the hand-over only the scheduler or the process it claimed is on  *)
(* the CPU, and the scheduler's own frame is live exactly while it is off  *)
(* the CPU: a yield, an exit or a preemption finds it.                     *)
SchedulerCanResume ==
  handler = "sched" =>
    /\ scheduler_proc # NULL
    /\ task # scheduler_proc <=> context[scheduler_proc] = "on"

(* init() never exits and is therefore always there to be claimed: the     *)
(* scan of scheduler.c:74-89 never comes up empty.                         *)
ScanFindsSomeone ==
  task # NULL /\ task = scheduler_proc /\ pc[task] = "scan_unlock"
    => claim # NULL

(* Every queued process eventually gets the CPU, unless control is lost:   *)
(* demotion makes the bottom level round-robin, and the timer ends turns.  *)
NoStarvation ==
  \A p \in Slots : Queued(p) ~> (task = p \/ fate # "ok")

(* A process that gave up the CPU by yield() returns from that yield().    *)
YieldReturns ==
  \A p \in Slots :
    pc[p] = "switch" ~> ((task = p /\ pc[p] = "run") \/ fate # "ok")

-----------------------------------------------------------------------------
(* What a comment in the code says, and the code does not do.              *)

(* process.c:229-230: the scheduler is kept off the mlfq because a swtch() *)
(* with old == new restores the context it has just overwritten.  No       *)
(* switch ever does that.  The timer's does: it interrupts scheduler().    *)
NeverSwitchesToItself == fate # "wild"

-----------------------------------------------------------------------------
(* Refinement of module MLFQ                                               *)

(* The scheduler's claim is the turn; a zombie is gone once it is dropped. *)
Gone == {p \in Slots : state[p] = "ZOMBIE" /\ p # claim}

Abstract == INSTANCE MLFQ WITH
  Procs <- Slots, Nobody <- NULL,
  queue <- mlfq, turn <- claim, turnlevel <- level, gone <- Gone

(* Whatever the interleaving of forks, yields, exits and timer interrupts, *)
(* the run queues behave like the plain MLFQ: scheduler() always claims    *)
(* the oldest process of the best level, hands out one turn at a time,     *)
(* demotes by exactly one level, never revives an exited process and never *)
(* lets a process arrive twice (scheduler.c:30-112).                       *)
ImplementsMLFQ == Abstract!MSpec
=============================================================================
