-------------------------------- MODULE Abab --------------------------------
(***************************************************************************)
(* The workload the kernel boots with (kernel/scheduler/process.c): init   *)
(* forks A on level 0 and B on level 1, each prints its letter ABAB_TURNS  *)
(* times with a yield() after every letter and exits, and init idles.  The *)
(* kernel underneath is module Scheduler, with the timer limited to        *)
(* MaxTicks scheduling interrupts: none at all is the cooperative kernel.  *)
(***************************************************************************)
EXTENDS Scheduler, SequencesExt

CONSTANTS
  ABAB_TURNS,   \* letters each process prints (process.c:173)
  MaxTicks      \* bound: scheduling interrupts in a behaviour

ASSUME AbabTurnsAssumption == ABAB_TURNS \in Nat
ASSUME MaxTicksAssumption == MaxTicks \in Nat

A == 2
B == 3
Letters == {A, B}

VARIABLES
  forked,      \* how many of init's two forks have been made
  transcript,  \* the letters printed, in order
  due,         \* processes that printed a letter and have yet to yield()
  picks,       \* the turns scheduler() gave to A and B, in order
  ticks        \* scheduling interrupts so far

ababvars == <<vars, forked, transcript, due, picks, ticks>>

Printed(p) == Len(SelectSeq(transcript, LAMBDA q : q = p))

AInit ==
  /\ Init
  /\ forked = 0
  /\ transcript = << >>
  /\ due = {}
  /\ picks = << >>
  /\ ticks = 0

(* init(): fork A on level 0, then B on level 1, then start the scheduler. *)
(* A full table makes a fork fail and is noticed after both.               *)
fork_letter ==
  /\ forked < 2
  /\ fork(InitProc, forked)
  /\ forked' = forked + 1
  /\ UNCHANGED <<transcript, due, picks, ticks>>

start_scheduler ==
  /\ \/ init_process
     \/ forked = 2 /\ init_scheduler_proc
     \/ register_interrupt_handler
     \/ init_handoff
  /\ UNCHANGED <<forked, transcript, due, picks, ticks>>

(* The body of the loops of proc_a() and proc_b(): printk() and yield().   *)
print_letter(p) ==
  /\ At(p, "run")
  /\ p \notin due /\ Printed(p) < ABAB_TURNS
  /\ transcript' = Append(transcript, p)
  /\ due' = due \cup {p}
  /\ UNCHANGED <<vars, forked, picks, ticks>>

yield_letter(p) ==
  /\ p \in due
  /\ yield(p)
  /\ due' = due \ {p}
  /\ UNCHANGED <<forked, transcript, picks, ticks>>

letters_done(p) ==
  /\ p \notin due /\ Printed(p) >= ABAB_TURNS
  /\ exit_process(p)
  /\ UNCHANGED <<forked, transcript, due, picks, ticks>>

(* Mutant: init halts instead of yielding.                                 *)
idle_halts ==
  /\ At(InitProc, "run")
  /\ UNCHANGED ababvars

idle ==
  /\ yield(InitProc)
  /\ UNCHANGED <<forked, transcript, due, picks, ticks>>

pick(s) ==
  /\ sched_dispatch(s)
  /\ picks' = IF claim \in Letters THEN Append(picks, claim) ELSE picks
  /\ UNCHANGED <<forked, transcript, due, ticks>>

other_kernel(p) ==
  /\ Kernel(p) /\ ~At(p, "claimed")
  /\ UNCHANGED <<forked, transcript, due, picks, ticks>>

tick ==
  /\ ticks < MaxTicks
  /\ timer_interrupt_handler_sched
  /\ ticks' = ticks + 1
  /\ UNCHANGED <<forked, transcript, due, picks>>

stopped ==
  /\ halted
  /\ UNCHANGED ababvars

Program ==
  \/ fork_letter
  \/ start_scheduler
  \/ \E p \in Letters : print_letter(p) \/ yield_letter(p) \/ letters_done(p)
  \/ idle
  \/ \E p \in Slots : pick(p) \/ other_kernel(p)

ANext == Program \/ tick \/ stopped

(* There is one CPU and it never stops executing the program.              *)
ASpec == AInit /\ [][ANext]_ababvars /\ WF_ababvars(Program)

-----------------------------------------------------------------------------
(* Properties                                                              *)

(* process.c:175-177: without ticks the output is a transcript of the      *)
(* scheduler's choices: the n-th letter is that of the process picked      *)
(* n-th.  (The last pick of each process is the one in which it exits.)    *)
TranscriptIsPicks == ticks = 0 => IsPrefix(transcript, picks)

(* A timer interrupt costs its victim at most one letter: however the      *)
(* ticks fall, neither process is ahead by more than one letter plus one   *)
(* per tick while both are still printing; without ticks they alternate,   *)
(* through the demotions and down to the bottom level (process.c:178-195,  *)
(* 205-206 over scheduler.c:58-112).                                       *)
SkewBoundedByTicks ==
  \A p, q \in Letters :
    (p # q /\ Printed(q) < ABAB_TURNS) => Printed(p) - Printed(q) <= 1 + ticks

(* The letters come in turn: both of the above.                            *)
LettersInTurn == TranscriptIsPicks /\ SkewBoundedByTicks

(* Every letter is printed and both processes end, unless control is lost: *)
(* the demo of process.c:173-195 always runs to completion.                *)
BothFinish ==
  <>(\/ fate # "ok"
     \/ \A p \in Letters :
          Printed(p) = ABAB_TURNS /\ state[p] = "ZOMBIE" /\ ~Queued(p))
=============================================================================
