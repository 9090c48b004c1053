-------------------------------- MODULE MLFQ --------------------------------
(***************************************************************************)
(* What the scheduler promises, without locks, interrupts, stacks or the   *)
(* scheduler process: a multilevel feedback queue.  Processes arrive once, *)
(* on a level of their creator's choice.  A turn goes to the process that  *)
(* has waited longest on the best non-empty level, to one process at a     *)
(* time, and ends with the process back on the queue, one level lower, or  *)
(* gone for good.                                                          *)
(***************************************************************************)
EXTENDS Integers, Sequences

CONSTANTS Procs, NUM_PRIORITY_LEVELS, Nobody

PriorityLevels == 0 .. NUM_PRIORITY_LEVELS - 1

VARIABLES
  queue,      \* one sequence of waiting processes per level
  turn,       \* the process whose turn it is, or Nobody
  turnlevel,  \* the level it was taken from
  gone        \* the processes that ended

mlfqvars == <<queue, turn, turnlevel, gone>>

Waiting(p) ==
  \E l \in PriorityLevels : \E i \in 1 .. Len(queue[l]) : queue[l][i] = p

MInit ==
  /\ queue = [l \in PriorityLevels |-> << >>]
  /\ turn = Nobody
  /\ turnlevel = 0
  /\ gone = {}

Arrive(p, l) ==
  /\ ~Waiting(p) /\ p # turn /\ p \notin gone
  /\ queue' = [queue EXCEPT ![l] = Append(@, p)]
  /\ UNCHANGED <<turn, turnlevel, gone>>

BeginTurn(l) ==
  /\ turn = Nobody
  /\ queue[l] # << >>
  /\ \A k \in PriorityLevels : k < l => queue[k] = << >>
  /\ turn' = Head(queue[l])
  /\ turnlevel' = l
  /\ queue' = [queue EXCEPT ![l] = Tail(@)]
  /\ UNCHANGED gone

EndTurn(l) ==
  /\ turn # Nobody
  /\ l = turnlevel + 1 \/ (l = turnlevel /\ l + 1 \notin PriorityLevels)
  /\ queue' = [queue EXCEPT ![l] = Append(@, turn)]
  /\ turn' = Nobody
  /\ UNCHANGED <<turnlevel, gone>>

Retire ==
  /\ turn # Nobody
  /\ turn' = Nobody
  /\ gone' = gone \cup {turn}
  /\ UNCHANGED <<queue, turnlevel>>

MNext ==
  \/ \E p \in Procs, l \in PriorityLevels : Arrive(p, l)
  \/ \E l \in PriorityLevels : BeginTurn(l) \/ EndTurn(l)
  \/ Retire

MSpec == MInit /\ [][MNext]_mlfqvars
=============================================================================
