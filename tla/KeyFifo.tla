------------------------------ MODULE KeyFifo ------------------------------
(***************************************************************************)
(* What the keyboard rings promise a listener: a bounded queue of its own, *)
(* from registration on, that holds the newest Capacity keys: a key that   *)
(* finds the queue full pushes the oldest one out.  The listener takes the *)
(* keys in the order they were pressed.                                    *)
(***************************************************************************)
EXTENDS Naturals, Sequences

CONSTANTS Queues, Capacity

VARIABLES
  open,     \* the queues that have a listener
  pending,  \* the keys each queue holds, oldest first
  pressed   \* number of keys pressed; a key is its number

fifovars == <<open, pending, pressed>>

FInit ==
  /\ open = {}
  /\ pending = [q \in Queues |-> << >>]
  /\ pressed = 0

Listen(q) ==
  /\ q \in Queues \ open
  /\ open' = open \cup {q}
  /\ UNCHANGED <<pending, pressed>>

(* A key goes to every queue that has a listener.                          *)
Press ==
  /\ pressed' = pressed + 1
  /\ pending' =
       [q \in Queues |->
          IF q \notin open THEN pending[q]
          ELSE Append(IF Len(pending[q]) < Capacity THEN pending[q]
                      ELSE Tail(pending[q]), pressed + 1)]
  /\ UNCHANGED open

Take(q) ==
  /\ q \in open /\ pending[q] # << >>
  /\ pending' = [pending EXCEPT ![q] = Tail(@)]
  /\ UNCHANGED <<open, pressed>>

FNext == Press \/ \E q \in Queues : Listen(q) \/ Take(q)

FSpec == FInit /\ [][FNext]_fifovars
=============================================================================
