-------------------------------- MODULE Loops --------------------------------
(***************************************************************************)
(* C loops over a state: For runs a body for k = from .. to, upward or     *)
(* downward; Repeat runs a body at most n times (a body that finds its     *)
(* loop condition false returns its state unchanged).                      *)
(***************************************************************************)
LOCAL INSTANCE Integers
LOCAL INSTANCE SequencesExt

For(Body(_, _), s, from, to) ==
    FoldLeft(Body, s, [k \in 1..(to - from + 1) |-> from + k - 1])

ForDown(Body(_, _), s, from, to) ==
    FoldLeft(Body, s, [k \in 1..(from - to + 1) |-> from - k + 1])

Repeat(Body(_), s, n) ==
    FoldLeft(LAMBDA x, k : Body(x), s, [k \in 1..n |-> k])
=============================================================================
