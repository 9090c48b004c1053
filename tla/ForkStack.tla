----------------------------- MODULE ForkStack -----------------------------
(***************************************************************************)
(* The kernel stacks of the processes, word by word: what fork() copies,   *)
(* what swtch() saves and loads, and where every return lands.             *)
(*                                                                         *)
(* An address is a word's number; process p owns SIZE words ending below   *)
(* Top(p) (kheap.c hands stacks out upwards, and none is reused).  Code is *)
(* a negative number.  The build is -O0, so every C function keeps a frame *)
(* pointer.  The scheduler's choice is left open: a switch goes anywhere.  *)
(***************************************************************************)
EXTENDS Integers, Sequences, SequencesExt

CONSTANTS
    NUM_PROCESSES,
    SIZE,       \* words of a stack
    Sites,      \* call sites of the processes' own code: negative numbers
    Local,      \* what a function keeps in its local variable
    MaxDepth    \* functions of its own a process has active

VARIABLES
    word,       \* the stacks
    rsp, rbp, rip,
    cur,        \* cpus[0].task
    ctx,        \* context.sp of the processes
    used,       \* table slots taken
    exited,       \* the processes that exited
    chain       \* history: per process, the returns it still has to make

fork_vars == <<word, rsp, rbp, rip, cur, ctx, used, exited, chain>>

Code == -1          \* in the process's own functions
FORKRET == -2
ENTRY == -3         \* forkret(), after p->entry()
SWTCHED == -4       \* ctx_switch(), after swtch()
YIELDED == -5       \* the caller of ctx_switch()
RESUME == -6        \* fork_child_resume
CLONED == -7        \* fork(), after clone_parent_base_frame()
FORKED == -8        \* the caller of fork()

Slots == 1 .. NUM_PROCESSES
Top(p) == p * SIZE + 1
OnStack(p) == Top(p) - SIZE .. Top(p) - 1

\* The words ws written from address a upwards.
Put(m, a, ws) == [x \in DOMAIN m |-> IF x \in a .. a + Len(ws) - 1 THEN ws[x - a + 1] ELSE m[x]]

\* What swtch() pushes: r15 r14 r13 r12 rbx (nothing of interest at -O0) rbp.
Saved(bp) == <<0, 0, 0, 0, 0, bp>>
FP_SLOT == 5

\* A call from `site`, and the prologue of the function called.
Enter(m, sp, bp, site) ==
    [word |-> Put(m, sp - 3, <<Local, bp, site>>), rsp |-> sp - 3, rbp |-> sp - 2]
-----------------------------------------------------------------------------
init_stack(m, p) == Put(m, Top(p) - 8, Saved(0) \o <<FORKRET, 0>>)

\* Mutant: the walk rebases the first link only.
clone_stack_rebased_once(m, parent, child, frame) ==
    LET delta == Top(child) - Top(parent)
        m1 == [x \in DOMAIN m |-> IF x \in frame + delta .. Top(child) - 1
                                  THEN m[x - delta] ELSE m[x]]
    IN  [m1 EXCEPT ![frame + delta + FP_SLOT] = @ + delta]
clone_stack_rebased(m, parent, child, frame) ==
    LET delta == Top(child) - Top(parent)
        m1 == [x \in DOMAIN m |-> IF x \in frame + delta .. Top(child) - 1
                                  THEN m[x - delta] ELSE m[x]]
        Inside(s) == s.m[s.slot] \in frame .. Top(parent) - 1
        Link(s, k) == IF Inside(s)
                      THEN [m |-> [s.m EXCEPT ![s.slot] = @ + delta],
                            slot |-> s.m[s.slot] + delta]
                      ELSE s
    IN  FoldLeft(Link, [m |-> m1, slot |-> frame + delta + FP_SLOT], [k \in 1..SIZE |-> k]).m

\* init_process() has switched to init, whose stack is the first.
FInit ==
    /\ word = init_stack([x \in 1 .. NUM_PROCESSES * SIZE |-> 0], 1)
    /\ rsp = Top(1) - 1 /\ rbp = 0 /\ rip = FORKRET
    /\ cur = 1 /\ used = 1 /\ exited = {}
    /\ ctx = [p \in Slots |-> 0]
    /\ chain = [p \in Slots |-> <<>>]

Frame(site) == <<site, Local>>
\* Functions active above forkret() and its entry.
Depth(p) == Len(chain[p]) - 2
-----------------------------------------------------------------------------
\* forkret() calls p->entry().
forkret ==
    /\ rip = FORKRET
    /\ LET e == Enter([word EXCEPT ![rsp - 1] = rbp, ![rsp - 2] = Local], rsp - 2, rsp - 1, ENTRY)
       IN  word' = e.word /\ rsp' = e.rsp /\ rbp' = e.rbp
    /\ rip' = Code
    /\ chain' = [chain EXCEPT ![cur] = <<Frame(ENTRY), Frame(0)>>]
    /\ UNCHANGED <<cur, ctx, used, exited>>

call(site) ==
    /\ rip = Code /\ Depth(cur) < MaxDepth
    /\ LET e == Enter(word, rsp, rbp, site)
       IN  word' = e.word /\ rsp' = e.rsp /\ rbp' = e.rbp
    /\ chain' = [chain EXCEPT ![cur] = <<Frame(site)>> \o @]
    /\ UNCHANGED <<rip, cur, ctx, used, exited>>

\* leave; ret
Leave == rsp' = rbp + 2 /\ rbp' = word[rbp] /\ rip' = word[rbp + 1]

\* A function returns; init's entry, the idle loop, does not.
return ==
    /\ rip = Code /\ (cur = 1 => Depth(cur) > 0) /\ Leave
    /\ chain' = [chain EXCEPT ![cur] = Tail(@)]
    /\ UNCHANGED <<word, cur, ctx, used, exited>>

\* The caller goes on where it called from.
go_on ==
    /\ rip \in Sites \cup {YIELDED, FORKED} /\ rip' = Code
    /\ UNCHANGED <<word, rsp, rbp, cur, ctx, used, exited, chain>>

\* alloc_process(): the scheduler's own process is made so.
alloc_process ==
    /\ rip = Code /\ used < NUM_PROCESSES
    /\ used' = used + 1
    /\ word' = init_stack(word, used')
    /\ ctx' = [ctx EXCEPT ![used'] = Top(used') - 8]
    /\ chain' = [chain EXCEPT ![used'] = <<Frame(FORKRET)>>]
    /\ UNCHANGED <<rsp, rbp, rip, cur, exited>>

\* clone_parent_base_frame() called from fork()'s frame e: the resume address
\* and the registers go on the parent's stack for the time of the copy.
clone_parent_base_frame(e, child) ==
    LET frame == e.rsp - 8
        m == Put(e.word, frame, Saved(e.rbp) \o <<RESUME, CLONED>>)
    IN  /\ word' = clone_stack_rebased(m, cur, child, frame)
        /\ ctx' = [ctx EXCEPT ![child] = frame + Top(child) - Top(cur)]

\* fork(), in the parent: interrupts are off until it returns.
fork ==
    /\ rip = Code /\ used < NUM_PROCESSES
    /\ used' = used + 1
    /\ clone_parent_base_frame(Enter(word, rsp, rbp, FORKED), used')
    /\ chain' = [chain EXCEPT ![used'] =
                     <<Frame(RESUME), Frame(CLONED), Frame(FORKED)>> \o chain[cur]]
    /\ UNCHANGED <<rsp, rbp, rip, cur, exited>>

\* swtch(&old->context.sp, new->context.sp) from a function with frame e.
swtch(e, new) ==
    LET sp == e.rsp - 7
    IN  /\ word' = Put(e.word, sp, Saved(e.rbp) \o <<SWTCHED>>)
        /\ ctx' = [ctx EXCEPT ![cur] = sp]
        /\ rbp' = word'[ctx[new] + FP_SLOT]
        /\ rip' = word'[ctx[new] + 6]
        /\ rsp' = ctx[new] + 7

Others == {p \in 1 .. used : p # cur /\ p \notin exited}

\* yield(), or the timer's handler, and ctx_switch().
ctx_switch(new) ==
    /\ rip = Code /\ new \in Others
    /\ swtch(Enter(word, rsp, rbp, YIELDED), new)
    /\ cur' = new
    /\ chain' = [chain EXCEPT ![cur] = <<Frame(SWTCHED), Frame(YIELDED)>> \o @,
                              ![new] = Tail(@)]
    /\ UNCHANGED <<used, exited>>

\* The process ends, or its entry has returned to forkret().
exit_process(new) ==
    /\ rip \in {Code, ENTRY} /\ cur # 1 /\ new \in Others
    /\ swtch(Enter(word, rsp, rbp, YIELDED), new)
    /\ cur' = new /\ exited' = exited \cup {cur}
    /\ chain' = [chain EXCEPT ![cur] = <<>>, ![new] = Tail(@)]
    /\ UNCHANGED used

\* ctx_switch() returns to its caller.
switched ==
    /\ rip = SWTCHED /\ Leave
    /\ chain' = [chain EXCEPT ![cur] = Tail(@)]
    /\ UNCHANGED <<word, cur, ctx, used, exited>>

fork_child_resume ==
    /\ rip = RESUME
    /\ rip' = word[rsp] /\ rsp' = rsp + 1
    /\ chain' = [chain EXCEPT ![cur] = Tail(@)]
    /\ UNCHANGED <<word, rbp, cur, ctx, used, exited>>

\* fork(), in the child.
fork_returns_0 ==
    /\ rip = CLONED /\ Leave
    /\ chain' = [chain EXCEPT ![cur] = Tail(@)]
    /\ UNCHANGED <<word, cur, ctx, used, exited>>

FNext ==
    \/ forkret \/ return \/ go_on \/ alloc_process \/ fork
    \/ switched \/ fork_child_resume \/ fork_returns_0
    \/ \E s \in Sites : call(s)
    \/ \E p \in Slots : ctx_switch(p) \/ exit_process(p)
-----------------------------------------------------------------------------
\* The frames from frame pointer bp outwards, innermost first.
Unwind(m, bp) ==
    LET Step(s, k) == IF s.bp \notin DOMAIN m \ {1, NUM_PROCESSES * SIZE} THEN s
                      ELSE [bp |-> m[s.bp], fs |-> Append(s.fs, <<m[s.bp + 1], m[s.bp - 1]>>)]
    IN  FoldLeft(Step, [bp |-> bp, fs |-> <<>>], [k \in 1 .. MaxDepth + 5 |-> k]).fs
FramePointers(m, bp) ==
    LET Step(s, k) == IF Last(s) \notin DOMAIN m THEN s ELSE Append(s, m[Last(s)])
    IN  Front(FoldLeft(Step, <<bp>>, [k \in 1 .. MaxDepth + 5 |-> k]))

\* The saved state of p, as swtch() will load it.
Pending(p) ==
    LET r == word[ctx[p] + 6]
    IN  <<Frame(r)>> \o (IF r = RESUME THEN <<Frame(word[ctx[p] + 7])>> ELSE <<>>)
        \o Unwind(word, word[ctx[p] + FP_SLOT])

Alive == 1 .. used \ exited

\* Every process makes the returns its own calls (or those of the parent it
\* was copied from) left it to make, with the local variables they had: no
\* switch, no fork and nothing another process does on its stack changes them.
UnwindsAsCalled ==
    \A p \in Alive :
        chain[p] = IF p # cur THEN Pending(p)
                   ELSE (IF rip = RESUME THEN <<Frame(word[rsp])>> ELSE <<>>)
                        \o Unwind(word, rbp)

\* A process's stack pointer and frame pointers stay on its own stack: a
\* forked child never runs on a frame of its parent.
OwnStack ==
    \A p \in Alive :
        LET bp == IF p = cur THEN rbp ELSE word[ctx[p] + FP_SLOT]
        IN  /\ (IF p = cur THEN rsp ELSE ctx[p]) \in OnStack(p)
            /\ \A x \in ToSet(FramePointers(word, bp)) : x \in OnStack(p)
=============================================================================
