------------------------------ MODULE Machine ------------------------------
(***************************************************************************)
(* What the kernel does to the machine under it: the firmware and the      *)
(* interrupt controllers at boot, the keyboard's controller, the sound     *)
(* controller, the processes' stacks, the clocks, and the page tables of   *)
(* the two ports.  They share no state that a property is about, so a      *)
(* behaviour is that of one of them.                                       *)
(***************************************************************************)
EXTENDS Paging, Boot, Ps2kInit, Ac97, Clocks

CONSTANTS NUM_PROCESSES, SIZE, Sites, Local, MaxDepth,
          SPAN, WORD, nframes, Pages386, KernelEnd, EXTRA, BootRanges, Window, Ranges386

VARIABLES part,
          word, rsp, rbp, rip, cur, ctx, used, exited, chain,
          pde, pte, frames, tables, top, tlb386, freed

Stk == INSTANCE ForkStack
I386 == INSTANCE Frames386

fork_vars == <<word, rsp, rbp, rip, cur, ctx, used, exited, chain>>
frame_vars == <<pde, pte, frames, tables, top, tlb386, freed>>

vars == <<part, bvars, ctl_vars, snd_vars, fork_vars, clock_vars,
          pvars, frame_vars>>

(* The other parts are in one of their initial states.                     *)
Idle ==
    /\ part # "boot" => isa = "i386" /\ fw = CHOOSE f \in Firmwares : TRUE
    /\ part # "clocks" => now = 0
    /\ part # "controller" => source = "ps2k" /\ obuf = << >>

Init == /\ part \in {"boot", "controller", "sound", "stacks", "clocks",
                    "paging", "paging386"}
        /\ BInit /\ CtlInit /\ SndInit /\ Stk!FInit /\ CInit
        /\ PInit /\ I386!FInit
        /\ Idle

Next ==
    /\ UNCHANGED part
    /\ \/ /\ part = "boot" /\ BNext
          /\ UNCHANGED <<ctl_vars, snd_vars, fork_vars, clock_vars, pvars, frame_vars>>
       \/ /\ part = "controller" /\ CtlNext
          /\ UNCHANGED <<bvars, snd_vars, fork_vars, clock_vars, pvars, frame_vars>>
       \/ /\ part = "sound" /\ SndNext
          /\ UNCHANGED <<bvars, ctl_vars, fork_vars, clock_vars, pvars, frame_vars>>
       \/ /\ part = "stacks" /\ Stk!FNext
          /\ UNCHANGED <<bvars, ctl_vars, snd_vars, clock_vars, pvars, frame_vars>>
       \/ /\ part = "clocks" /\ CNext
          /\ UNCHANGED <<bvars, ctl_vars, snd_vars, fork_vars, pvars, frame_vars>>
       \/ /\ part = "paging" /\ PNext
          /\ UNCHANGED <<bvars, ctl_vars, snd_vars, fork_vars, clock_vars, frame_vars>>
       \/ /\ part = "paging386" /\ I386!FNext
          /\ UNCHANGED <<bvars, ctl_vars, snd_vars, fork_vars, clock_vars, pvars>>

(* The fairness of the parts (the modules say why).                         *)
Fairness ==
    /\ WF_bvars(part = "boot" /\ Kernel)
    /\ WF_bvars(part = "boot" /\ interrupt(TIMER_INT_NO))
    /\ WF_bvars(part = "boot" /\ timer_fires)
    /\ WF_ctl_vars(part = "controller" /\ Driver)
    /\ WF_snd_vars(part = "sound" /\ Play)
    /\ WF_snd_vars(part = "sound" /\ Irq)
    /\ WF_snd_vars(part = "sound" /\ hw_complete)
    /\ WF_clock_vars(part = "clocks" /\ poll)
    /\ WF_clock_vars(part = "clocks" /\ count)

Spec == Init /\ [][Next]_vars /\ Fairness
-----------------------------------------------------------------------------
\* What the firmware says is done: the I/O APIC is found wherever it is
\* described within reach, the pins of a kernel that is up are live as they
\* are described, and a byte in the keyboard's output buffer has its
\* interrupt coming.
FirmwareObeyed ==
    part = "boot" =>
      BTypeOK /\ FindsTheController /\ RoutedAsTheFirmwareSays /\ KeyboardAlive

\* A process returns where its own calls, or its parent's, came from, with
\* its stack pointer and frame pointers on its own stack.
UnwindsOnOwnStack == part = "stacks" => Stk!UnwindsAsCalled /\ Stk!OwnStack

\* In the i386 port a mapped frame is marked in the bitmap, kernel memory is
\* mapped to itself, and no stale translation is cached but for a page last
\* changed by free_frame() or alloc_frame().
FramesKept ==
    part = "paging386" => I386!BitmapCovers /\ I386!KernelIdentity /\ I386!Tlb386Coherent

\* What is begun ends: the kernel comes up or stops with a message, the
\* initialisation of the controller ends, the clip started last is played to
\* its end, and every wait ends.
Completes ==
    /\ part = "boot" => Boots
    /\ part = "controller" => Ends
    /\ PlaysOut
    /\ part = "clocks" => Wakes
=============================================================================
