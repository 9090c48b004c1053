# Verification of the horizonOS kernel

TLA+ specifications of horizonOS, the TLC configurations that model-check
them, and TLAPS proofs. Paths are relative to the root of the repository's
sources; `process.c:244` and the like are line numbers there. `PROJECT.json`
maps every definition to the lines it stands for.

## The system

horizonOS is a small single-core x86_64 kernel, with an older i386 port and a
C library beside it. The parts, and where they meet:

| Part | State | Operations | Meets |
|---|---|---|---|
| MLFQ scheduler (`kernel/scheduler/scheduler.c`) | run queues, spinlock, claim and level of the current turn | enqueue, scan, dispatch, put back, yield | processes, timer |
| Processes (`kernel/scheduler/process.c`) | process table, stacks, saved contexts | init, fork, exit, allocation | scheduler, heap |
| Context switch, IF (`arch/x86_64/switch.c`, `asm/swtch.S`, `irqflags.c`) | stack pointers, interrupt flag | ctx_switch, irq_save, irq_restore | everything |
| Timer and clocks (`kernel/time.c`, `kernel_api.c`) | tick count, time stamp counter | tick, preempt, sleep, timeout, stall | scheduler, drivers |
| Keyboard rings (`arch/x86_64/include/keyboard.c`) | a ring per listener | push (interrupt), poll, block, register, remove | PS/2 driver, shell |
| Keyboard drivers (`ps2k.c`, two versions of `keyboard.c`) | held keys, shift, prefix | interrupt handler, initialisation | controller, rings |
| AC97 driver (`drivers/ac97.c`) | descriptor ring, positions | play, interrupt handler | sound controller, pong |
| Paging (`arch/x86_64/memory/paging.c`, `arch/i386/memory/paging.c`) | page tables, TLB, frame bitmap | walk, split, map, unmap, alloc, free | heap, drivers, fork |
| Heap (`mm/kheap.c`, `mm/mm.c`) | placement address | kmalloc variants | everything |
| Boot (`kernel.c` of both ports, `kernel/apic/`, `acpi/`, `drivers/pci.c`) | APIC registers, handlers, firmware tables | table walks, routing, probing, dispatch | firmware, devices |
| Console, printk, serial, tty | cursor, colours, level, screen | putchar, scroll, backspace, formats | processes |
| Shells, maze, pong | line, grid, game | edit, split, dispatch, carve, solve, frame | keyboard, console |
| libc | lists, trees, arrays, strings | their operations; sorts, searches, printf | everything |

Hard behaviours: a tick between any two instructions with interrupts on,
inside `yield`, `exit_process` and `scheduler` itself; the lock taken with
interrupts off; a fork in the middle of nested calls; a key interrupt inside
every ring operation; controllers that answer late, wrongly or not at all; DMA
that completes buffers while the handler acknowledges earlier ones; edges lost
on a masked pin; stale translations; counters and tables at their limits.
`PROJECT.json` lists them under `hazards`, each with the properties that cover
it.

## Modules

| Module | Models |
|---|---|
| `Scheduler` | scheduler, process life cycle, context switch, IF, scheduling tick, and the mapping to `MLFQ` |
| `MLFQ` | what the scheduler promises, a multilevel feedback queue |
| `Abab` | the demonstration workload of `process.c:178-265` on top of `Scheduler` |
| `KeyboardQueue`, `KeyFifo` | the listeners' rings; what a ring promises, a bounded queue that drops its oldest entry |
| `Ps2k` | the three keyboard interrupt handlers, against a keyboard |
| `Ps2kInit` | the three initialisations, against a controller |
| `Ac97` | playing clips, against the sound controller |
| `Boot` | RSDP, MADT, ACPI namespace and PCI searches; both ports' boot from `initialize_apic()` on, with the APICs |
| `ForkStack` | kernel stacks word by word: calls, `swtch`, `fork`'s clone, `forkret` |
| `Clocks` | waits on wrapping counters |
| `Paging`, `Frames386` | bump allocator, x86_64 tables, TLB and guarded stacks; i386 tables and frame bitmap |
| `Console` | the framebuffer console; two processes that log through it and the serial port |
| `Shells` | what the shells do with keys and lines; a user at the prompt; every short line given to the parsers |
| `MazeGrid`, `Maze`, `MazeEller` | both maze generators, the solver and the picture |
| `Tty`, `Pong` | the VGA text terminals; the game, a frame per step |
| `ListHead`, `KList` | both intrusive list headers |
| `ArrayStructs`, `Trees` | vector, heap, union find, segment tree; red-black and search trees |
| `StructClient` | clients calling every operation of the lists and of the containers |
| `Sorting`, `Strings`, `Algorithms` | sorts and searches, `string.c`, `printf`, the kernel's own formatters; each applied to every bounded input |
| `Loops` | C's counting loops as folds |
| `Foundation`, `Terminal`, `Machine`, `Keyboard` | compositions, below |
| `SchedulerProofs` | theorems about `Scheduler` and `Pong` |
| `KeyboardFifoProofs` | about `KeyboardQueue` |
| `KeyboardProofs` | about `Keyboard` (with `Ps2k`) and `Ps2kInit` |
| `DeviceProofs` | about `Ac97` and `Clocks` |
| `BootProofs` | about `Boot` |
| `PageTableProofs`, `PageWalkProofs`, `PagingProofs` | about `Paging`: tables; walks, mapping and the heap; the specification |

The `MC` modules only define the values that the configurations give to
constants. Definitions marked `Mutant` are deliberately wrong variants that
nothing but the `mutants` of `PROJECT.json` uses; they show that each property
can fail.

Compositions. Where parts interact through state, one module holds that state:
the scheduler, its processes, the switch and the tick are one; heap, tables,
TLB, fork and stacks are one (`Paging`); console, serial port and printing
processes are one (`Console`); firmware, APICs, timer, keyboard, sound and
dispatch are one (`Boot`). Parts that share nothing a property is about are put
together as a choice: `Init` picks one of them and a behaviour is that part's.
`Keyboard` is the rings or the decoder (`half`); `Machine` extends `Paging`,
`Boot`, `Ps2kInit`, `Ac97` and `Clocks` and instantiates `ForkStack` and
`Frames386` (`part`); `Terminal` extends `Console`, `Shells` and `Pong` and
instantiates the mazes and `Tty` (`session`); `Foundation` has the containers
and the pure functions. A property that is proved is stated in the part's own
module (`MemoryApart`, `TlbCoherent`, `MappingKept` in `Paging`,
`InterruptsTaken` in `Boot`, `ControllerAnswers` in `Ps2kInit`, `SoundSupplied`
in `Ac97`, `NeverEarly` in `Clocks`, `PongInside` and `PointPerServe` in
`Pong`) and holds of the composition because the other parts do not touch its
variables. The others are conjunctions in the composition, guarded by the part
they are about: `FirmwareObeyed`, for one, is `FindsTheController`,
`RoutedAsTheFirmwareSays` and `KeyboardAlive` of `Boot`.

### Scheduler and Abab

One CPU executes `task`; every process stands at a program point `pc[p]`.
Program points are the places where an interrupt can be taken or the lock is
held; instructions between them that nobody else can observe are one step.
`context[p]` says what the saved stack pointer points at: a frame that
`swtch()` can pop, resuming with IF on or off, or memory reused since. So a
switch to a stale frame is a step to `fate = "wild"`, and a panic is
`fate = "panic"`; both are absorbing. `intr` is the IF flag and `saved` what
`irq_save()` returned. A process other than init may compute for ever, fork,
yield or exit, in any order; init forks while booting and then idles. The
forks of `init` are generalised here (any number, any level) and exact in
`Abab`. Left out: pids, names, parents.

### Stacks (ForkStack)

The contents of the stacks, which `Scheduler` leaves out. Every word of every
stack is modelled: return addresses, saved frame pointers, the saved registers
of `swtch()`, one local per frame. `fork()` copies the words in use, rebases
the chain of saved frame pointers, and pushes the frame the child resumes
with. The scheduler's choice is left open. The build is `-O0`
(`CMakeLists.txt:123, 153`), so every function keeps a frame pointer; at a
higher level the chain that `clone_parent_base_frame()` follows would not
exist.

### Keyboard (KeyboardQueue, Ps2k, Ps2kInit)

`keyboard_push` runs in the interrupt handler and is atomic. Poll, register
and remove are split at every access to shared memory, and a key can arrive
between any two. `Preemptive` lets listeners interleave as well, and
`MayRemove` lets them release their level. Keys are numbered, and an entry has
two halves so that a torn copy would show.

In `Ps2k` a key is an extended flag and a code. Bytes wait on a wire in order;
the handler takes one per interrupt. The keyboard presses, repeats and releases
keys and may send fake shifts at any time. `astray` is set while the last byte
a driver takes for a shift's says otherwise than the shifts held; only then may
the case of a character be wrong. Characters are abstracted to whether a code
has one and to its case; `driver` says whose handler runs. In `Ps2kInit` the
controller owes answers that reach its output buffer at any time; each wait
either sees a byte or gives up; `source` says whose code runs.

### Sound (Ac97)

`ac97_play()` is split at its register accesses, and the handler at reading
the status, acknowledging it, writing the descriptor and writing LVI. The
controller completes a buffer between any two of these steps. Assumed of the
controller: completing the buffer at LVI halts the DMA and sets both status
bits; writing LVI resumes a halted DMA; a channel reset keeps the interrupt
enables; an empty descriptor may or may not be reported as completed.

### Boot

The searches are operators over a record describing a machine: paragraphs of
low memory, tables by address, devices of the namespace, functions on the PCI
bus. `kernel_main_i386` and `kernel_main_x86_64` are records that give each
step of a kernel the step after it, and an action is a step; edges,
keys and ticks come between any two and inside the waits. The two halves of a
redirection entry are written separately. The APICs and devices are external:
an edge on a masked pin is lost, an edge on an unmasked pin requests its
vector, a vector not acknowledged blocks its priority class.

### Memory (Paging, Frames386)

An x86_64 table is a frame of memory holding entries, walked by the code
through the HHDM and by the CPU from `cr3`. Three levels of tables below the
top one become a huge level, a level of pages of four, and single pages, with
two entries at the top. `kmalloc_a()` is split at its accesses to
`placement_address` where processes can preempt each other. The CPU may cache
any translation at any time; one cached entry is enough, because no property
relates two. The i386 port is modelled from `init_paging()` on: directory,
tables, frame bitmap in words, `alloc_frame`, `free_frame`, `map_page`,
`unmap_page`, `map_physical_range`. Callers free a frame through its only
mapping.

### Screens (Console, Tty, Shells, Maze, Pong)

A console cell is `cell_h` pixel rows of a column, each holding a slice of a
glyph, so that scrolling a screen whose height is no multiple of the cell
shows. `console_putchar()` runs with interrupts off; `printk()` around it does
not. `Shells` has `readline()` with the echo, above the console, and gives
every line up to a length to the parsers. `random_range()` is a free choice in
the mazes, which may be generated and solved again. `Pong` keeps the code's
integer arithmetic, with the tick counter narrowed so that it wraps; a paddle
starts in the middle or where an earlier game left it (`PastRows`). Each event
handler of a frame reads the clock itself (`Readings`), so ticks may pass
between a hit of the wall and one of a paddle in the same frame.

### Library (ListHead ... Strings)

An operation is a function from structure to structure, written as the code
computes it (links, array cells, rotations), and the clients keep beside it
what the structure should hold. Pure functions are applied once to every input
of a bounded set and compared with a reference definition.

## Runs

| Run | Properties | Bounds | Shows |
|---|---|---|---|
| `scheduler_safety` | `TypeOK`, `NoneLost`, `QueuedIsResumable`, `NoSelfDeadlock`, `SchedulerCanResume`, `ScanFindsSomeone`, `ImplementsMLFQ` | 4 slots, 3 levels | no process is lost or duplicated, switches land in live frames, the lock never spins; `Scheduler` implements `MLFQ` |
| `scheduler_live` | `NoStarvation`, `YieldReturns` | 4 slots, 2 levels | every queued process gets the CPU, every yield returns |
| `abab` | `LettersInTurn`, `BothFinish` | 5 turns, up to 3 ticks | without ticks the letters are the scheduler's picks and alternate; they drift by at most one per tick; both processes finish |
| `keyboard_fifo` | `TypeOK`, `WholeAndNewer`, `OneListenerPerLevel`, `ImplementsFifo`; `InSync`, `CaseIsShift` | 3 listeners, 2 rings of 3, 5 keys; 4 keys, 4 bytes in flight | rings implement `KeyFifo`, events are whole, no level is shared; the key table is in step and case right, for all three handlers |
| `keyboard_preempt` | `NeverBackwards`, `WaitingKeyIsRead` | 1 listener, 8 keys | never backwards; a key between poll and hlt is read |
| `foundation` | `ListsHold`, `ContainersHold`, `FunctionsCompute` | 2 list heads, 3 entries; arrays of 4; trees of 7; 4 bytes of memory; formats of 4 characters | containers hold what was put in, functions return what their definitions say |
| `terminal` | `LogIsText`, `EchoIsLine`, `ShellsObey`, `MazesRight`, `TerminalsShowText`, `PongInside`, `PointPerServe` | screen of 3 columns and 5 pixel rows; 9 keys; lines of 6; mazes of 4 by 3 and 3 by 3; 5 frames of pong | what is printed is what is on the screen, what is edited is what is read, parsers split rightly, mazes are trees, solved and drawn; the ball turns back, everything is drawn inside, a point per serve |
| `machine` | `InterruptsTaken`, `FirmwareObeyed`, `ControllerAnswers`, `SoundSupplied`, `UnwindsOnOwnStack`, `NeverEarly`, `MemoryApart`, `TlbCoherent`, `MappingKept`, `FramesKept`, `Completes` | 9 machines; 2 stale bytes; ring of 4, 7 clips, 2 plays; 3 stacks of 21 words; counters of 20; 16 frames, 2 forking processes; 10 frames of the i386 port | both kernels find and route what the firmware says and come up or stop with a message; the keyboard stays alive; the controller's initialisation ends and fails only for a cause; exactly the clip is played; every return lands where it was called from, on its own stack; no wait is early and all end; heap blocks are disjoint, stacks guarded, mappings kept, no stale translation; the i386 bitmap covers what is mapped |

Why the bounds are enough. Four slots hold init, the scheduler, a process and
a child, so a fork meets both a free and a full table; three levels have a
top, a middle and a bottom, where demotion stops. A ring of three slots holds
two entries, so it is empty, partly full and full, and wraps within five
keys. Four bytes hold a fake shift followed by an extended key. A ring of four
descriptors is lapped by the longest clip (seven chunks) and exactly filled by
another. Three list entries give a first, a middle and a last; seven nodes
give a red-black tree every insertion case with a grandparent below the root.
Sixteen frames hold a huge page at each level that is split at its first, last
and inner page, the tables of the splits and two stacks. Five pixel rows are
two lines and a half, so scrolling meets the remainder. Stacks of 21 words
hold a call, a fork inside it, and a switch; a local variable that happens to
hold a stack address shows that only frame pointers are rebased. Counters of
20 wrap within a wait. The nine machines have tables in and out of reach of
the i386 kernel, bad checksums, overrides for the keyboard with each polarity
and trigger, one override too many, devices that match by a compatible
identifier, and none. Symmetry is used nowhere: slots and levels are ordered
by the code.

`keyboard_preempt` has a single listener because two may be given the same
level (see `keyboard_claim`). `foundation` and `terminal` do not check
deadlock: a function that has returned, a finished game and a full bound are
ends. `machine` does.

Fairness. `Scheduler`: kernel code that can execute does (strong fairness,
since a tick may take the CPU away from it repeatedly, though not before the
same instruction for ever), and the timer, which is periodic, eventually
interrupts a process that stays on the CPU. No process is obliged to fork,
yield or exit. `KeyboardQueue`: listeners execute and the timer ticks; nobody
has to press a key. `Ps2kInit`: the driver executes; the controller need not
answer. `Ac97`: the CPU executes and takes pending interrupts, which are level
triggered, and a running controller completes its buffers. `Boot`: the CPU
executes and the timer that is running ticks; keys and edges are free.
`Clocks`: the poller polls and the counter counts, both with interrupts on.

### Disagreements between comments and code

Four runs expect a violation; `PROJECT.json` quotes the lines.

* `scheduler_selfswitch`: a tick that hits `scheduler()` itself switches it to
  its own stale frame, which `process.c:229-230` says must not happen. So every
  scheduler property is stated up to the loss of control: `wild` is absorbing,
  and the liveness properties allow it.
* `keyboard_newest`: two keys during a poll of a full ring lose the newest key
  (`keyboard.h:80-82`).
* `keyboard_claim`: with preemption, two listeners can get one level
  (`keyboard.h:109`).
* `ps2k_timestamp`: an event's timestamp is cut to eight bits
  (`keyboard.h:52`).

## Proofs

### Scheduler

`SchedulerProofs` proves, for any table size and any number of levels
(assuming only that both are positive), that `Spec` implies `TypeOK`,
`QueuedOnce` (no process is queued twice), `NoneLost`, `QueuedIsResumable`,
`NoSelfDeadlock`, `SchedulerCanResume` and `ScanFindsSomeone`, and
`ImplementsMLFQ`.

None of these invariants is inductive alone. "No process is lost" depends on
who holds the claim, that on where the scheduler stands, that on whose frame
is live, and that on when interrupts are on. The inductive invariant `Inv` is
the conjunction of:

* `TypeOK`;
* `IFInv`: interrupts are off exactly at certain program points, the lock is
  held exactly at some of them, and code with interrupts off has saved IF on;
* `StackInv`: exactly the processes off the CPU have a live frame, and all of
  those resume with interrupts on;
* `StateInv`: process states agree with program points;
* `BootInv`: the order in which init publishes the scheduler, installs the
  handler and hands over;
* `SchedInv`: who may be on the CPU for each point of the scheduler, and when
  it has a claim;
* `ForkInv`: the child in the hands of `fork()` is fresh;
* `QueueInv`: queued once, and queued exactly when live and not held.

There is one lemma per action, lemmas about appending to and taking from the
queues, and one about the switch to the scheduler shared by yield, exit and
preemption. The refinement maps the claim to the turn and dropped zombies to
the processes that are gone; each action is an arrival, the start or end of a
turn, a retirement or a stutter.

### Keyboard rings

`KeyboardFifoProofs` proves `TypeOK` for every setting, and, where calls are
not preempted, `OneListenerPerLevel`; the invariant `Exclusive` adds that at
most one listener is inside a call and that a level about to be claimed is
unused. For any ring of three slots or more, any number of levels, listeners
and keys, it proves `WholeAndNewer` and that the rings implement `KeyFifo`
(`RingsAreQueues`), without preemption, as `keyboard.c:45-48` assumes, and
without removal: a key between clearing the head and clearing the tail leaves
an entry to the level's next listener.

The invariant `FifoInv` says what each slot holds by its distance from the
head (`Contents`: the key pressed last is one slot behind it, and so on), and
what a listener knows at each point of a poll (`Reading`). The delicate case
is a key that falls into a poll of a full ring and overwrites the entry the
poll is about to copy: the slot at `t[p]` is then the head, and what the
interrupt handler has not overwritten yet is exactly the entry dropped. The
refinement takes an entry off the abstract queue when the poll reads the tail,
not when it writes it back. Lemmas about `Dist`, the way round the ring from
one index to another, keep the remainders out of the steps.

With preemption a poll may be suspended while the head laps it, and a ring is
no longer a queue. `KeysNeverGoBack` proves what remains, `NeverBackwards`, in
every mode, as long as no two listeners hold one level; for a single listener
(`LoneListenerNeverGoesBack`, what `keyboard_preempt` runs) nothing need be
assumed. `OrderInv` says that some number of slots behind the head hold keys in
the order they were pressed, that the entries from the tail are among them and
newer than what the listener was given last, and so is the slot a suspended
poll has in hand. The number is chosen anew in each step: a stale tail written
back only ever points into this stretch or at the head.

### Keyboard decoders and controller

`KeyboardProofs` proves `InSync` (as the composition states it) and
`CaseIsShift` for all three handlers, any keyboard whose codes satisfy
`KeyCodesAssumption` (the shifts are plain keys without a character, and the
prefix is no key) and any number of bytes on the wire, and both again for
`Ps2k` with its timer (`DecodesUnderTimer`). `DecoderInv` says of every byte
not handled yet what the handler will make of it: the last byte of each key on
the wire agrees with whether the key is held (`SyncOn`), and each make byte
sent while the driver was not `astray` will meet the shift state it was sent
with (`CaseOn`). A byte sent or taken is one lemma each.

For `Ps2kInit` it proves `ConfigIsReported`, `PanicHasACause` and their
conjunction with the types, `ControllerAnswers`, whatever bytes the controller
holds at boot and however its answers, the timer and the three drivers
interleave. `ConfigInv` and `PromptInv` say which bytes are on their way (owed
or in the buffer) at each stage, the first as long as no answer was wrong, the
second as long as none was late either.

### Sound and clocks

`DeviceProofs` proves `SoundSupplied` for a ring of any size, any even number
of samples per descriptor, any clips and any number of plays
(`SoundAssumption`). The queue ahead of the controller is consecutive because a
refill is written behind it, and it is because there is room: `SoundInv` says
that the refills due (the one the handler is at, and one for a completion it
has not read) never exceed the free slots. Around this are the state of
`ac97_play()` at each register access (`Starting`), the driver's position
against the end of what is posted (`Supplied`), and the chain of descriptors
from the controller's index to the last valid one (`Chained`).

It proves `NeverEarly` for counters of any width and any frequencies, for
delays that leave room for one reading before the counter has gone round
(`ClockAssumption`). `ClockInv` says that until then the counter is where it
started plus what has been counted, so the difference the code takes is the
time passed, and the scaled clock has advanced by no more than the count
scaled.

### Boot

`BootProofs` proves `InterruptsTaken`: on any machine, for any list of devices
and any timing of their edges, every vector taken has a handler that
acknowledges it and no live entry of the I/O APIC is without its destination.
The i386 kernel unmasks the keyboard before it has registered the handler,
with interrupts off; the invariant therefore speaks of `Promised` vectors,
those whose handler is registered before the `sti`.

### Paging

`PagingProofs` proves `MemoryApart` (`HeapDisjoint`, `StacksGuarded`,
`TablesReached`), `TlbCoherent` and `MappingKept` for any amount and layout of
memory within `PagingAssumption` (the direct map is as large as memory, the
heap lies in it, a stack has two pages or more), any device ranges, remapped
pages and processes.

The tables are the difficult part: what writing one entry does to every other
page. `PageTableProofs` labels each table with its level and the pages it
serves (`Tables(own, ...)`); an entry is then on the walk of the pages it
stands for and of no others, and writing an entry, linking a new table below
one and splitting a huge page each have one lemma about the translation of
every page. `PageWalkProofs` puts them together for `get_page_entry()`,
`map_page()` and `unmap_page()`, with the frames they take from the heap and
the flush that follows. `PagingInv` in `PagingProofs` adds where each process
stands in `alloc_process()` and what it has read and not yet handed out
(`ProcOK`, `StepOK`), that blocks, stacks and tables lie apart below the
placement address (`HeapAt`), that each heap page is mapped to its own frame
and each guard to nothing (`MapAt`), and that what is cached is what the
tables say (`Coherent`). The placement address is read and written in separate
steps, and what makes this safe is in the invariant: only a process with
interrupts off is between the two.

### Pong

The second part of `SchedulerProofs` proves `PongInside` and `PointPerServe`
for any screen with room for the ball between the paddles, any speeds, any
frames and clock readings, as long as the debounce is no longer than a frame
and the clock does not go round between an event and the end of the bounded
game (`PongAssumption`). `PongInv` counts the age of the last event: a hit that
the debounce swallowed leaves `stuck` at one, and by then the event is at least
a debounce old when the next frame looks at it. The proof showed that a frame
has to be excepted: when a paddle is hit at a wall, long enough after the wall
within the same frame, the paddle's half speed may turn the ball into the wall
again, so `BallTurnsBack` starts its count over there.

### Only model-checked

* Liveness: `NoStarvation`, `YieldReturns`, `BothFinish`, `WaitingKeyIsRead`,
  `Completes`. Fairness and `ENABLED` are out of the prover's reach.
* What is computed by folding or recursing over data, since the provers have no
  induction: `LettersInTurn` (counting the letters printed), `FirmwareObeyed`
  (the walks over tables), `FramesKept` (the loops of i386 `init_paging()` and
  `map_physical_range()`), `UnwindsOnOwnStack` (the copy of a stack and its
  chain of frames), `LogIsText`, `EchoIsLine`, `ShellsObey`,
  `TerminalsShowText` (texts), and the properties of `foundation` and the
  mazes, whose operators are recursive.

## Not modelled

* Graphics primitives other than `gfx_fill_rect`, fonts and their
  data: pixels and generated tables without control state.
* Encodings: descriptor tables, interrupt stubs, the register dump of
  `panic`, Limine and multiboot structures, VBE structures, MSR and port
  accesses themselves.
* The uACPI glue other than clocks, allocation, driver matching and
  resources: stubs for a library that is not in the repository.
* `vfs.c`: one function over a table that nothing fills and nothing calls.
* `rand.c`, `math.c`, `abort.c`: numbers nothing here depends on, and a halt.
* Code that is not built or does not compile: the Fenwick tree, the stack,
  the priority queue, Kruskal, the older AVL and BST files, the superseded
  copy of pong.
* Build, scripts and documents.

One hazard is listed without a property, with the reason.

## Observations

Made while translating. None has a run of its own: either no document says
otherwise, or the code is unreachable, or the model follows the code.

Scheduler and processes. The timer does preempt init
(`process.c:250-252` says nothing does); `scheduler()` starts its rounds with
interrupts on (`scheduler.c:60-62`); with a tick the letters are no longer a
transcript of the picks (`process.c:175-177`). `fork()` copies callee-saved
registers other than the frame pointer, and pointers to the parent's locals,
without rebasing them. The x86_64 shell is never started by `kernel_main()`.

Keyboard. A byte between enabling scanning (`ps2k.c:257`) and unmasking the
pin (`ps2k.c:286`) loses its edge; `KeyboardAlive` states what remains true.
The x86_64 driver ignores a MADT override for IRQ 1; a second matching device
overwrites the ports of the first. The shared driver pushes shift keys as
events; the older i386 handler takes a fake shift for a shift. The two shifts
share a flag: releasing one while the other is held turns it off until the next
byte of a shift. A keyboard whose resources list no IRQ is given vector 32 and
replaces the timer's handler (`ps2k.c:278-281`). A key in the
middle of `remove_keyboard_listener()` leaves the released level with a head
of 1 (`keyboard.h:122`; nothing calls it yet).

Boot. The i386 search truncates 64-bit table addresses, and neither maps nor
range-checks an XSDT (`rsdp.c:156-163`). A MADT record of length zero makes
the walk endless; its checksum is never checked; overrides past the sixteenth
are dropped. The PIT at GSI 2 and the local timer share vector 32
(`time.c:21`). A vector without a handler is never acknowledged.
`ioapic_irq_base` is never used.

Memory. `kmalloc_p` and `kmalloc_ap` report a virtual address as physical;
i386 `init_paging()` marks frames past its bitmap (`paging.c:279`, `95-98`);
i386 `free_frame` and `alloc_frame` leave the TLB alone, which is why
`Tlb386Coherent` excuses pages they touched; `unmap_page` cannot tell frame 0
from an empty entry; a split drops the PAT bit.

Clocks. `uacpi_kernel_get_nanoseconds_since_boot()` overflows 64 bits after
some nine seconds at 2 GHz (`kernel_api.c:400`; `371-374` asks for a strictly
monotonic clock), so a stall near the wrap can spin for good, though it never
returns early. The `timeout` macro evaluates its condition once more after the
loop. `sleep(s)` multiplies in 32 bits; only `sleep(1)` is called.

Console and log. `KERN_WARN` has no `break` and prints as `KERN_FATAL`; the
colours of two processes can mix; `console_backspace()` does not turn
interrupts off. Rubbing out a character that wrapped, then Enter, leaves a
blank line. `peek` prints `%08x` and `%02x` literally. A format that ends
inside a directive is read past its end.

Shells and games. hush keeps `COMMAND_NAME_LEN - 1` characters of a name, so
`test-paging` cannot run (`hush.c:81-83, 104-127`). The help text of the maze
is never visible and `builtin_maze` not registered. Pong moves nothing slower
than 63 pixels a second, does not clamp paddles, leaves them where they are
from one game to the next, and swallows a hit that
follows another event too closely.

Library. Eller's generator may leave no tree when run a second time.
`rotate.c:57` differs from the diagram at `35-40`. The self check of
`rb/main.c` never reports its cases 4 and 5. `unionSet` clears only `size`
bytes of the ranks and, on a tie, raises the rank of the root that became a
child (`ufds.c:36, 63-64`): the partition is right, the depth not bounded by
ranks. `segtree_update` climbs by `i / 2` where the children of `i` are
`2i + 1` and `2i + 2`, and `segtree_query` expects another layout than
`segtree_build` makes. `do_inorder` tests `left` where it means `right`
(`traversals.c:36`). `merge_sort` sorts one cell more than it is given
(`merge.h:53`); `binary_search` never ends when the element lies above
`arr[low]` and the range is down to one cell (`binary.c:8-9`); `radix_sort`
counts into memory it has not cleared and ignores its `base` (`radix.h:2-4,
17-19`). `strcmp` and `strncmp` compare plain `char`, so bytes from 128 on
come before the others (`string.c:70-90`).
