------------------------------- MODULE Paging -------------------------------
(***************************************************************************)
(* 4-level page tables, the TLB, and the kernel stacks cut out of the heap *)
(* (arch/x86_64/memory/paging.c, mm/kheap.c, alloc_stack, init_process and *)
(* fork of kernel/scheduler/process.c).                                    *)
(*                                                                         *)
(* A table is a frame of memory holding entries; the machine (CPU) walks   *)
(* them from cr3 and may cache any translation at any time.  Pages below   *)
(* HHDM are the kernel image's half, pages from HHDM up map the frames one *)
(* to one.  The bootloader's own tables lie beyond the modelled frames.    *)
(***************************************************************************)
EXTENDS Naturals, FiniteSets

CONSTANTS UNIT,      \* allocation units in a page
          HHDM,      \* hhdm_offset, in pages
          KVIRT,     \* kernel_virt_base, in pages
          KPHYS,     \* kernel_phys_base, in pages
          NFrames,   \* frames of memory, a multiple of 4 * 2
          RamEnd,    \* the frames below are memory, those above devices
          HeapEnd,   \* bound: placement_address stays below, in pages
          BootBlocks, \* bound: blocks allocated before init_process()
          Procs,     \* processes that may call fork()
          KSTACK,    \* pages of a kernel stack, its guard included
          Ranges,    \* physical ranges <<start, size>> mapped at boot, in UNITs
          Remaps,    \* pages of the image's half remapped at boot, <<page, iskernel>>
          Touched,   \* bound: the pages whose translation is ever cached
          TlbSize    \* translations the TLB holds

VARIABLES mem,       \* the tables: frame -> index -> entry
          placement_address,
          cr3,       \* the address the CPU walks from
          tlb,       \* page -> cached translation or None
          intr,      \* interrupts enabled
          task,      \* the process on the CPU; "boot" before init_process()
          range,     \* the frames <<next, last>> map_physical_range() has to map
          fk,        \* each process' frame in alloc_process(): pc, saved flags,
                     \* and the blocks kmalloc_a() and kmalloc() returned
          stacks,    \* the stacks handed out, [start, end) in UNITs
          blocks     \* every other block handed out, and the vm_regions

pvars == <<mem, placement_address, cr3, tlb, intr, task, range, fk, stacks, blocks>>

(***************************************************************************)
(* The bump allocator and the address translation (mm/kheap.c, mm/mm.c).   *)
(* Addresses are counted in UNITs of a page, so that an allocation can     *)
(* leave placement_address inside a page.  Every operation takes           *)
(* placement_address and returns [ret, phys, next].                        *)
(***************************************************************************)
\* The layout.  The HHDM is the second entry of the top-level table, the image
\* is linked above it, and the heap lies in memory.  What is remapped one page
\* at a time is below the HHDM.
ASSUME PagingAssumption ==
    /\ UNIT \in Nat \ {0}
    /\ NFrames \in Nat \ {0} /\ NFrames % 8 = 0
    /\ HHDM = NFrames /\ KVIRT \in Nat /\ KVIRT >= 2 * NFrames /\ KPHYS \in Nat
    /\ RamEnd \in 4 .. NFrames /\ HeapEnd \in 1 .. RamEnd
    /\ KSTACK \in Nat /\ KSTACK >= 2
    /\ "boot" \notin Procs
    /\ \A r \in Ranges : /\ r[1] \in Nat /\ r[2] \in Nat
                         /\ (r[1] + r[2] + UNIT - 1) \div UNIT <= NFrames
    /\ \A r \in Remaps : r[1] \in 0 .. HHDM - 1 /\ r[2] \in BOOLEAN /\ r = <<r[1], r[2]>>
    /\ Touched \subseteq 0 .. 2 * NFrames - 1

\* if (placement_address & 0xFFF) round up to the next page
PageAlign(pa) == IF pa % UNIT # 0 THEN (pa \div UNIT + 1) * UNIT ELSE pa

kmalloc(pa, sz) == [ret |-> pa, next |-> pa + sz]

kmalloc_a(pa, sz) == kmalloc(PageAlign(pa), sz)

\* Both report placement_address itself, a virtual address, as *phys.
kmalloc_p(pa, sz) == [phys |-> pa, ret |-> pa, next |-> kmalloc(pa, sz).next]

kmalloc_ap(pa, sz) == kmalloc_p(PageAlign(pa), sz)

\* The zeroing is seen by the caller: a new table has no entry present.
kmalloc_az(pa, sz) == kmalloc_a(pa, sz)

virt_to_phys(v) == IF v >= KVIRT THEN (v - KVIRT) + KPHYS ELSE v - HHDM

phys_to_virt(f) == f + HHDM

BootPml4 == NFrames
BootPud(i) == NFrames + 1 + i
BootPd == NFrames + 3
BootImage == NFrames + 4

PML4_INDEX(v) == v \div NFrames
PDPT_INDEX(v) == (v \div (NFrames \div 2)) % 2
PD_INDEX(v)   == (v \div 4) % (NFrames \div 8)
PT_INDEX(v)   == v % 4

Pages == 0 .. 2 * NFrames - 1

Slots == 0 .. (IF NFrames \div 8 > 4 THEN NFrames \div 8 ELSE 4) - 1

NoEntry == [present |-> FALSE, f |-> 0, ps |-> FALSE, write |-> FALSE, user |-> FALSE]

Entry(f, ps, w, u) == [present |-> TRUE, f |-> f, ps |-> ps, write |-> w, user |-> u]

None == [f |-> NFrames, write |-> FALSE, user |-> FALSE]

EmptyTable == [i \in Slots |-> NoEntry]

(***************************************************************************)
(* The machine: what a walk from pml4 finds for page v.  Permissions are   *)
(* those every level grants.                                               *)
(***************************************************************************)
Reached(es, f) == [f |-> f, write |-> \A e \in es : e.write, user |-> \A e \in es : e.user]

Translate(m, pml4, v) ==
    LET e4 == m[pml4][PML4_INDEX(v)]
        e3 == m[e4.f][PDPT_INDEX(v)]
        e2 == m[e3.f][PD_INDEX(v)]
        e1 == m[e2.f][PT_INDEX(v)]
    IN  IF ~e4.present \/ ~e3.present THEN None
        ELSE IF e3.ps THEN Reached({e4, e3}, e3.f + (v % (NFrames \div 2)))
        ELSE IF ~e2.present THEN None
        ELSE IF e2.ps THEN Reached({e4, e3, e2}, e2.f + (v % 4))
        ELSE IF ~e1.present THEN None
        ELSE Reached({e4, e3, e2, e1}, e1.f)

FlushAll == [v \in Pages |-> None]

\* The CPU caches a translation.  An entry is kept until it is flushed.
Access(v) == /\ Cardinality({w \in Pages : tlb[w] # None}) < TlbSize
             /\ Translate(mem, cr3, v) # None
             /\ tlb' = [tlb EXCEPT ![v] = Translate(mem, cr3, v)]
             /\ UNCHANGED <<mem, placement_address, cr3, intr, task, range, fk, stacks, blocks>>

(***************************************************************************)
(* get_page_entry() and the operations over it.  They thread a state       *)
(* [m, pa, t]: the tables, placement_address and the TLB.                  *)
(***************************************************************************)
NULL_TABLE == NFrames + 9

NewTable(s, entries) ==
    LET a == kmalloc_az(s.pa, UNIT)
        f == virt_to_phys(a.ret \div UNIT)
    IN  [m |-> [g \in DOMAIN s.m \cup {f} |-> IF g = f THEN entries ELSE s.m[g]],
         pa |-> a.next, t |-> s.t, at |-> f]

\* Mutant: every entry of the new table maps the first frame.
split_huge_entry_flat(s, huge, step) ==
    LET n == IF step = 1 THEN 4 ELSE NFrames \div 8
    IN  NewTable(s, [i \in Slots |-> IF i < n THEN [huge EXCEPT !.ps = step # 1] ELSE NoEntry])

\* The entries of the new table carry the huge entry's rights; at the last
\* level they are not huge themselves.
split_huge_entry(s, huge, step) ==
    LET n == IF step = 1 THEN 4 ELSE NFrames \div 8
    IN  NewTable(s, [i \in Slots |->
            IF i < n THEN [huge EXCEPT !.f = @ + i * step, !.ps = step # 1] ELSE NoEntry])

\* One level of the walk: from entry i of table s.at to the table below it.
Down(s, i, create, step, c3) ==
    LET e    == s.m[s.at][i]
        new  == NewTable(s, EmptyTable)
        half == split_huge_entry(s, e, step)
    IN  IF s.at = NULL_TABLE \/ (~e.present /\ ~create) THEN [s EXCEPT !.at = NULL_TABLE]
        ELSE IF ~e.present
             THEN [new EXCEPT !.m[s.at][i] = Entry(new.at, FALSE, TRUE, FALSE)]
        ELSE IF e.ps
             THEN [half EXCEPT !.m[s.at][i] = Entry(half.at, FALSE, TRUE, e.user),
                               !.t = IF c3 = cr3 THEN FlushAll ELSE @]
        ELSE [s EXCEPT !.at = e.f]

get_page_entry(s, v, create, c3) ==
    Down(Down(Down([s EXCEPT !.at = c3], PML4_INDEX(v), create, 0, c3),
              PDPT_INDEX(v), create, 4, c3),
         PD_INDEX(v), create, 1, c3)

\* Mutant: the page's cached translation survives.
map_page_noflush(s, v, f, iskernel, writeable, c3) ==
    LET g == get_page_entry(s, v, TRUE, c3)
    IN  [g EXCEPT !.m[g.at][PT_INDEX(v)] = Entry(f, FALSE, writeable, ~iskernel)]

map_page(s, v, f, iskernel, writeable, c3) ==
    LET g == get_page_entry(s, v, TRUE, c3)
    IN  [g EXCEPT !.m[g.at][PT_INDEX(v)] = Entry(f, FALSE, writeable, ~iskernel),
                  !.t[v] = None]

\* map_physical_range() on one frame: a page that is mapped is left alone.
map_physical_frame(s, f, c3) ==
    LET v == phys_to_virt(f)
        g == get_page_entry(s, v, FALSE, c3)
    IN  IF g.at # NULL_TABLE /\ g.m[g.at][PT_INDEX(v)].present
        THEN g ELSE map_page(g, v, f, TRUE, TRUE, c3)

\* Returns the frame in .at, or 0 when nothing was mapped.
unmap_page(s, v, c3) ==
    LET g == get_page_entry(s, v, FALSE, c3)
        e == g.m[g.at][PT_INDEX(v)]
    IN  IF g.at = NULL_TABLE \/ ~e.present THEN [g EXCEPT !.at = 0]
        ELSE [g EXCEPT !.m[g.at][PT_INDEX(v)] = NoEntry,
                       !.t[v] = IF c3 = cr3 THEN None ELSE @,
                       !.at = e.f]

State == [m |-> mem, pa |-> placement_address, t |-> tlb, at |-> NULL_TABLE]

Take(s) == /\ mem' = s.m
           /\ placement_address' = s.pa
           /\ tlb' = s.t

Fits(s) == s.pa <= (HHDM + HeapEnd) * UNIT

(***************************************************************************)
(* Boot: the ranges kernel_main() and the ACPI code map, blocks for the    *)
(* ACPI interpreter and the back buffer, and pages remapped one by one.    *)
(***************************************************************************)
Booting == task = "boot" /\ fk["boot"].pc = "idle" /\ range[1] > range[2]

boot_map_range(r) ==
    /\ Booting
    /\ range' = <<r[1] \div UNIT, (r[1] + r[2] + UNIT - 1) \div UNIT - 1>>
    /\ UNCHANGED <<mem, placement_address, cr3, tlb, intr, task, fk, stacks, blocks>>

\* One frame of the loop: the CPU may cache a translation between two.
map_physical_range ==
    LET s == map_physical_frame(State, range[1], cr3)
    IN  /\ range[1] <= range[2]
        /\ Fits(s)
        /\ Take(s)
        /\ range' = <<range[1] + 1, range[2]>>
        /\ UNCHANGED <<cr3, intr, task, fk, stacks, blocks>>

boot_map_page(v, f, iskernel, writeable) ==
    LET s == map_page(State, v, f, iskernel, writeable, cr3)
    IN  /\ Booting
        /\ Fits(s)
        /\ Take(s)
        /\ UNCHANGED <<cr3, intr, task, range, fk, stacks, blocks>>

uacpi_kernel_alloc ==
    LET a == kmalloc(placement_address, 1)
    IN  /\ Booting
        /\ Cardinality(blocks) < BootBlocks
        /\ placement_address' = a.next
        /\ blocks' = blocks \cup {<<a.ret, a.next>>}
        /\ UNCHANGED <<mem, cr3, tlb, intr, task, range, fk, stacks>>

(***************************************************************************)
(* alloc_process() up to its stack, one step per access to                 *)
(* placement_address.  A timer interrupt can fall between any two steps    *)
(* while interrupts are enabled.                                           *)
(***************************************************************************)
Me == fk[task]

At(pc) == task \in DOMAIN fk /\ Me.pc = pc

\* The room for a stack, its vm_region and two tables bounds the heap.
SaveFlags(masked) ==
    /\ At("idle") /\ range[1] > range[2]
    /\ placement_address + (KSTACK + 3) * UNIT <= (HHDM + HeapEnd) * UNIT
    /\ fk' = [fk EXCEPT ![task].pc = "align", ![task].flags = intr]
    /\ intr' = (intr /\ ~masked)
    /\ UNCHANGED <<mem, placement_address, cr3, tlb, task, range, stacks, blocks>>

\* Mutant: the flags are saved and interrupts stay on.
irq_save_only == SaveFlags(FALSE)

irq_save == SaveFlags(TRUE)

kmalloc_a_align ==
    /\ At("align")
    /\ placement_address' = PageAlign(placement_address)
    /\ fk' = [fk EXCEPT ![task].pc = "read"]
    /\ UNCHANGED <<mem, cr3, tlb, intr, task, range, stacks, blocks>>

\* ret = placement_address
kmalloc_read ==
    /\ At("read") \/ At("vma")
    /\ fk' = IF Me.pc = "read"
             THEN [fk EXCEPT ![task].pc = "bump", ![task].stack = placement_address]
             ELSE [fk EXCEPT ![task].pc = "vmabump", ![task].vma = placement_address]
    /\ UNCHANGED <<mem, placement_address, cr3, tlb, intr, task, range, stacks, blocks>>

\* placement_address += sz
kmalloc_bump ==
    /\ At("bump") \/ At("vmabump")
    /\ IF Me.pc = "bump"
       THEN /\ placement_address' = kmalloc(placement_address, KSTACK * UNIT).next
            /\ fk' = [fk EXCEPT ![task].pc = "vma"]
       ELSE /\ placement_address' = kmalloc(placement_address, 1).next
            /\ fk' = [fk EXCEPT ![task].pc = "guard"]
    /\ UNCHANGED <<mem, cr3, tlb, intr, task, range, stacks, blocks>>

\* The first page of the stack becomes its guard.
alloc_stack_guard ==
    LET s == unmap_page(State, Me.stack \div UNIT, cr3)
    IN  /\ At("guard")
        /\ Take(s)
        /\ stacks' = stacks \cup {<<Me.stack, Me.stack + KSTACK * UNIT>>}
        /\ blocks' = blocks \cup {<<Me.vma, Me.vma + 1>>}
        /\ fk' = [fk EXCEPT ![task].pc = "restore"]
        /\ task' = IF s.at = 0 THEN "panic" ELSE task
        /\ UNCHANGED <<cr3, intr, range>>

irq_restore == /\ At("restore") /\ task # "boot"
               /\ intr' = Me.flags
               /\ fk' = [fk EXCEPT ![task].pc = "idle"]
               /\ UNCHANGED <<mem, placement_address, cr3, tlb, task, range, stacks, blocks>>

SwitchToInit(p, table) ==
    LET a == kmalloc_a(placement_address, UNIT)
        f == virt_to_phys(a.ret \div UNIT)
    IN  /\ task = "boot" /\ At("restore")
        /\ a.next <= (HHDM + HeapEnd) * UNIT
        /\ mem' = [g \in DOMAIN mem \cup {f} |-> IF g = f THEN table ELSE mem[g]]
        /\ placement_address' = a.next
        /\ cr3' = f
        /\ tlb' = FlushAll
        /\ task' = p
        /\ intr' = TRUE
        /\ UNCHANGED <<range, fk, stacks, blocks>>

\* Only the top-level table is copied, the lower levels stay shared; then
\* ctx_switch() loads it and init runs with interrupts on (forkret()).
init_process(p) == SwitchToInit(p, mem[cr3])

\* A tick switches processes.  They share cr3, and swtch() writes it anyway.
preempt(p) == /\ intr /\ task \in Procs /\ p # task
              /\ task' = p
              /\ tlb' = FlushAll
              /\ UNCHANGED <<mem, placement_address, cr3, intr, range, fk, stacks, blocks>>

\* The tables the bootloader leaves: the image's half has one huge page, the
\* HHDM's a huge page for its first half and smaller ones up to RamEnd.
BootEntry(f, i) ==
    CASE f = BootPml4 /\ i < 2      -> Entry(BootPud(i), FALSE, TRUE, FALSE)
      [] f = BootPud(0) /\ i = 1    -> Entry(BootImage, FALSE, TRUE, FALSE)
      [] f = BootImage /\ i = 0     -> Entry(RamEnd - 4, TRUE, FALSE, FALSE)
      [] f = BootPud(1) /\ i = 0    -> Entry(0, TRUE, TRUE, FALSE)
      [] f = BootPud(1) /\ i = 1    -> Entry(BootPd, FALSE, TRUE, FALSE)
      [] f = BootPd /\ NFrames \div 2 + 4 * i < RamEnd
                                    -> Entry(NFrames \div 2 + 4 * i, TRUE, TRUE, FALSE)
      [] OTHER                      -> NoEntry

PInit ==
    /\ mem = [f \in {BootPml4, BootPud(0), BootPud(1), BootPd, BootImage} |->
                 [i \in Slots |-> BootEntry(f, i)]]
    /\ placement_address = (HHDM + 1) * UNIT
    /\ cr3 = BootPml4
    /\ tlb = FlushAll
    /\ intr = TRUE
    /\ task = "boot"
    /\ range = <<1, 0>>
    /\ fk = [p \in Procs \cup {"boot"} |-> [pc |-> "idle", flags |-> FALSE, stack |-> 0, vma |-> 0]]
    /\ stacks = {}
    /\ blocks = {}

PNext == \/ \E v \in Touched : Access(v)
         \/ \E r \in Ranges : boot_map_range(r)
         \/ map_physical_range
         \/ \E r \in Remaps : boot_map_page(r[1], RamEnd - 1, r[2], ~r[2])
         \/ uacpi_kernel_alloc
         \/ irq_save \/ kmalloc_a_align \/ kmalloc_read \/ kmalloc_bump
         \/ alloc_stack_guard \/ irq_restore
         \/ \E p \in Procs : init_process(p) \/ preempt(p)

PSpec == PInit /\ [][PNext]_pvars

(***************************************************************************)
(* Properties.                                                             *)
(***************************************************************************)
Seen(v) == Translate(mem, cr3, v)

Overlap(a, b) == a[1] < b[2] /\ b[1] < a[2]

TableBlocks == {<<phys_to_virt(f) * UNIT, (phys_to_virt(f) + 1) * UNIT>> :
                   f \in {g \in DOMAIN mem : g < NFrames}}

\* The heap hands out no byte twice: two stacks, vm_regions, ACPI blocks or
\* page tables never overlap, although kmalloc_a() reads and advances
\* placement_address in separate steps and fork() can be preempted.
HeapDisjoint ==
    /\ \A a, b \in stacks \cup blocks \cup TableBlocks : a # b => ~Overlap(a, b)
    /\ stacks \cap (blocks \cup TableBlocks) = {}
    /\ \A p, q \in DOMAIN fk : (p # q /\ fk[p].pc \in {"vma", "vmabump", "guard"}
                                      /\ fk[q].pc \in {"vma", "vmabump", "guard"})
                               => fk[p].stack # fk[q].stack

\* Every kernel stack is usable above its guard and unreachable in it: the
\* guard page has no translation and no cached one, the other pages reach
\* their own frames, writable (alloc_stack() unmaps the first page of a
\* block that a huge page may have mapped).
StacksGuarded ==
    \A s \in stacks :
        LET g == s[1] \div UNIT
        IN  /\ Seen(g) = None /\ tlb[g] = None
            /\ \A v \in g + 1 .. s[2] \div UNIT - 1 :
                   Seen(v).f = v - HHDM /\ Seen(v).write

\* What the CPU has cached is what the tables say: every path that changes
\* an entry (map_page, unmap_page, a split, the switch to init's table)
\* drops the stale translation.
TlbCoherent == \A v \in Pages : tlb[v] # None => tlb[v] = Seen(v)

\* The page tables stay reachable through the HHDM, where get_page_entry()
\* reads and writes them: no guard page and no remapping hides one.
TablesReached == \A f \in DOMAIN mem : f < NFrames =>
                     Seen(phys_to_virt(f)) = [f |-> f, write |-> TRUE, user |-> FALSE]

\* Memory is handed out once and stays where it was mapped: all three.
MemoryApart == HeapDisjoint /\ StacksGuarded /\ TablesReached

\* What a step does to the translations: it changes those of a guard page, of
\* a page it remaps, and of a page of the HHDM that had none.
Remapping ==
    <<mem, cr3>>' # <<mem, cr3>> =>
       \A v \in Pages : Seen(v)' # Seen(v) =>
          \/ At("guard") /\ v = Me.stack \div UNIT /\ Seen(v)' = None
          \/ task = "boot" /\ \E k \in BOOLEAN : <<v, k>> \in Remaps
          \/ task = "boot" /\ v >= HHDM /\ Seen(v) = None /\ Seen(v)'.f = v - HHDM

\* A step changes the translation, rights included, of the page it names and
\* of no other: splitting a huge page and copying the top-level table leave
\* "the mapping unchanged", map_physical_range() never replaces a mapping.
MappingKept == [][Remapping]_pvars
=============================================================================
