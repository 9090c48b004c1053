-------------------------------- MODULE Boot --------------------------------
(***************************************************************************)
(* How the two kernels bring their interrupts up: kernel_main() of either  *)
(* architecture from initialize_apic() on, with the I/O APIC               *)
(* (kernel/apic/apic.c), the timer (kernel/time.c), the probing of the     *)
(* keyboard (x86_64: acpi_bus.c, ps2k.c; i386: keyboard.c), AC97's         *)
(* ac97_init(), and the dispatch of interrupts (isr.c).                    *)
(*                                                                         *)
(* The devices, the I/O APIC and the local APIC are external: an edge on a *)
(* masked pin is lost, one on an unmasked pin requests its vector, and a   *)
(* vector whose handler does not acknowledge it stays in service, after    *)
(* which no other of its priority class is delivered.  The keyboard raises *)
(* its line when a byte arrives in the empty output buffer.                *)
(*                                                                         *)
(* What the kernel reads from the firmware comes first: the RSDP and the   *)
(* table of interrupt controllers (kernel/apic/rsdp.c, madt.c), the        *)
(* devices of the ACPI namespace (acpi_bus.c, ps2k.c) and the PCI bus      *)
(* (drivers/pci.c).                                                        *)
(*                                                                         *)
(* A firmware is a record:                                                 *)
(*   paragraphs  what the i386 search for the RSDP meets, in order         *)
(*   given       the RSDP the boot loader hands to the x86_64 kernel       *)
(*   tables      the ACPI tables by address; a root table lists addresses, *)
(*               a MADT has records                                        *)
(*   devices     the devices of the namespace, in the order of the walk    *)
(*   functions   the identifiers found on the PCI bus, in the order of the *)
(*               search, with the interrupt line                           *)
(* An address stands for a page.                                           *)
(***************************************************************************)
EXTENDS Integers, Sequences, SequencesExt

CONSTANTS
    TableMin, TableMax,   \* i386: addresses a table is accepted at, [0x1000, 0x40000000)
    AddressSpace,         \* i386: 4 GB
    MaxOverrides,         \* entries of irq_overrides[]
    ps2k_pnp_ids,         \* identifiers the keyboard driver matches
    AC97                  \* <<AC97_VENDOR_ID, AC97_DEVICE_ID>>

NULL == 0
NoRsdp == [sig |-> "null"]
NoFunction == [id |-> <<>>]
Absent == [sig |-> "none", entries |-> <<>>]

\* The first element of s that P holds of, or none.
First(s, P(_), none) == LET k == SelectInSeq(s, P) IN IF k = 0 THEN none ELSE s[k]
-----------------------------------------------------------------------------
\* sum20 and sum: the sums of the first 20 and of all bytes.
validate_rsdp_checksum(rsdp) ==
    IF rsdp = NoRsdp THEN 1
    ELSE IF rsdp.sum20 # 0 THEN 2
    ELSE IF rsdp.revision >= 2 /\ rsdp.sum # 0 THEN 3
    ELSE 0

find_rsdp(fw) ==
    First(fw.paragraphs,
          LAMBDA p : p.sig = "RSD PTR " /\ validate_rsdp_checksum(p) = 0, NoRsdp)

TableAt(fw, addr) == IF addr \in DOMAIN fw.tables THEN fw.tables[addr] ELSE Absent

InRange(addr) == addr >= TableMin /\ addr < TableMax

\* The addresses looked at, of those a root table lists: the i386 kernel
\* takes their low 32 bits and leaves out the ones it cannot map.
Searched(isa, entries) ==
    IF isa = "x86_64" THEN entries
    ELSE SelectSeq([i \in DOMAIN entries |-> entries[i] % AddressSpace], InRange)

\* The root table: the XSDT from revision 2 on, else the RSDT.
RootRefused(isa, rsdp) ==
    /\ isa = "i386"
    /\ IF rsdp.revision >= 2 THEN rsdp.root >= AddressSpace ELSE ~InRange(rsdp.root)

find_madt(isa, fw, rsdp) ==
    IF rsdp = NoRsdp \/ RootRefused(isa, rsdp) THEN NULL
    ELSE First(Searched(isa, TableAt(fw, rsdp.root).entries),
               LAMBDA a : TableAt(fw, a).sig = "APIC", NULL)
-----------------------------------------------------------------------------
NoTables == [lapic |-> NULL, ioapic |-> NULL, overrides |-> <<>>]

\* One record: the first I/O APIC (type 1) and the overrides of interrupt
\* sources (type 2), as many as fit, are kept.
parse_record(found, rec) ==
    CASE rec.type = 1 /\ found.ioapic = NULL -> [found EXCEPT !.ioapic = rec.address]
      [] rec.type = 2 /\ Len(found.overrides) < MaxOverrides ->
           [found EXCEPT !.overrides = Append(@, rec)]
      [] OTHER -> found

parse_madt(madt) ==
    FoldLeft(parse_record, [NoTables EXCEPT !.lapic = madt.lapic], madt.records)

\* What initialize_apic() finds; nothing on each of its early returns.
initialize_apic(isa, fw) ==
    LET rsdp == IF isa = "i386" THEN find_rsdp(fw) ELSE fw.given
        madt == find_madt(isa, fw, rsdp)
    IN  IF validate_rsdp_checksum(rsdp) # 0 \/ madt = NULL THEN NoTables
        ELSE parse_madt(TableAt(fw, madt))

KeyboardOverride(found) ==
    First(found.overrides, LAMBDA o : o.source = 1, [gsi |-> 1, flags |-> 0])

get_keyboard_global_irq(found) == KeyboardOverride(found).gsi

get_keyboard_irq_flags(found) == KeyboardOverride(found).flags
-----------------------------------------------------------------------------

\* acpi_init_one_device(): the device's own identifier, then the compatible
\* ones; one driver is registered, so the order decides nothing.
Matches(dev, ids) == dev.hid \in ids \/ \E i \in DOMAIN dev.cids : dev.cids[i] \in ids

\* ps2k_handle_resource(), until the end tag: the first port is the data
\* port, each later one the command port, the last interrupt counts.
handle_resource(res, r) ==
    CASE res.done -> res
      [] r.type = "end" -> [res EXCEPT !.done = TRUE]
      [] r.type = "io" /\ res.data = NULL -> [res EXCEPT !.data = r.value]
      [] r.type = "io" /\ res.data # NULL -> [res EXCEPT !.cmd = r.value]
      [] r.type = "irq" -> [res EXCEPT !.irq = r.value]
      [] OTHER -> res

ps2k_handle_resource(res, list) == [FoldLeft(handle_resource, res, list) EXCEPT !.done = FALSE]

\* The function found first; an empty one reads as all ones.
pci_find_device(fw, id) == First(fw.functions, LAMBDA f : f.id = id, NoFunction)
-----------------------------------------------------------------------------

CONSTANTS
    Firmwares,        \* the machines
    Pins,             \* of the I/O APIC
    LocalId,          \* the identifier of the local APIC
    SleepTicks,       \* ticks in sleep(1)
    CodecTicks        \* ticks the codec is waited for

VARIABLES
    isa, fw,          \* the kernel and the machine
    at,               \* the next step of kernel_main()
    fate, why,        \* "booting", "up" or "stopped", and what stopped it
    found,            \* what initialize_apic() found
    device,           \* the ACPI device acpi_bus_enumerate() looks at
    resources,        \* ps2k_resources
    redir,            \* the redirection entries of the I/O APIC
    handlers,         \* interrupt_handlers: whose handler a vector has, if any
    enabled,          \* whether interrupts are
    remaining,        \* of the ticks being waited for
    ticking,          \* the local APIC's timer is running
    scanning,         \* keyboard: sends what is typed
    full,             \* keyboard: a byte is in the output buffer
    early,            \* history: it came when its pin was masked
    irr, in_service   \* local APIC: vectors requested; vectors not acknowledged

kernel_vars == <<at, fate, why, found, device, resources, redir, handlers, enabled,
                 remaining, ticking>>
keyboard_vars == <<scanning, full, early>>
apic_vars == <<irr, in_service>>
bvars == <<isa, fw, kernel_vars, keyboard_vars, apic_vars>>

TIMER_INT_NO == 32
TimerPin == 2
AC97Flags == 8
NoResources == [irq |-> 0, data |-> NULL, cmd |-> NULL, done |-> FALSE]
Masked == [masked |-> TRUE, vector |-> 0, dest |-> 0, low |-> FALSE, level |-> FALSE]
Vectors == {TIMER_INT_NO + p : p \in Pins}

BTypeOK ==
    /\ isa \in {"i386", "x86_64"} /\ fw \in Firmwares
    /\ fate \in {"booting", "up", "stopped"}
    /\ why \in {"", "rsdp", "ioapic", "keyboard", "ac97", "codec"}
    /\ device \in 1 .. Len(fw.devices) + 1
    /\ \A p \in Pins : redir[p].vector \in Vectors \cup {0, 33}
    /\ handlers \in [DOMAIN handlers -> {"timer", "kbd", "ac97"}]
    /\ DOMAIN handlers \subseteq Vectors \cup {33} /\ irr \subseteq Vectors \cup {33}
    /\ {enabled, ticking, scanning, full, early} \subseteq BOOLEAN
    /\ remaining \in 0 .. SleepTicks + CodecTicks + 1

BInit ==
    /\ isa \in {"i386", "x86_64"} /\ fw \in Firmwares
    /\ at = "initialize_apic" /\ fate = "booting" /\ why = ""
    /\ found = NoTables /\ device = 1 /\ resources = NoResources
    /\ redir = [p \in Pins |-> Masked]
    /\ handlers = [v \in {} |-> "none"] /\ enabled = FALSE /\ remaining = 0 /\ ticking = FALSE
    /\ scanning = FALSE /\ full = FALSE /\ early = FALSE
    /\ irr = {} /\ in_service = {}
-----------------------------------------------------------------------------
(* kernel_main(), step by step                                             *)

\* Each step with the one after it.
\* Mutant: the keyboard is routed when it has been set up.
kernel_main_i386_route_last ==
    [initialize_apic |-> "check_ioapic", check_ioapic |-> "timer_dest",
     timer_dest |-> "timer_entry", timer_entry |-> "init_timer",
     init_timer |-> "kbd_controller", kbd_controller |-> "kbd_register",
     kbd_register |-> "kbd_dest", kbd_dest |-> "kbd_entry",
     kbd_entry |-> "sti", sti |-> "ac97_find", ac97_find |-> "ac97_reset",
     ac97_reset |-> "ac97_codec", ac97_codec |-> "ac97_register",
     ac97_register |-> "ac97_dest", ac97_dest |-> "ac97_entry",
     ac97_entry |-> "ready"]

kernel_main_i386 ==
    [initialize_apic |-> "check_ioapic", check_ioapic |-> "timer_dest",
     timer_dest |-> "timer_entry", timer_entry |-> "kbd_dest",
     kbd_dest |-> "kbd_entry", kbd_entry |-> "init_timer",
     init_timer |-> "kbd_controller", kbd_controller |-> "kbd_register",
     kbd_register |-> "sti", sti |-> "ac97_find", ac97_find |-> "ac97_reset",
     ac97_reset |-> "ac97_codec", ac97_codec |-> "ac97_register",
     ac97_register |-> "ac97_dest", ac97_dest |-> "ac97_entry",
     ac97_entry |-> "ready"]

\* Mutant: the sleep test comes before interrupts are enabled.
kernel_main_x86_64_sleep_first ==
    [initialize_apic |-> "check_ioapic", check_ioapic |-> "timer_dest",
     timer_dest |-> "timer_entry", timer_entry |-> "init_timer",
     init_timer |-> "acpi_bus", acpi_bus |-> "kbd_register",
     kbd_register |-> "kbd_controller", kbd_controller |-> "kbd_dest",
     kbd_dest |-> "kbd_entry", kbd_entry |-> "acpi_bus", sleep |-> "slept",
     slept |-> "sti", sti |-> "ac97_find", ac97_find |-> "ac97_reset",
     ac97_reset |-> "ac97_codec", ac97_codec |-> "ac97_register",
     ac97_register |-> "ac97_dest", ac97_dest |-> "ac97_entry",
     ac97_entry |-> "ready", devices_done |-> "sleep"]

\* A device that is set up is followed by the next one of the namespace, and
\* the last one by the rest of the boot.
kernel_main_x86_64 ==
    [initialize_apic |-> "check_ioapic", check_ioapic |-> "timer_dest",
     timer_dest |-> "timer_entry", timer_entry |-> "init_timer",
     init_timer |-> "acpi_bus", acpi_bus |-> "kbd_register",
     kbd_register |-> "kbd_controller", kbd_controller |-> "kbd_dest",
     kbd_dest |-> "kbd_entry", kbd_entry |-> "acpi_bus", sti |-> "sleep",
     sleep |-> "slept", slept |-> "ac97_find", ac97_find |-> "ac97_reset",
     ac97_reset |-> "ac97_codec", ac97_codec |-> "ac97_register",
     ac97_register |-> "ac97_dest", ac97_dest |-> "ac97_entry",
     ac97_entry |-> "ready", devices_done |-> "sti"]

After(step) == IF isa = "i386" THEN kernel_main_i386[step] ELSE kernel_main_x86_64[step]

AtStep(step) == fate = "booting" /\ at = step

\* The machine goes on with the next step,
Proceed(step) == at' = After(step) /\ UNCHANGED <<fate, why>>

\* or halts for good.
Stop(reason) == fate' = "stopped" /\ why' = reason /\ UNCHANGED at

find_tables ==
    /\ AtStep("initialize_apic")
    /\ IF isa = "x86_64" /\ fw.given = NoRsdp
       THEN Stop("rsdp") /\ UNCHANGED found
       ELSE Proceed("initialize_apic") /\ found' = initialize_apic(isa, fw)
    /\ UNCHANGED <<isa, fw, device, resources, redir, handlers, enabled, remaining,
                   ticking, keyboard_vars, apic_vars>>

check_ioapic ==
    /\ AtStep("check_ioapic")
    /\ IF found.ioapic = NULL THEN Stop("ioapic") ELSE Proceed("check_ioapic")
    /\ UNCHANGED <<isa, fw, found, device, resources, redir, handlers, enabled,
                   remaining, ticking, keyboard_vars, apic_vars>>
-----------------------------------------------------------------------------
(* configure_ioapic_irq_with_flags()                                       *)

DestStep == [timer |-> "timer_dest", kbd |-> "kbd_dest", ac97 |-> "ac97_dest"]
EntryStep == [timer |-> "timer_entry", kbd |-> "kbd_entry", ac97 |-> "ac97_entry"]

Bit(n, weight) == (n \div weight) % 2 = 1

Routed(e, vector, flags) ==
    [e EXCEPT !.masked = FALSE, !.vector = vector,
              !.low = Bit(flags, 2), !.level = Bit(flags, 8)]

\* What is routed, and how, by the step called `name`.
Route(name) ==
    CASE name = "timer" -> [pin |-> TimerPin, vector |-> TIMER_INT_NO, flags |-> 0]
      [] name = "kbd" /\ isa = "i386" ->
           [pin |-> get_keyboard_global_irq(found), vector |-> 33,
            flags |-> get_keyboard_irq_flags(found)]
      [] name = "kbd" /\ isa = "x86_64" ->
           [pin |-> resources.irq, vector |-> 32 + resources.irq, flags |-> 0]
      [] name = "ac97" ->
           LET line == pci_find_device(fw, AC97).line
           IN  [pin |-> line, vector |-> 32 + line, flags |-> AC97Flags]

WriteDest(name) ==
    redir' = [redir EXCEPT ![Route(name).pin].dest = LocalId]

WriteEntry(name) ==
    redir' = [redir EXCEPT ![Route(name).pin] =
                Routed(@, Route(name).vector, Route(name).flags)]

\* Mutant: the entry is unmasked first and then aimed.
configure_ioapic_irq_entry_first(name) ==
    /\ \/ AtStep(DestStep[name]) /\ Proceed(DestStep[name]) /\ WriteEntry(name)
       \/ AtStep(EntryStep[name]) /\ Proceed(EntryStep[name]) /\ WriteDest(name)
    /\ UNCHANGED <<isa, fw, found, device, resources, handlers, enabled, remaining,
                   ticking, keyboard_vars, apic_vars>>

\* The destination is written before the half with the vector and the mask.
configure_ioapic_irq(name) ==
    /\ \/ AtStep(DestStep[name]) /\ Proceed(DestStep[name]) /\ WriteDest(name)
       \/ AtStep(EntryStep[name]) /\ Proceed(EntryStep[name]) /\ WriteEntry(name)
    /\ UNCHANGED <<isa, fw, found, device, resources, handlers, enabled, remaining,
                   ticking, keyboard_vars, apic_vars>>
-----------------------------------------------------------------------------
(* The rest of kernel_main()                                               *)

\* What an edge on a pin asks for.
Requested(pin) == {redir[p].vector : p \in {q \in Pins : q = pin /\ ~redir[q].masked}}

\* A second registration for a vector replaces the first.
register_interrupt_handler(vector, name) ==
    handlers' = [v \in DOMAIN handlers \cup {vector} |-> IF v = vector THEN name ELSE handlers[v]]

\* init_timer(): the handler, then the timer of the local APIC.
init_timer ==
    /\ AtStep("init_timer") /\ Proceed("init_timer")
    /\ register_interrupt_handler(TIMER_INT_NO, "timer")
    /\ ticking' = TRUE
    /\ UNCHANGED <<isa, fw, found, device, resources, redir, enabled, remaining,
                   keyboard_vars, apic_vars>>

\* acpi_bus_enumerate(): the next device; ps2k_probe() reads the resources of
\* one that matches (it may fail to).
acpi_init_one_device ==
    LET dev == fw.devices[device] IN
    /\ AtStep("acpi_bus") /\ device <= Len(fw.devices)
    /\ device' = device + 1
    /\ \/ /\ Matches(dev, ps2k_pnp_ids)
          /\ resources' = ps2k_handle_resource(resources, dev.resources)
          /\ Proceed("acpi_bus")
       \/ /\ ~Matches(dev, ps2k_pnp_ids) \/ dev.unreadable
          /\ UNCHANGED <<at, fate, why, resources>>
    /\ UNCHANGED <<isa, fw, found, redir, handlers, enabled, remaining, ticking,
                   keyboard_vars, apic_vars>>

acpi_bus_done ==
    /\ AtStep("acpi_bus") /\ device > Len(fw.devices)
    /\ Proceed("devices_done")
    /\ UNCHANGED <<isa, fw, found, device, resources, redir, handlers,
                   enabled, remaining, ticking, keyboard_vars, apic_vars>>

\* init_ps2_controller() or init_ps2k_driver() (module Ps2kInit): the keyboard
\* sends from now on; the answers, which are polled, raise its line too.
kbd_controller ==
    /\ AtStep("kbd_controller")
    /\ \/ /\ Proceed("kbd_controller")
          /\ scanning' = TRUE /\ full' = FALSE
          /\ irr' \in {irr, irr \cup Requested(Route("kbd").pin)}
       \/ Stop("keyboard") /\ UNCHANGED <<scanning, full, irr>>
    /\ UNCHANGED <<isa, fw, found, device, resources, redir, handlers, enabled,
                   remaining, ticking, early, in_service>>

kbd_register ==
    /\ AtStep("kbd_register") /\ Proceed("kbd_register")
    /\ register_interrupt_handler(Route("kbd").vector, "kbd")
    /\ UNCHANGED <<isa, fw, found, device, resources, redir, enabled, remaining,
                   ticking, keyboard_vars, apic_vars>>

sti ==
    /\ AtStep("sti") /\ Proceed("sti")
    /\ enabled' = TRUE
    /\ UNCHANGED <<isa, fw, found, device, resources, redir, handlers, remaining,
                   ticking, keyboard_vars, apic_vars>>

\* sleep_ms() takes the time and spins until the ticks have passed.
sleep_test ==
    /\ \/ AtStep("sleep") /\ Proceed("sleep") /\ remaining' = SleepTicks
       \/ AtStep("slept") /\ remaining = 0 /\ Proceed("slept") /\ UNCHANGED remaining
    /\ UNCHANGED <<isa, fw, found, device, resources, redir, handlers, enabled,
                   ticking, keyboard_vars, apic_vars>>
-----------------------------------------------------------------------------
(* ac97_init()                                                             *)

\* Without the device the x86_64 kernel stops and the i386 kernel goes on.
ac97_find ==
    /\ AtStep("ac97_find")
    /\ IF pci_find_device(fw, AC97) # NoFunction
       THEN Proceed("ac97_find") /\ remaining' = 1
       ELSE /\ UNCHANGED remaining
            /\ IF isa = "x86_64" THEN Stop("ac97") ELSE at' = "ready" /\ UNCHANGED <<fate, why>>
    /\ UNCHANGED <<isa, fw, found, device, resources, redir, handlers, enabled,
                   ticking, keyboard_vars, apic_vars>>

controller_reset ==
    /\ AtStep("ac97_reset") /\ remaining = 0 /\ Proceed("ac97_reset")
    /\ remaining' = CodecTicks
    /\ UNCHANGED <<isa, fw, found, device, resources, redir, handlers, enabled,
                   ticking, keyboard_vars, apic_vars>>

\* timeout(): until the codec is ready or the ticks have passed; then the
\* condition is looked at once more.
ready_codec ==
    /\ AtStep("ac97_codec")
    /\ \/ fw.codec /\ Proceed("ac97_codec")
       \/ ~fw.codec /\ remaining = 0 /\ Stop("codec")
    /\ UNCHANGED <<isa, fw, found, device, resources, redir, handlers, enabled,
                   remaining, ticking, keyboard_vars, apic_vars>>

ac97_register ==
    /\ AtStep("ac97_register") /\ Proceed("ac97_register")
    /\ register_interrupt_handler(Route("ac97").vector, "ac97")
    /\ UNCHANGED <<isa, fw, found, device, resources, redir, enabled, remaining,
                   ticking, keyboard_vars, apic_vars>>

ready ==
    /\ AtStep("ready")
    /\ fate' = "up"
    /\ UNCHANGED <<isa, fw, at, why, found, device, resources, redir, handlers,
                   enabled, remaining, ticking, keyboard_vars, apic_vars>>
-----------------------------------------------------------------------------
(* Interrupts                                                              *)

\* isr_handler(): a vector without a handler is not acknowledged either.  The
\* timer's counts a tick and the keyboard's reads the byte.
Handles(v, name) == v \in DOMAIN handlers /\ handlers[v] = name
isr_handler(v) ==
    /\ in_service' = in_service \cup ({v} \ DOMAIN handlers)
    /\ remaining' = IF Handles(v, "timer") /\ remaining > 0 THEN remaining - 1 ELSE remaining
    /\ full' = (full /\ ~Handles(v, "kbd"))

interrupt(v) ==
    /\ v \in irr /\ enabled /\ fate # "stopped" /\ in_service = {}
    /\ irr' = irr \ {v}
    /\ isr_handler(v)
    /\ UNCHANGED <<isa, fw, at, fate, why, found, device, resources, redir, handlers,
                   enabled, ticking, scanning, early>>

Edge(pin) == irr' = irr \cup Requested(pin)

timer_fires ==
    /\ ticking /\ irr' = irr \cup {TIMER_INT_NO}
    /\ UNCHANGED <<isa, fw, kernel_vars, keyboard_vars, in_service>>

\* The legacy timer, at pin 2, runs from before the kernel started.
pit_fires ==
    /\ Edge(TimerPin)
    /\ UNCHANGED <<isa, fw, kernel_vars, keyboard_vars, in_service>>

\* The pin the keyboard is wired to: 1 unless the firmware says otherwise.
MadtRecords ==
    UNION {ToSet(fw.tables[a].records) :
           a \in {b \in DOMAIN fw.tables : fw.tables[b].sig = "APIC"}}
KeyboardOverrides == {r \in MadtRecords : r.type = 2 /\ r.source = 1}
Wiring == IF KeyboardOverrides = {} THEN [gsi |-> 1, flags |-> 0]
          ELSE CHOOSE r \in KeyboardOverrides : TRUE
KeyboardPin == Wiring.gsi

kbd_byte ==
    /\ scanning /\ ~full
    /\ full' = TRUE
    /\ Edge(KeyboardPin)
    /\ early' = (early \/ redir[KeyboardPin].masked)
    /\ UNCHANGED <<isa, fw, kernel_vars, scanning, in_service>>

Kernel ==
    \/ find_tables \/ check_ioapic \/ init_timer
    \/ \E name \in {"timer", "kbd", "ac97"} : configure_ioapic_irq(name)
    \/ acpi_init_one_device \/ acpi_bus_done \/ kbd_controller \/ kbd_register
    \/ sti \/ sleep_test
    \/ ac97_find \/ controller_reset \/ ready_codec \/ ac97_register \/ ready

BNext ==
    \/ Kernel
    \/ \E v \in irr : interrupt(v)
    \/ timer_fires \/ pit_fires \/ kbd_byte

BSpec == BInit /\ [][BNext]_bvars

\* The CPU executes and takes interrupts, and the timer, once it has been
\* started, goes on: it is periodic.
BFair ==
    /\ WF_bvars(Kernel)
    /\ WF_bvars(interrupt(TIMER_INT_NO))
    /\ WF_bvars(timer_fires)
-----------------------------------------------------------------------------
(* Properties                                                              *)

\* What the firmware says, as a relation: the good RSDP found first, and the
\* first interrupt controller table that its root table lists and the kernel
\* can reach.
Good(r) == r.sum20 = 0 /\ (r.revision < 2 \/ r.sum = 0)

GoodRsdps ==
    IF isa = "x86_64" THEN {r \in {fw.given} \ {NoRsdp} : Good(r)}
    ELSE LET good == {i \in DOMAIN fw.paragraphs : /\ fw.paragraphs[i].sig = "RSD PTR "
                                                   /\ Good(fw.paragraphs[i])}
         IN  {fw.paragraphs[i] : i \in {j \in good : \A k \in good : j <= k}}

CanReach(addr) == isa = "x86_64" \/ addr \in TableMin .. TableMax - 1

CanStart(r) == CanReach(r.root) \/ (r.revision >= 2 /\ r.root < AddressSpace)

Madts(r) ==
    LET list == fw.tables[r.root].entries
        hit == {i \in DOMAIN list : CanReach(list[i]) /\ TableAt(fw, list[i]).sig = "APIC"}
    IN  {fw.tables[list[i]] : i \in {j \in hit : \A k \in hit : j <= k}}

FirstIoApic(m) ==
    {m.records[k].address : k \in {i \in DOMAIN m.records :
        m.records[i].type = 1 /\ \A j \in 1 .. i - 1 : m.records[j].type # 1}}

IoApics == UNION {FirstIoApic(m) : m \in UNION {Madts(r) : r \in {g \in GoodRsdps : CanStart(g)}}}

\* rsdp.c and madt.c find what is there: a kernel that stops for want of an
\* I/O APIC runs on a machine that describes none within its reach, whatever
\* invalid pointers and tables come before the right ones (rsdp.c:40-71,
\* 174-217; madt.c:65-71).
FindsTheController ==
    /\ why = "ioapic" => IoApics = {}
    /\ found.ioapic # NULL => found.ioapic \in IoApics

\* Every vector the CPU takes has a handler that acknowledges it, however early
\* a device raises its line; otherwise the local APIC would deliver none again
\* (i386 isr.c:115-123, x86_64 isr.c:58-63).
AllAcknowledged == in_service = {}

\* An entry of the I/O APIC is never live with a destination that is not this
\* processor, not even between the two writes (apic.c:128-129).
LiveEntriesAimed == \A p \in Pins : ~redir[p].masked => redir[p].dest = LocalId

\* Whether the kernel has a keyboard to drive, and takes its wiring from the
\* firmware: the x86_64 kernel looks at no override (ps2k.c:278-286), and the
\* i386 kernel at those that fit (madt.c:87).
KeyboardKnown ==
    IF isa = "i386"
    THEN \A a \in DOMAIN fw.tables : fw.tables[a].sig = "APIC" =>
           Len(SelectSeq(fw.tables[a].records, LAMBDA r : r.type = 2)) <= MaxOverrides
    ELSE /\ KeyboardOverrides = {}
         /\ \E i \in DOMAIN fw.devices :
              /\ ~fw.devices[i].unreadable
              /\ ps2k_pnp_ids \cap ({fw.devices[i].hid} \cup ToSet(fw.devices[i].cids)) # {}

\* Once a kernel is up, the timer's and the keyboard's pins are live, with the
\* polarity and trigger mode the firmware gives and a vector that has a handler
\* (i386 kernel.c:118-150, ps2k.c:278-286).
RoutedAsTheFirmwareSays ==
    fate = "up" =>
      \A pin \in {TimerPin} \cup {p \in {KeyboardPin} : KeyboardKnown} :
        /\ ~redir[pin].masked /\ redir[pin].vector \in DOMAIN handlers
        /\ pin = KeyboardPin => /\ redir[pin].low = (Wiring.flags % 4 = 3)
                                /\ redir[pin].level = ((Wiring.flags \div 4) % 4 = 3)

\* A byte in the output buffer has its interrupt coming: the i386 kernel, which
\* unmasks the pin first, loses none; the x86_64 kernel unmasks it last, and a
\* key pressed before that leaves the line raised for good (ps2k.c:281-286).
KeyboardAlive ==
    fate = "up" /\ full /\ KeyboardKnown =>
      redir[KeyboardPin].vector \in irr \/ (isa = "x86_64" /\ early)

\* The kernel comes up or stops with a message: nothing it waits for at boot,
\* the sleep test and the codec, depends on interrupts that are still off
\* (kernel.c:300-312, time.c:48-54).
Boots == <>(fate # "booting")

\* Every vector the CPU takes has a handler that acknowledges it, and an
\* entry of the I/O APIC that is live is aimed at this processor.
InterruptsTaken == LiveEntriesAimed /\ AllAcknowledged
=============================================================================
