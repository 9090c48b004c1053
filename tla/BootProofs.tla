----------------------------- MODULE BootProofs -----------------------------
(***************************************************************************)
(* The order of the boot is right for interrupts, on any machine: whatever *)
(* the firmware describes, however many keyboards it lists and whenever    *)
(* devices raise their lines, no vector is taken before it has a handler,  *)
(* and no entry of the I/O APIC is live before it is aimed.                *)
(*                                                                         *)
(* The i386 kernel unmasks the keyboard's pin before the handler is        *)
(* registered, with interrupts off: Promised are the vectors that have     *)
(* their handler by the time interrupts are on.                            *)
(***************************************************************************)
EXTENDS Boot, TLAPS

Kinds == {"timer", "kbd", "ac97"}
TimerComes == {"initialize_apic", "check_ioapic", "timer_dest", "timer_entry", "init_timer"}
KeyboardComes == {"kbd_dest", "kbd_entry", "kbd_controller", "kbd_register"}
DevicesCome == {"acpi_bus", "sti"} \cup KeyboardComes
SoundComes == {"sleep", "slept", "ac97_find", "ac97_reset", "ac97_codec", "ac97_register",
               "ac97_dest", "ac97_entry", "ready"}

Promised ==
  {v \in {TIMER_INT_NO} : at \in TimerComes \/ (isa = "i386" /\ at \in {"kbd_dest", "kbd_entry"})}
  \cup {v \in {33} : isa = "i386" /\ at \in TimerComes \cup KeyboardComes}

Fields == {"masked", "vector", "dest", "low", "level"}

(* The entry that step `name` is about to unmask is aimed already.         *)
AimedFirst ==
  \A name \in Kinds : at = EntryStep[name] =>
    \A p \in Pins : p = Route(name).pin => redir[p].dest = LocalId

(* A device that is unmasked after the first sti, or on x86_64 at all, has *)
(* its handler.                                                            *)
HandledFirst ==
  /\ at \in {"ac97_dest", "ac97_entry"} => Route("ac97").vector \in DOMAIN handlers
  /\ isa = "x86_64" /\ at \in {"kbd_controller", "kbd_dest", "kbd_entry"} =>
       Route("kbd").vector \in DOMAIN handlers

BootInv ==
  /\ isa \in {"i386", "x86_64"}
  /\ at \in TimerComes \cup DevicesCome \cup SoundComes
  /\ isa = "i386" => at \notin {"acpi_bus", "sleep", "slept"}
  /\ enabled <=> at \in SoundComes
  /\ DOMAIN redir = Pins /\ \A p \in Pins : DOMAIN redir[p] = Fields
  /\ irr \subseteq DOMAIN handlers \cup Promised
  /\ \A p \in Pins : ~redir[p].masked => redir[p].vector \in DOMAIN handlers \cup Promised
  /\ ticking => TIMER_INT_NO \in DOMAIN handlers
  /\ LiveEntriesAimed /\ AimedFirst /\ HandledFirst
  /\ in_service = {}
-----------------------------------------------------------------------------
(* The step after each, in either kernel (i386 kernel.c, x86_64 kernel.c). *)
LEMMA AfterAre ==
  /\ After("initialize_apic") = "check_ioapic" /\ After("check_ioapic") = "timer_dest"
  /\ After("timer_dest") = "timer_entry"
  /\ After("kbd_dest") = "kbd_entry"
  /\ After("ac97_find") = "ac97_reset" /\ After("ac97_reset") = "ac97_codec"
  /\ After("ac97_codec") = "ac97_register" /\ After("ac97_register") = "ac97_dest"
  /\ After("ac97_dest") = "ac97_entry" /\ After("ac97_entry") = "ready"
  /\ isa = "i386" =>
       /\ After("timer_entry") = "kbd_dest" /\ After("kbd_entry") = "init_timer"
       /\ After("init_timer") = "kbd_controller" /\ After("kbd_controller") = "kbd_register"
       /\ After("kbd_register") = "sti" /\ After("sti") = "ac97_find"
  /\ isa = "x86_64" =>
       /\ After("timer_entry") = "init_timer" /\ After("init_timer") = "acpi_bus"
       /\ After("acpi_bus") = "kbd_register" /\ After("devices_done") = "sti"
       /\ After("kbd_register") = "kbd_controller" /\ After("kbd_controller") = "kbd_dest"
       /\ After("kbd_entry") = "acpi_bus" /\ After("sti") = "sleep"
       /\ After("sleep") = "slept" /\ After("slept") = "ac97_find"
BY Zenon DEF After, kernel_main_i386, kernel_main_x86_64

(* Where nothing is about to be unmasked.                                  *)
Quiet == {"initialize_apic", "check_ioapic", "timer_dest", "init_timer", "acpi_bus",
          "kbd_register", "sti", "sleep", "slept", "ac97_find", "ac97_reset", "ac97_codec",
          "ac97_register", "ready"}

Everywhere == TimerComes \cup DevicesCome \cup SoundComes

(* At those steps there is nothing to show of AimedFirst and HandledFirst. *)
LEMMA QuietSteps ==
  ASSUME at' \in Quiet
  PROVE  AimedFirst' /\ HandledFirst'
BY DEF Quiet, AimedFirst, HandledFirst, Kinds, EntryStep

(* A step that only moves on.                                              *)
LEMMA MoveStep ==
  ASSUME BootInv, UNCHANGED <<isa, redir, handlers, irr, ticking, in_service>>,
         at' \in Quiet, isa = "i386" => at' \notin {"acpi_bus", "sleep", "slept"},
         enabled' <=> at' \in SoundComes, Promised \subseteq DOMAIN handlers \cup Promised'
  PROVE  BootInv'
<1>1. at' \in Everywhere
  BY Zenon DEF Quiet, Everywhere, TimerComes, DevicesCome, KeyboardComes, SoundComes
<1>2. AimedFirst' /\ HandledFirst'
  BY QuietSteps, Zenon
<1>3. LiveEntriesAimed'
  BY Zenon DEF BootInv, LiveEntriesAimed
<1> QED
  BY <1>1, <1>2, <1>3, Zenon DEF BootInv, Everywhere

(* A step that leaves all of it alone.                                     *)
LEMMA StayStep ==
  ASSUME BootInv, UNCHANGED <<isa, fw, at, found, resources, redir, handlers, enabled,
                              ticking, irr, in_service>>
  PROVE  BootInv'
<1>1. UNCHANGED <<Promised, LiveEntriesAimed>>
  BY Zenon DEF Promised, LiveEntriesAimed
<1>2. \A name \in Kinds : Route(name)' = Route(name)
  BY Zenon DEF Route
<1>3. AimedFirst'
  BY <1>2, Zenon DEF BootInv, AimedFirst
<1>4. HandledFirst'
  BY <1>2, Zenon DEF BootInv, HandledFirst, Kinds
<1> QED
  BY <1>1, <1>3, <1>4, Zenon DEF BootInv

(* The boot steps that touch no table of interrupts.                       *)
LEMMA PlainSteps ==
  ASSUME BootInv,
         find_tables \/ check_ioapic \/ acpi_init_one_device \/ acpi_bus_done \/ sti
         \/ sleep_test \/ ac97_find \/ controller_reset \/ ready_codec \/ ready
  PROVE  BootInv'
<1> USE AfterAre
<1>0. isa \in {"i386", "x86_64"} /\ (enabled <=> at \in SoundComes)
      /\ (isa = "i386" => at \notin {"acpi_bus", "sleep", "slept"})
  BY Zenon DEF BootInv
<1>1. ASSUME NEW reason, Stop(reason), UNCHANGED <<isa, fw, found, resources, redir, handlers, enabled,
                                                   ticking, irr, in_service>>
      PROVE  BootInv'
  BY <1>1, StayStep, Zenon DEF Stop
<1>2. CASE find_tables
  <2>1. CASE isa = "x86_64" /\ fw.given = NoRsdp
    BY <1>1, <1>2, <2>1, Zenon DEF find_tables, keyboard_vars, apic_vars
  <2>2. CASE ~(isa = "x86_64" /\ fw.given = NoRsdp)
    <3>1. at = "initialize_apic" /\ at' = "check_ioapic"
          /\ UNCHANGED <<isa, redir, handlers, enabled, ticking, irr, in_service>>
      BY <1>2, <2>2, Zenon DEF find_tables, AtStep, Proceed, apic_vars
    <3>2. Promised' = Promised
      BY <3>1, Zenon DEF Promised, TimerComes
    <3> QED
      BY <1>0, <3>1, <3>2, MoveStep, Zenon DEF Quiet, SoundComes
  <2> QED
    BY <2>1, <2>2, Zenon
<1>3. CASE check_ioapic
  <2>1. CASE found.ioapic = NULL
    BY <1>1, <1>3, <2>1, Zenon DEF check_ioapic, keyboard_vars, apic_vars
  <2>2. CASE found.ioapic # NULL
    <3>1. at = "check_ioapic" /\ at' = "timer_dest"
          /\ UNCHANGED <<isa, redir, handlers, enabled, ticking, irr, in_service>>
      BY <1>3, <2>2, Zenon DEF check_ioapic, AtStep, Proceed, apic_vars
    <3>2. Promised' = Promised
      BY <3>1, Zenon DEF Promised, TimerComes
    <3> QED
      BY <1>0, <3>1, <3>2, MoveStep, Zenon DEF Quiet, SoundComes
  <2> QED
    BY <2>1, <2>2, Zenon
<1>4. ASSUME at \in {"acpi_bus", "sti"} \cup SoundComes PROVE Promised = {}
  BY <1>4, Zenon DEF Promised, TimerComes, KeyboardComes, SoundComes
<1>5. CASE acpi_init_one_device
  <2>1. /\ at = "acpi_bus" /\ isa = "x86_64" /\ at' \in {"acpi_bus", "kbd_register"}
        /\ UNCHANGED <<isa, redir, handlers, enabled, ticking, irr, in_service>>
    BY <1>0, <1>5, Zenon DEF acpi_init_one_device, AtStep, Proceed, apic_vars
  <2> QED
    BY <1>0, <1>4, <2>1, MoveStep, Zenon DEF Quiet, SoundComes
<1>6. CASE acpi_bus_done
  <2>1. /\ at = "acpi_bus" /\ isa = "x86_64" /\ at' = "sti"
        /\ UNCHANGED <<isa, redir, handlers, enabled, ticking, irr, in_service>>
    BY <1>0, <1>6, Zenon DEF acpi_bus_done, AtStep, Proceed, apic_vars
  <2> QED
    BY <1>0, <1>4, <2>1, MoveStep, Zenon DEF Quiet, SoundComes
<1>7. CASE sti
  <2>1. /\ at = "sti" /\ at' = (IF isa = "i386" THEN "ac97_find" ELSE "sleep") /\ enabled'
        /\ UNCHANGED <<isa, redir, handlers, ticking, irr, in_service>>
    BY <1>0, <1>7, Zenon DEF sti, AtStep, Proceed, apic_vars
  <2> QED
    BY <1>0, <1>4, <2>1, MoveStep, Zenon DEF Quiet, SoundComes
<1>8. CASE sleep_test
  <2>1. /\ at \in {"sleep", "slept"} /\ isa = "x86_64" /\ at' \in {"slept", "ac97_find"}
        /\ UNCHANGED <<isa, redir, handlers, enabled, ticking, irr, in_service>>
    BY <1>0, <1>8, Zenon DEF sleep_test, AtStep, Proceed, apic_vars
  <2> QED
    BY <1>0, <1>4, <2>1, MoveStep, Zenon DEF Quiet, SoundComes
<1>9. CASE ac97_find
  <2>1. at = "ac97_find" /\ UNCHANGED <<isa, fw, found, resources, redir, handlers, enabled, ticking,
                                       irr, in_service>>
    BY <1>9, Zenon DEF ac97_find, AtStep, apic_vars
  <2>2. \/ at' \in {"ac97_reset", "ready"}
        \/ Stop("ac97")
    BY <1>9, Zenon DEF ac97_find, Proceed
  <2> QED
    BY <1>0, <1>1, <1>4, <2>1, <2>2, MoveStep, ZenonT(30) DEF Quiet, SoundComes
<1>10. CASE controller_reset
  <2>1. /\ at = "ac97_reset" /\ at' = "ac97_codec"
        /\ UNCHANGED <<isa, redir, handlers, enabled, ticking, irr, in_service>>
    BY <1>10, Zenon DEF controller_reset, AtStep, Proceed, apic_vars
  <2> QED
    BY <1>0, <1>4, <2>1, MoveStep, Zenon DEF Quiet, SoundComes
<1>11. CASE ready_codec
  <2>1. at = "ac97_codec" /\ UNCHANGED <<isa, fw, found, resources, redir, handlers, enabled, ticking,
                                        irr, in_service>>
    BY <1>11, Zenon DEF ready_codec, AtStep, apic_vars
  <2>2. at' = "ac97_register" \/ Stop("codec")
    BY <1>11, Zenon DEF ready_codec, Proceed
  <2> QED
    BY <1>0, <1>1, <1>4, <2>1, <2>2, MoveStep, ZenonT(30) DEF Quiet, SoundComes
<1>12. CASE ready
  BY <1>12, StayStep, Zenon DEF ready, apic_vars
<1> QED
  BY <1>2, <1>3, <1>5, <1>6, <1>7, <1>8, <1>9, <1>10, <1>11, <1>12, ZenonT(30)

(* register_interrupt_handler() (init_timer, keyboard, AC97): the vectors  *)
(* promised so far that lose the promise are the one registered.           *)
LEMMA RegisterSteps ==
  ASSUME BootInv, init_timer \/ kbd_register \/ ac97_register
  PROVE  BootInv'
<1> USE AfterAre
<1>0. /\ isa \in {"i386", "x86_64"} /\ (enabled <=> at \in SoundComes)
      /\ irr \subseteq DOMAIN handlers \cup Promised
      /\ \A p \in Pins : ~redir[p].masked => redir[p].vector \in DOMAIN handlers \cup Promised
      /\ DOMAIN redir = Pins /\ \A p \in Pins : DOMAIN redir[p] = Fields
      /\ in_service = {} /\ LiveEntriesAimed
      /\ ticking => TIMER_INT_NO \in DOMAIN handlers
  BY Zenon DEF BootInv
<1>1. ASSUME NEW v, DOMAIN handlers' = DOMAIN handlers \cup {v}, Promised \subseteq {v} \cup Promised',
             UNCHANGED <<isa, redir, irr, enabled, in_service>>,
             ticking' => ticking \/ v = TIMER_INT_NO,
             at' \in Everywhere, isa = "i386" => at' \notin {"acpi_bus", "sleep", "slept"},
             enabled <=> at' \in SoundComes, AimedFirst', HandledFirst'
      PROVE  BootInv'
  <2>1. LiveEntriesAimed'
    BY <1>0, <1>1, Zenon DEF LiveEntriesAimed
  <2> QED
    BY <1>0, <1>1, <2>1, Zenon DEF BootInv, Everywhere
<1>2. CASE init_timer
  <2>1. /\ at = "init_timer" /\ at' = (IF isa = "i386" THEN "kbd_controller" ELSE "acpi_bus")
        /\ DOMAIN handlers' = DOMAIN handlers \cup {TIMER_INT_NO}
        /\ UNCHANGED <<isa, redir, irr, enabled, in_service>>
    BY <1>0, <1>2, Zenon DEF init_timer, AtStep, Proceed, apic_vars, register_interrupt_handler
  <2>2. Promised \subseteq {TIMER_INT_NO} \cup Promised'
    BY <1>0, <2>1, Zenon DEF Promised, TimerComes, KeyboardComes
  <2>3. AimedFirst' /\ HandledFirst'
    BY <1>0, <2>1 DEF AimedFirst, HandledFirst, Kinds, EntryStep
  <2> QED
    BY <1>0, <1>1, <2>1, <2>2, <2>3, Zenon DEF Everywhere, TimerComes, DevicesCome, KeyboardComes, SoundComes
<1>3. CASE kbd_register
  <2>1. /\ at = "kbd_register" /\ at' = (IF isa = "i386" THEN "sti" ELSE "kbd_controller")
        /\ DOMAIN handlers' = DOMAIN handlers \cup {Route("kbd").vector}
        /\ UNCHANGED <<isa, fw, found, resources, redir, irr, enabled, ticking, in_service>>
    BY <1>0, <1>3, Zenon DEF kbd_register, AtStep, Proceed, apic_vars, register_interrupt_handler
  <2>2. Route("kbd")' = Route("kbd") /\ (isa = "i386" => Route("kbd").vector = 33)
    BY <2>1, Zenon DEF Route
  <2>3. Promised \subseteq {Route("kbd").vector} \cup Promised'
    BY <1>0, <2>1, <2>2, Zenon DEF Promised, TimerComes, KeyboardComes
  <2>4. AimedFirst' /\ HandledFirst'
    BY <1>0, <2>1, <2>2 DEF AimedFirst, HandledFirst, Kinds, EntryStep
  <2> QED
    BY <1>0, <1>1, <2>1, <2>3, <2>4, ZenonT(30) DEF Everywhere, TimerComes, DevicesCome, KeyboardComes, SoundComes
<1>4. CASE ac97_register
  <2>1. /\ at = "ac97_register" /\ at' = "ac97_dest"
        /\ DOMAIN handlers' = DOMAIN handlers \cup {Route("ac97").vector}
        /\ UNCHANGED <<isa, fw, found, resources, redir, irr, enabled, ticking, in_service>>
    BY <1>4, Zenon DEF ac97_register, AtStep, Proceed, apic_vars, register_interrupt_handler
  <2>2. Route("ac97")' = Route("ac97")
    BY <2>1, Zenon DEF Route
  <2>3. Promised \subseteq {Route("ac97").vector} \cup Promised'
    BY <2>1, Zenon DEF Promised, TimerComes, KeyboardComes
  <2>4. AimedFirst' /\ HandledFirst'
    BY <2>1, <2>2 DEF AimedFirst, HandledFirst, Kinds, EntryStep
  <2> QED
    BY <1>0, <1>1, <2>1, <2>3, <2>4, ZenonT(30) DEF Everywhere, TimerComes, DevicesCome, KeyboardComes, SoundComes
<1> QED
  BY <1>2, <1>3, <1>4, Zenon

(* Aiming an entry (apic.c:128).                                           *)
LEMMA DestStepKept ==
  ASSUME BootInv, NEW name \in Kinds, AtStep(DestStep[name]), Proceed(DestStep[name]), WriteDest(name),
         UNCHANGED <<isa, fw, found, resources, handlers, enabled, ticking, irr, in_service>>
  PROVE  BootInv'
<1>0. /\ isa \in {"i386", "x86_64"} /\ (enabled <=> at \in SoundComes)
      /\ irr \subseteq DOMAIN handlers \cup Promised
      /\ \A p \in Pins : ~redir[p].masked => redir[p].vector \in DOMAIN handlers \cup Promised
      /\ DOMAIN redir = Pins /\ \A p \in Pins : DOMAIN redir[p] = Fields
      /\ in_service = {} /\ LiveEntriesAimed /\ HandledFirst
      /\ ticking => TIMER_INT_NO \in DOMAIN handlers
  BY Zenon DEF BootInv
<1>1. at = DestStep[name] /\ at' = EntryStep[name]
  BY AfterAre DEF AtStep, Proceed, DestStep, EntryStep, Kinds
<1>2. \A k \in Kinds : Route(k)' = Route(k)
  BY Zenon DEF Route
<1>3. \A p \in Pins : redir'[p] = IF p = Route(name).pin THEN [redir[p] EXCEPT !.dest = LocalId] ELSE redir[p]
  BY <1>0, Zenon DEF WriteDest
<1>4. DOMAIN redir' = Pins
  BY <1>0, Zenon DEF WriteDest
<1>5. \A p \in Pins : /\ DOMAIN redir'[p] = Fields /\ redir'[p].masked = redir[p].masked
                      /\ redir'[p].vector = redir[p].vector
                      /\ redir'[p].dest = IF p = Route(name).pin THEN LocalId ELSE redir[p].dest
  BY <1>0, <1>3, Zenon DEF Fields
<1>6. LiveEntriesAimed'
  BY <1>0, <1>5, Zenon DEF LiveEntriesAimed
<1>7. AimedFirst'
  <2>1. \A k \in Kinds : EntryStep[k] = EntryStep[name] => k = name
    BY DEF Kinds, EntryStep
  <2> QED
    BY <1>1, <1>2, <1>5, <2>1, SMTT(30) DEF AimedFirst
<1>8. HandledFirst'
  BY <1>0, <1>1, <1>2 DEF HandledFirst, Kinds, DestStep, EntryStep
<1>9. Promised' = Promised
  BY <1>1 DEF Promised, TimerComes, KeyboardComes, Kinds, DestStep, EntryStep
<1>10. /\ at' \in Everywhere /\ (enabled' <=> at' \in SoundComes)
       /\ isa' = "i386" => at' \notin {"acpi_bus", "sleep", "slept"}
  BY <1>0, <1>1 DEF Kinds, DestStep, EntryStep, Everywhere, TimerComes, DevicesCome, KeyboardComes,
                    SoundComes
<1> QED
  BY <1>0, <1>4, <1>5, <1>6, <1>7, <1>8, <1>9, <1>10, ZenonT(30) DEF BootInv, Everywhere

(* Unmasking it (apic.c:129).                                              *)
LEMMA EntryStepKept ==
  ASSUME BootInv, NEW name \in Kinds, AtStep(EntryStep[name]), Proceed(EntryStep[name]), WriteEntry(name),
         UNCHANGED <<isa, fw, found, resources, handlers, enabled, ticking, irr, in_service>>
  PROVE  BootInv'
<1>0. /\ isa \in {"i386", "x86_64"} /\ (enabled <=> at \in SoundComes)
      /\ irr \subseteq DOMAIN handlers \cup Promised
      /\ \A p \in Pins : ~redir[p].masked => redir[p].vector \in DOMAIN handlers \cup Promised
      /\ DOMAIN redir = Pins /\ \A p \in Pins : DOMAIN redir[p] = Fields
      /\ in_service = {} /\ LiveEntriesAimed /\ HandledFirst /\ AimedFirst
      /\ ticking => TIMER_INT_NO \in DOMAIN handlers
  BY Zenon DEF BootInv
<1>1. at = EntryStep[name] /\ at' = After(EntryStep[name])
  BY Zenon DEF AtStep, Proceed
<1>2. /\ name = "timer" => at = "timer_entry" /\ at' = IF isa = "i386" THEN "kbd_dest" ELSE "init_timer"
      /\ name = "kbd" => at = "kbd_entry" /\ at' = IF isa = "i386" THEN "init_timer" ELSE "acpi_bus"
      /\ name = "ac97" => at = "ac97_entry" /\ at' = "ready"
  BY <1>0, <1>1, AfterAre DEF EntryStep
<1>3. \A p \in Pins : redir'[p] = IF p = Route(name).pin
                                  THEN Routed(redir[p], Route(name).vector, Route(name).flags) ELSE redir[p]
  BY <1>0, Zenon DEF WriteEntry
<1>4. DOMAIN redir' = Pins
  BY <1>0, Zenon DEF WriteEntry
<1>5. \A p \in Pins :
        /\ DOMAIN redir'[p] = Fields /\ redir'[p].dest = redir[p].dest
        /\ p = Route(name).pin => redir'[p].vector = Route(name).vector
        /\ p # Route(name).pin => redir'[p] = redir[p]
  BY <1>0, <1>3, Zenon DEF Fields, Routed
<1>6. LiveEntriesAimed'
  BY <1>0, <1>1, <1>5, Zenon DEF LiveEntriesAimed, AimedFirst
<1>7. AimedFirst'
  BY <1>0, <1>2 DEF AimedFirst, Kinds, EntryStep
<1>8. HandledFirst'
  BY <1>0, <1>2, Zenon DEF HandledFirst, Kinds
<1>9. Promised' = Promised
  BY <1>0, <1>2, Zenon DEF Promised, TimerComes, KeyboardComes, Kinds
<1>10. /\ at' \in Everywhere /\ (enabled' <=> at' \in SoundComes)
       /\ isa' = "i386" => at' \notin {"acpi_bus", "sleep", "slept"}
  BY <1>0, <1>2, Zenon DEF Kinds, Everywhere, TimerComes, DevicesCome, KeyboardComes, SoundComes
<1>11. Route(name).vector \in DOMAIN handlers \cup Promised
  <2>1. CASE name = "timer"
    BY <1>2, <2>1, Zenon DEF Route, Promised, TimerComes
  <2>2. CASE name = "kbd" /\ isa = "i386"
    BY <1>2, <2>2, Zenon DEF Route, Promised, KeyboardComes
  <2>3. CASE name = "kbd" /\ isa = "x86_64"
    BY <1>0, <1>2, <2>3, Zenon DEF HandledFirst
  <2>4. CASE name = "ac97"
    BY <1>0, <1>2, <2>4, Zenon DEF HandledFirst
  <2> QED
    BY <1>0, <2>1, <2>2, <2>3, <2>4, ZenonT(30) DEF Kinds
<1>12. \A p \in Pins : ~redir'[p].masked => redir'[p].vector \in DOMAIN handlers' \cup Promised'
  BY <1>0, <1>5, <1>9, <1>11, Zenon
<1> QED
  BY <1>0, <1>4, <1>5, <1>6, <1>7, <1>8, <1>9, <1>10, <1>12, Zenon DEF BootInv, Everywhere

(* What an edge requests has, or is promised, its handler.                 *)
LEMMA RequestedHandled ==
  ASSUME BootInv, NEW pin
  PROVE  Requested(pin) \subseteq DOMAIN handlers \cup Promised
BY Zenon DEF BootInv, Requested

(* An edge, or a tick of the local APIC's timer.                           *)
LEMMA EdgeStep ==
  ASSUME BootInv, UNCHANGED <<isa, fw, at, found, resources, redir, handlers, enabled, ticking, in_service>>,
         irr' \subseteq DOMAIN handlers \cup Promised
  PROVE  BootInv'
<1>1. UNCHANGED <<Promised, LiveEntriesAimed>>
  BY Zenon DEF Promised, LiveEntriesAimed
<1>2. \A name \in Kinds : Route(name)' = Route(name)
  BY Zenon DEF Route
<1>3. AimedFirst'
  BY <1>2, Zenon DEF BootInv, AimedFirst
<1>4. HandledFirst'
  BY <1>2, Zenon DEF BootInv, HandledFirst, Kinds
<1> QED
  BY <1>1, <1>3, <1>4, Zenon DEF BootInv

(* Setting the keyboard up may raise its line (ps2k.c:159-290).            *)
LEMMA ControllerStep ==
  ASSUME BootInv, kbd_controller
  PROVE  BootInv'
<1>0. /\ isa \in {"i386", "x86_64"} /\ (enabled <=> at \in SoundComes)
      /\ irr \subseteq DOMAIN handlers \cup Promised
      /\ \A p \in Pins : ~redir[p].masked => redir[p].vector \in DOMAIN handlers \cup Promised
      /\ DOMAIN redir = Pins /\ \A p \in Pins : DOMAIN redir[p] = Fields
      /\ in_service = {} /\ LiveEntriesAimed /\ HandledFirst
      /\ ticking => TIMER_INT_NO \in DOMAIN handlers
  BY Zenon DEF BootInv
<1>1. /\ at = "kbd_controller"
      /\ UNCHANGED <<isa, fw, found, resources, redir, handlers, enabled, ticking, in_service>>
  BY Zenon DEF kbd_controller, AtStep
<1>2. CASE Stop("keyboard") /\ UNCHANGED irr
  BY <1>1, <1>2, StayStep, Zenon DEF Stop
<1>3. CASE Proceed("kbd_controller") /\ irr' \in {irr, irr \cup Requested(Route("kbd").pin)}
  <2>1. at' = IF isa = "i386" THEN "kbd_register" ELSE "kbd_dest"
    BY <1>0, <1>3, AfterAre, Zenon DEF Proceed
  <2>2. Promised' = Promised
    BY <1>0, <1>1, <2>1, Zenon DEF Promised, TimerComes, KeyboardComes
  <2>3. irr' \subseteq DOMAIN handlers' \cup Promised'
    BY <1>0, <1>1, <1>3, <2>2, RequestedHandled, Zenon
  <2>4. Route("kbd")' = Route("kbd")
    BY <1>1, Zenon DEF Route
  <2>5. AimedFirst' /\ HandledFirst'
    BY <1>0, <1>1, <2>1, <2>4, SMTT(30) DEF AimedFirst, HandledFirst, Kinds, EntryStep
  <2>6. LiveEntriesAimed'
    BY <1>0, <1>1, Zenon DEF LiveEntriesAimed
  <2>7. /\ at' \in Everywhere /\ (enabled' <=> at' \in SoundComes)
        /\ isa' = "i386" => at' \notin {"acpi_bus", "sleep", "slept"}
    BY <1>0, <1>1, <2>1, Zenon DEF Everywhere, TimerComes, DevicesCome, KeyboardComes, SoundComes
  <2> QED
    BY <1>0, <1>1, <2>2, <2>3, <2>5, <2>6, <2>7, ZenonT(30) DEF BootInv, Everywhere
<1> QED
  BY <1>2, <1>3, Zenon DEF kbd_controller

(* An interrupt is taken: it has a handler, which acknowledges it (i386    *)
(* isr.c:115-123, x86_64 isr.c:58-63).                                     *)
LEMMA InterruptStep ==
  ASSUME BootInv, NEW v \in irr, interrupt(v)
  PROVE  BootInv'
<1>1. enabled /\ v \in DOMAIN handlers \cup Promised
  BY Zenon DEF interrupt, BootInv
<1>2. Promised = {}
  BY <1>1, Zenon DEF BootInv, Promised, TimerComes, KeyboardComes, SoundComes
<1>3. in_service' = in_service
  BY <1>1, <1>2, Zenon DEF interrupt, isr_handler
<1>4. /\ UNCHANGED <<isa, fw, at, found, resources, redir, handlers, enabled, ticking>>
      /\ irr' \subseteq irr
  BY Zenon DEF interrupt
<1>5. irr' \subseteq DOMAIN handlers \cup Promised
  BY <1>4, Zenon DEF BootInv
<1> QED
  BY <1>3, <1>4, <1>5, EdgeStep, ZenonT(30)
-----------------------------------------------------------------------------
(* BootInv holds in every state of the boot.                               *)
LEMMA BootKept == BSpec => []BootInv
<1>1. BInit => BootInv
  <2> SUFFICES ASSUME BInit PROVE BootInv
    BY Zenon
  <2>1. /\ at = "initialize_apic" /\ DOMAIN handlers = {} /\ irr = {} /\ in_service = {} /\ ~enabled /\ ~ticking
        /\ redir = [p \in Pins |-> Masked]
    BY Zenon DEF BInit
  <2>2. DOMAIN redir = Pins /\ \A p \in Pins : DOMAIN redir[p] = Fields /\ redir[p].masked
    BY <2>1, Zenon DEF Masked, Fields
  <2>3. LiveEntriesAimed /\ AimedFirst /\ HandledFirst
    BY <2>1, <2>2 DEF LiveEntriesAimed, AimedFirst, HandledFirst, Kinds, EntryStep
  <2> QED
    BY <2>1, <2>2, <2>3, Zenon DEF BInit, BootInv, TimerComes, SoundComes
<1>2. BootInv /\ [BNext]_bvars => BootInv'
  <2> SUFFICES ASSUME BootInv, [BNext]_bvars PROVE BootInv'
    BY Zenon
  <2>1. CASE Kernel
    <3>1. ASSUME NEW name \in Kinds, configure_ioapic_irq(name) PROVE BootInv'
      BY <3>1, DestStepKept, EntryStepKept, Zenon DEF configure_ioapic_irq, apic_vars
    <3> QED
      BY <2>1, <3>1, PlainSteps, RegisterSteps, ControllerStep, ZenonT(30) DEF Kernel, Kinds
  <2>2. ASSUME NEW v \in irr, interrupt(v) PROVE BootInv'
    BY <2>2, InterruptStep, Zenon
  <2>3. CASE timer_fires
    BY <2>3, EdgeStep, Zenon DEF timer_fires, kernel_vars, BootInv
  <2>4. CASE pit_fires
    <3>1. irr' \subseteq DOMAIN handlers \cup Promised
      BY <2>4, RequestedHandled, Zenon DEF pit_fires, Edge, BootInv
    <3> QED
      BY <2>4, <3>1, EdgeStep, Zenon DEF pit_fires, kernel_vars
  <2>5. CASE kbd_byte
    <3>1. irr' \subseteq DOMAIN handlers \cup Promised
      BY <2>5, RequestedHandled, Zenon DEF kbd_byte, Edge, BootInv
    <3> QED
      BY <2>5, <3>1, EdgeStep, Zenon DEF kbd_byte, kernel_vars
  <2>6. CASE UNCHANGED bvars
    BY <2>6, StayStep, Zenon DEF bvars, kernel_vars, apic_vars
  <2> QED
    BY <2>1, <2>2, <2>3, <2>4, <2>5, <2>6, ZenonT(30) DEF BNext
<1> QED
  BY <1>1, <1>2, PTL DEF BSpec

(* Every vector the CPU takes has a handler that acknowledges it, and a    *)
(* live entry of the I/O APIC is aimed at this processor, for any set of   *)
(* machines and pins (apic.c:98-129, isr.c:58-63).                         *)
THEOREM InterruptsAreTaken == BSpec => []InterruptsTaken
<1>1. BootInv => InterruptsTaken
  BY Zenon DEF BootInv, InterruptsTaken, AllAcknowledged
<1> QED
  BY <1>1, BootKept, PTL
=============================================================================
