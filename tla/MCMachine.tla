----------------------------- MODULE MCMachine -----------------------------
(***************************************************************************)
(* Machine for TLC: nine machines to boot; any byte possibly left in the   *)
(* keyboard controller; a ring of four descriptors of two frames (eight    *)
(* bytes); three processes with stacks of 21 words; counters of 20; sixteen  *)
(* frames of memory.                                                       *)
(***************************************************************************)
EXTENDS Machine, TLC

(* Clips of whole frames: longer than the ring (seven chunks, the last one *)
(* short), exactly the ring, empty.  Clips with a tail of one to three     *)
(* bytes: longer than the ring, shorter, less than a frame, and one the    *)
(* controller cannot reach.                                                *)
MCClips == {<<100, 152>>, <<200, 232>>, <<300, 300>>,
            <<400, 435>>, <<500, 513>>, <<600, 602>>, <<998, 1003>>}
-----------------------------------------------------------------------------
Rsdp(rev, s20, s, root) ==
    [sig |-> "RSD PTR ", revision |-> rev, sum20 |-> s20, sum |-> s, root |-> root]
Paragraph == [sig |-> "text", revision |-> 0, sum20 |-> 0, sum |-> 0, root |-> 1]
Root(entries) == [sig |-> "ROOT", entries |-> entries, records |-> <<>>]
Madt(records) == [sig |-> "APIC", entries |-> <<>>, lapic |-> 9, records |-> records]
Other == [sig |-> "FACP", entries |-> <<>>, records |-> <<>>]
Cpu == [type |-> 0]
IoApic(a) == [type |-> 1, address |-> a]
Override(s, g, f) == [type |-> 2, source |-> s, gsi |-> g, flags |-> f]

IoRes(v) == [type |-> "io", value |-> v]
IrqRes(v) == [type |-> "irq", value |-> v]
EndRes == [type |-> "end", value |-> 0]
Dev(hid, cids, res, bad) == [hid |-> hid, cids |-> cids, resources |-> res, unreadable |-> bad]
Keyboard(bad) == Dev("PNP0303", <<>>, <<IoRes(96), IoRes(100), IrqRes(1), EndRes, IrqRes(3)>>, bad)
Compatible == Dev("QEMU0001", <<"PNP0B00", "PNP0303">>, <<IrqRes(1), IoRes(96), IoRes(100)>>, FALSE)
Clock == Dev("PNP0B00", <<>>, <<IrqRes(3)>>, FALSE)

Sound == [id |-> <<"intel", "ac97">>, line |-> 3]
Disk == [id |-> <<"intel", "ide">>, line |-> 0]

Firm(paragraphs, given, acpi, devices, functions, codec) ==
    [paragraphs |-> paragraphs, given |-> given, tables |-> acpi, devices |-> devices,
     functions |-> functions, codec |-> codec]

\* The plain machine, with the tables in the order of the firmware.
V1 == Rsdp(0, 0, 5, 1)
V2 == Rsdp(2, 0, 0, 1)
Plain == 1 :> Root(<<2, 3>>) @@ 2 :> Other @@ 3 :> Madt(<<Cpu, IoApic(7), Override(0, 2, 0)>>)

MCFirmwares == {
    Firm(<<Paragraph, V1>>, V1, Plain, <<Clock, Keyboard(FALSE)>>, <<Disk, Sound>>, TRUE),
    \* invalid pointers first, two I/O APICs, an override for the keyboard
    Firm(<<Rsdp(0, 1, 1, 2), Rsdp(2, 0, 1, 2), V2>>, V2,
            1 :> Root(<<0, 8, 18, 3>>) @@ 8 :> Other @@ 18 :> Other
              @@ 3 :> Madt(<<IoApic(7), Override(0, 2, 0), Override(1, 3, 15), IoApic(8)>>),
            <<Compatible>>, <<Disk>>, TRUE),
    \* level-triggered and active high; a MADT out of the i386 kernel's reach first
    Firm(<<V1>>, V2, 1 :> Root(<<9, 4>>) @@ 9 :> Madt(<<IoApic(6)>>)
              @@ 4 :> Madt(<<Override(1, 1, 13), IoApic(7)>>),
            <<Keyboard(TRUE), Compatible>>, <<Sound>>, FALSE),
    \* one override too many
    Firm(<<V1>>, V1, 1 :> Root(<<3>>)
              @@ 3 :> Madt(<<IoApic(7), Override(0, 2, 0), Override(5, 5, 13), Override(1, 3, 15)>>),
            <<>>, <<Sound>>, TRUE),
    \* root table out of range, bad checksum, no pointer, no I/O APIC
    Firm(<<Rsdp(0, 0, 0, 9)>>, NoRsdp, 9 :> Root(<<3>>) @@ 3 :> Madt(<<IoApic(7)>>), <<>>, <<>>, TRUE),
    Firm(<<Rsdp(2, 0, 0, 17)>>, Rsdp(2, 0, 1, 1), Plain @@ 17 :> Root(<<3>>), <<>>, <<>>, TRUE),
    Firm(<<>>, V1, 1 :> Root(<<2, 3>>) @@ 2 :> Other @@ 3 :> Madt(<<Cpu, Override(0, 2, 0)>>), <<>>, <<>>, TRUE),
    Firm(<<V2>>, V2, 1 :> Root(<<2>>) @@ 2 :> Other, <<>>, <<>>, TRUE),
    Firm(<<Rsdp(2, 0, 0, 12)>>, V2, Plain @@ 12 :> Root(<<3>>), <<Compatible>>, <<Sound>>, TRUE)}

MCAC97 == <<"intel", "ac97">>
(* Two call sites; locals hold a number that is also a stack address.     *)
MCSites == {-11, -12}
-----------------------------------------------------------------------------
\* A device range that starts and ends inside a page, and a range of memory
\* across two huge pages.
MCRanges == {<<12 * 2 + 1, 2>>, <<15, 3>>}

\* A page of a huge mapping, and one that has no table.
MCRemaps == {<<8, TRUE>>, <<8, FALSE>>, <<1, FALSE>>}

MCWindow == {0, 7, 12}
MCRanges386 == {<<6, 7>>}

\* What init_paging() maps.
MCLowRanges == {<<1, 2>>}
=============================================================================
