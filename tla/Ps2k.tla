-------------------------------- MODULE Ps2k --------------------------------
(***************************************************************************)
(* The keyboard interrupt handlers: of the PS/2 driver of x86_64           *)
(* (arch/x86_64/drivers/ps2k.c), of the i386 kernel                        *)
(* (drivers/keyboard/keyboard.c) and of its older copy under arch/i386.    *)
(* Scan code set 1 is decoded one byte per interrupt into the table of     *)
(* held keys, the shift state and the events pushed to the listeners; the  *)
(* older copy has no table and knows no prefix.                            *)
(*                                                                         *)
(* A key is <<extended, code>>; the bytes of an extended key follow an E0  *)
(* byte.  The keyboard (kbd_ actions, held, wire) is external: it sends a  *)
(* make byte when a key is pressed and again while it is held (typematic), *)
(* a break byte when it is released, and may send fake left shifts, E0 and *)
(* a byte of left shift, which it does around extended keys.               *)
(***************************************************************************)
EXTENDS Integers, Sequences, FiniteSets

CONSTANTS
  Keys,            \* the keys of the keyboard
  LeftShift, RightShift,
  Printable,       \* the codes the ASCII tables have a character for
  MaxWire,         \* bound: bytes sent and not yet handled
  MaxTicks,        \* bound: timer ticks
  TimestampRange   \* values of key_event_t.timestamp, 2^8

(* What the properties assume of the keys.                                 *)
KeysOK ==
  /\ \A k \in Keys : k = <<k[1], k[2]>> /\ k[1] \in BOOLEAN /\ k[2] # "E0"
  /\ \A k \in Keys : k[1] => k[2] \notin {LeftShift, RightShift}
  /\ LeftShift # RightShift
  /\ {<<FALSE, LeftShift>>, <<FALSE, RightShift>>} \subseteq Keys
  /\ {LeftShift, RightShift, "E0"} \cap Printable = {}
  /\ TimestampRange \in Nat \ {0} /\ TimestampRange % 2 = 0
  /\ MaxWire \in Nat /\ MaxTicks \in Nat

VARIABLES
  driver,          \* whose handler runs: "ps2k", "keyboard" or "i386"
  key_pressed,     \* indices marked as pressed
  shift_pressed,
  e0_prefix,
  event,           \* the event pushed last: its character, case, timestamp
  tick_count,
  held,            \* keyboard: the keys held down
  wire,            \* keyboard: bytes on their way
  astray           \* history: the last byte sent that the driver takes for a
                   \* shift's says otherwise than the shifts held

driver_vars == <<driver, key_pressed, shift_pressed, e0_prefix, event>>
vars == <<driver_vars, tick_count, held, wire, astray>>

Shifts == {<<FALSE, LeftShift>>, <<FALSE, RightShift>>}
FakeShift == <<TRUE, LeftShift>>
NoEvent == [code |-> "none", upper |-> FALSE, shifted |-> FALSE, excused |-> FALSE,
            stamp |-> 0, sent |-> 0]

(* A byte: E0, or a code with the released bit.  `shifted` and `excused`   *)
(* are history: whether a shift was held when the byte was sent, and       *)
(* whether the driver was astray.                                          *)
E0 == [code |-> "E0", up |-> FALSE, shifted |-> FALSE, excused |-> FALSE]
Byte(code, up) == [code |-> code, up |-> up, shifted |-> held \cap Shifts # {},
                   excused |-> astray]

TypeOK ==
  /\ driver \in {"ps2k", "keyboard", "i386"}
  /\ key_pressed \subseteq Keys \cup {FakeShift}
  /\ shift_pressed \in BOOLEAN /\ e0_prefix \in BOOLEAN
  /\ event.stamp \in -(TimestampRange \div 2) .. TimestampRange \div 2 - 1
  /\ tick_count \in 0 .. MaxTicks
  /\ held \subseteq Keys
  /\ Len(wire) <= MaxWire
  /\ astray \in BOOLEAN

Init ==
  /\ driver \in {"ps2k", "keyboard", "i386"}
  /\ key_pressed = {} /\ shift_pressed = FALSE /\ e0_prefix = FALSE
  /\ event = NoEvent
  /\ tick_count = 0
  /\ held = {} /\ wire = << >> /\ astray = FALSE

-----------------------------------------------------------------------------
(* The keyboard                                                            *)

Bytes(k, up) == IF k[1] THEN <<E0, Byte(k[2], up)>> ELSE <<Byte(k[2], up)>>

Send(bytes) ==
  /\ Len(wire) + Len(bytes) <= MaxWire
  /\ wire' = wire \o bytes

kbd_press(k) ==
  /\ k \notin held
  /\ Send(Bytes(k, FALSE))
  /\ held' = held \cup {k}
  /\ astray' = (astray /\ k \notin Shifts)
  /\ UNCHANGED <<driver_vars, tick_count>>

kbd_repeat(k) ==
  /\ k \in held
  /\ Send(Bytes(k, FALSE))
  /\ astray' = (astray /\ k \notin Shifts)
  /\ UNCHANGED <<driver_vars, tick_count, held>>

kbd_release(k) ==
  /\ k \in held
  /\ Send(Bytes(k, TRUE))
  /\ held' = held \ {k}
  /\ astray' = IF k \in Shifts THEN held' \cap Shifts # {} ELSE astray
  /\ UNCHANGED <<driver_vars, tick_count>>

(* The older driver takes a fake shift for a real one.                     *)
kbd_fake(up) ==
  /\ Send(Bytes(FakeShift, up))
  /\ astray' = IF driver = "i386" THEN up = (held \cap Shifts # {}) ELSE astray
  /\ UNCHANGED <<driver_vars, tick_count, held>>

-----------------------------------------------------------------------------
(* timer_interrupt_handler() for what timer_ticks() returns                *)
timer_tick ==
  /\ tick_count < MaxTicks
  /\ tick_count' = tick_count + 1
  /\ UNCHANGED <<driver_vars, held, wire, astray>>

(* The cast to int8_t of a key_event_t field.                              *)
int8(n) ==
  LET half == TimestampRange \div 2 IN ((n + half) % TimestampRange) - half

Index(code) == <<e0_prefix, code>>

IsShift(i) == i \in Shifts

HasCharacter(i) == ~i[1] /\ i[2] \in Printable

(* Mutant: the prefix outlives a break byte.                               *)
NextPrefix_sticky(b) == b.code = "E0" \/ (e0_prefix /\ b.up)

NextPrefix(b) == b.code = "E0"

Event(b, upper) ==
  [code |-> b.code, upper |-> upper, shifted |-> b.shifted, excused |-> b.excused,
   stamp |-> int8(tick_count), sent |-> tick_count]

(* The byte at the front of the wire is handled.                           *)
Interrupt(who) ==
  /\ driver = who /\ wire # << >>
  /\ wire' = Tail(wire)
  /\ UNCHANGED <<driver, tick_count, held, astray>>

Table(b) == IF b.up THEN key_pressed \ {Index(b.code)}
            ELSE key_pressed \cup {Index(b.code)}

(* Mutant: the release of a shift key is not noticed.                      *)
Shift_sticks(b) == shift_pressed \/ IsShift(Index(b.code))

Shift(b) == IF IsShift(Index(b.code)) THEN ~b.up ELSE shift_pressed

ps2k_irq_handler ==
  LET b == Head(wire)
      index == Index(b.code)
  IN  /\ Interrupt("ps2k")
      /\ e0_prefix' = NextPrefix(b)
      /\ IF b.code = "E0"
         THEN UNCHANGED <<key_pressed, shift_pressed, event>>
         ELSE /\ key_pressed' = Table(b)
              /\ shift_pressed' = Shift(b)
              /\ event' = IF ~b.up /\ ~IsShift(index) /\ HasCharacter(index)
                          THEN Event(b, shift_pressed) ELSE event

(* The i386 driver pushes the shift keys too: their table entries are not  *)
(* zero.                                                                   *)
keyboard_interrupt_handler ==
  LET b == Head(wire)
      index == Index(b.code)
  IN  /\ Interrupt("keyboard")
      /\ e0_prefix' = NextPrefix(b)
      /\ IF b.code = "E0"
         THEN UNCHANGED <<key_pressed, shift_pressed, event>>
         ELSE /\ key_pressed' = Table(b)
              /\ shift_pressed' = Shift(b)
              /\ event' = IF ~b.up /\ (IsShift(index) \/ HasCharacter(index))
                          THEN Event(b, Shift(b)) ELSE event

(* The older one takes an E0 byte for a release, which it ignores.         *)
keyboard_interrupt_handler_i386 ==
  LET b == Head(wire)
      is_shift == b.code \in {LeftShift, RightShift}
  IN  /\ Interrupt("i386")
      /\ shift_pressed' = IF is_shift THEN ~b.up ELSE shift_pressed
      /\ event' = IF ~b.up /\ ~is_shift /\ b.code \in Printable
                  THEN Event(b, shift_pressed) ELSE event
      /\ UNCHANGED <<key_pressed, e0_prefix>>

Keystroke ==
  \/ \E k \in Keys : kbd_press(k) \/ kbd_repeat(k) \/ kbd_release(k)
  \/ \E up \in BOOLEAN : kbd_fake(up)

Handler == ps2k_irq_handler \/ keyboard_interrupt_handler \/ keyboard_interrupt_handler_i386

(* What is decoded depends on no tick; only the time stamps do.            *)
Decoding == Keystroke \/ Handler

Next == Decoding \/ timer_tick

Spec == Init /\ [][Next]_vars

-----------------------------------------------------------------------------
(* Properties                                                              *)

(* Once every byte sent is handled, is_key_pressed() tells exactly which   *)
(* keys are held, whatever the interleaving of keys, repeats and prefixes; *)
(* a fake shift is nobody's key (ps2k.c:117-127, keyboard.c:411-422).      *)
InSync ==
  driver # "i386" /\ wire = << >> => key_pressed \ {FakeShift} = held /\ ~e0_prefix

(* A character is upper case exactly if a shift was held when its key was  *)
(* pressed, except between the release of one shift with the other held,   *)
(* which clears the flag, and the next byte of a shift (ps2k.c:122-132,    *)
(* keyboard.c:425-434); a fake shift misleads only the older driver, and   *)
(* only until the next byte of a shift (i386 keyboard.c:392-397).          *)
CaseIsShift ==
  event.code \in Printable /\ ~event.excused => event.upper = event.shifted

(* key_event_t.timestamp is, says keyboard.h:52, the "Timestamp of the     *)
(* event in ms since boot".                                                *)
TimestampIsUptime == event.stamp = event.sent
=============================================================================
