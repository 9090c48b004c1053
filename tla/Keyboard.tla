------------------------------ MODULE Keyboard ------------------------------
(***************************************************************************)
(* The two halves of the keyboard's input: the interrupt handlers that     *)
(* decode its bytes (Ps2k) and the rings that hold the decoded keys for    *)
(* their listeners (KeyboardQueue).  All that passes from one to the other *)
(* is the argument of keyboard_push(), so a behaviour is one half's.       *)
(***************************************************************************)
EXTENDS KeyboardQueue

CONSTANTS KeyCodes, LeftShift, RightShift, Printable, MaxWire, MaxTicks, TimestampRange

VARIABLES half,
          driver, key_pressed, shift_pressed, e0_prefix, event, tick_count,
          held, wire, astray

Dec == INSTANCE Ps2k WITH Keys <- KeyCodes

ASSUME KeyCodesAssumption == Dec!KeysOK

decoder_vars == <<driver, key_pressed, shift_pressed, e0_prefix, event, tick_count,
                  held, wire, astray>>
keyboard_vars == <<half, vars, decoder_vars>>

KbdInit == /\ half \in {"rings", "decoder"}
           /\ Init /\ Dec!Init
           /\ half = "rings" => driver = "ps2k"

KbdNext == \/ half = "rings" /\ Next /\ UNCHANGED <<half, decoder_vars>>
           \/ half = "decoder" /\ Dec!Decoding /\ UNCHANGED <<half, vars>>

KbdSpec == KbdInit /\ [][KbdNext]_keyboard_vars
-----------------------------------------------------------------------------
\* Once every byte is handled, is_key_pressed() tells which keys are held.
InSync == Dec!TypeOK /\ Dec!InSync

\* A character is upper case exactly if a shift was held with its key.
CaseIsShift == Dec!CaseIsShift
=============================================================================
