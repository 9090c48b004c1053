----------------------------- MODULE MCKeyboard -----------------------------
(* Three listeners and two rings; both shifts, a letter and an extended    *)
(* key with the letter's code (as keypad Enter and Enter).                 *)
EXTENDS Keyboard

MCKeyCodes == {<<FALSE, "L">>, <<FALSE, "R">>, <<FALSE, "A">>, <<TRUE, "A">>}
=============================================================================
