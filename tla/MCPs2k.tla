------------------------------- MODULE MCPs2k -------------------------------
(* Ps2k with both shifts, a letter, an extended key with the letter's code *)
(* (as keypad Enter and Enter).                                            *)
EXTENDS Ps2k

MCKeys == {<<FALSE, "L">>, <<FALSE, "R">>, <<FALSE, "A">>, <<TRUE, "A">>}
FewKeys == {<<FALSE, "L">>, <<FALSE, "R">>, <<FALSE, "A">>}
=============================================================================
