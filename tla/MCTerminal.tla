----------------------------- MODULE MCTerminal -----------------------------
(***************************************************************************)
(* Instances of Terminal for TLC.                                          *)
(***************************************************************************)
EXTENDS Terminal, TLC

CONSTANTS A, B    \* two processes

(* One prints over the end of a line, the other below and at the log level.*)
MCProgram == A :> <<[level |-> "WARN", text |-> <<"a", "\n">>]>>
             @@ B :> <<[level |-> "DEBUG", text |-> <<"z">>], [level |-> "OK", text |-> <<"c", "\t">>]>>

MCTypedKeys == {"e", "c", " ", "\n", "bs", "\t"}
MCNames == <<<<"a", "b">>, <<"a">>, <<"b">>>>
MCChars == {"a", "\n", "bs"}
MCServes == {-500, 400}
MCKeySets == {{}, {"s", "w", "up"}}
=============================================================================
