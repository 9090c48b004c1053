--------------------------- MODULE MCFoundation ---------------------------
(***************************************************************************)
(* Foundation for TLC.                                                     *)
(***************************************************************************)
EXTENDS Foundation

MCEntries == {"x", "y", "z"}
MCNodes == 1..7
MCKeys == 1..4
MCItems == {"p", "q"}

MCValues == {0, 1, 12, 21}
MCBytes == {1, 2, 200}
MCNumbers == {-2147483647, -10, -7, 0, 7, 9, 10, 15, 16, 99, 100, 255, 4096, 2147483647}
MCFormatChars == {"a", "%", "c", "s", "d", "z"}
MCLogChars == {"a", "%", "c", "s", "d", "x", "u", "l", "p", "z"}
=============================================================================
