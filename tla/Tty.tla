-------------------------------- MODULE Tty --------------------------------
(***************************************************************************)
(* The VGA text terminals that printf() writes to: the i386 port's scrolls *)
(* and moves the hardware cursor, the x86_64 port's starts again at the    *)
(* top.  Colours are left out.                                             *)
(***************************************************************************)
EXTENDS Integers, Sequences, FiniteSetsExt, Loops

CONSTANTS VGA_WIDTH, VGA_HEIGHT,
          Chars,      \* the characters written
          Decimals,   \* the numbers given to terminal_write_dec()
          MaxText     \* bound: the characters written

VARIABLES arch, term, text    \* the port, the terminal, history: what was written

tvars == <<arch, term, text>>

Index(x, y) == y * VGA_WIDTH + x
terminal_initialize ==
    [buffer |-> [i \in 0..VGA_WIDTH * VGA_HEIGHT - 1 |-> " "], row |-> 0, col |-> 0, cursor |-> 0]

update_hardware_cursor(t) == [t EXCEPT !.cursor = Index(t.col, t.row) % 2^16]

(* Out of bounds it leaves BUG in the corner and, once an interrupt ends   *)
(* the hlt, writes past the row or the buffer; InBounds shows it does not. *)
InBounds(x, y) == x < VGA_WIDTH /\ y < VGA_HEIGHT
terminal_putentryat(t, c, x, y) ==
    IF InBounds(x, y) THEN [t EXCEPT !.buffer[Index(x, y)] = c]
    ELSE [t EXCEPT !.buffer[0] = "BUG"]

terminal_scrolln(t, rows) ==
    [t EXCEPT !.buffer = [i \in DOMAIN @ |-> IF i < (VGA_HEIGHT - rows) * VGA_WIDTH
                                             THEN @[i + rows * VGA_WIDTH] ELSE " "]]
terminal_scroll(t) ==
    [t EXCEPT !.buffer = [i \in DOMAIN @ |-> IF i < (VGA_HEIGHT - 1) * VGA_WIDTH
                                             THEN @[i + VGA_WIDTH] ELSE " "]]

Backspace(t) ==
    IF t.col = 0 THEN t
    ELSE update_hardware_cursor(terminal_putentryat([t EXCEPT !.col = @ - 1], " ", t.col - 1, t.row))
Newline(t) ==
    update_hardware_cursor(
        IF t.row >= VGA_HEIGHT - 1 THEN [terminal_scroll(t) EXCEPT !.row = VGA_HEIGHT - 1, !.col = 0]
        ELSE [t EXCEPT !.row = @ + 1, !.col = 0])
WrapAt(t, height) ==
    IF t.col < VGA_WIDTH THEN t
    ELSE IF t.row + 1 >= height THEN [terminal_scroll(t) EXCEPT !.col = 0, !.row = VGA_HEIGHT - 1]
    ELSE [t EXCEPT !.col = 0, !.row = @ + 1]
Wrap_late(t) == WrapAt(t, VGA_HEIGHT + 1)
Wrap(t) == WrapAt(t, VGA_HEIGHT)
terminal_putchar(t, c) ==
    CASE c = "bs" -> Backspace(t)
      [] c = "\n" -> Newline(t)
      [] OTHER -> update_hardware_cursor(
                    Wrap([terminal_putentryat(t, c, t.col, t.row) EXCEPT !.col = @ + 1]))

(* The x86_64 port: no backspace, no scrolling, no cursor.                 *)
Down(t) == [t EXCEPT !.col = 0, !.row = IF @ + 1 = VGA_HEIGHT THEN 0 ELSE @ + 1]
terminal_putchar_x86_64(t, c) ==
    IF c = "\n" THEN Down(t)
    ELSE LET put == [terminal_putentryat(t, c, t.col, t.row) EXCEPT !.col = @ + 1]
         IN  IF put.col = VGA_WIDTH THEN Down(put) ELSE put

Put(t, c) == IF arch = "i386" THEN terminal_putchar(t, c) ELSE terminal_putchar_x86_64(t, c)
terminal_write(t, s) == For(LAMBDA u, i : Put(u, s[i]), t, 1, Len(s))

(* terminal_write_dec(): digits from the last on into tmp, then backwards. *)
Digit == <<"0", "1", "2", "3", "4", "5", "6", "7", "8", "9">>
DecLoop(s) == IF s.n = 0 THEN s
              ELSE [n |-> s.n \div 10, tmp |-> Append(s.tmp, Digit[(s.n % 10) + 1])]
terminal_write_dec(t, n) ==
    LET s == IF n = 0 THEN [n |-> 0, tmp |-> <<"0">>] ELSE Repeat(DecLoop, [n |-> n, tmp |-> <<>>], 10)
    IN  terminal_write(t, [i \in 1..Len(s.tmp) |-> s.tmp[Len(s.tmp) + 1 - i]])
-----------------------------------------------------------------------------
putchar ==
    \E c \in Chars :
      /\ arch = "x86_64" => c # "bs"
      /\ Len(text) < MaxText /\ text' = Append(text, c)
      /\ term' = terminal_write(term, <<c>>)
      /\ UNCHANGED arch

Digits(n) == LET k == Min({m \in 1..9 : n < 10^m})
             IN  [i \in 1..k |-> Digit[((n \div 10^(k - i)) % 10) + 1]]
write_dec ==
    \E n \in Decimals :
      /\ arch = "i386"
      /\ Len(text) + Len(Digits(n)) <= MaxText /\ text' = text \o Digits(n)
      /\ term' = terminal_write_dec(term, n)
      /\ UNCHANGED arch

TInit == arch \in {"i386", "x86_64"} /\ term = terminal_initialize /\ text = <<>>
TNext == putchar \/ write_dec
-----------------------------------------------------------------------------
(* The lines of a text on a terminal that moves on when a line is full.    *)
TtyAdd(lines, c) ==
    LET n == Len(lines)
    IN  CASE c = "\n" -> Append(lines, <<>>)
          [] c = "bs" -> [lines EXCEPT ![n] = IF @ = <<>> THEN @ ELSE SubSeq(@, 1, Len(@) - 1)]
          [] OTHER -> LET added == [lines EXCEPT ![n] = Append(@, c)]
                      IN  IF Len(added[n]) = VGA_WIDTH THEN Append(added, <<>>) ELSE added
TtyLines == For(LAMBDA ls, i : TtyAdd(ls, text[i]), <<<<>>>>, 1, Len(text))

(* Whatever is written, erased, wrapped and scrolled, the i386 terminal    *)
(* shows the last VGA_HEIGHT lines of the text (never BUG in the corner),  *)
(* the hardware cursor stands behind the last character, and               *)
(* terminal_scrolln(n) is n times terminal_scroll().                       *)
TtyIsText ==
    arch = "i386" =>
      LET lines == TtyLines
          top == IF Len(lines) > VGA_HEIGHT THEN Len(lines) - VGA_HEIGHT + 1 ELSE 1
      IN  /\ \A y \in 0..VGA_HEIGHT - 1, x \in 0..VGA_WIDTH - 1 :
               term.buffer[Index(x, y)] =
                 IF top + y <= Len(lines) /\ x < Len(lines[top + y]) THEN lines[top + y][x + 1] ELSE " "
          /\ term.cursor = Index(Len(lines[Len(lines)]), Len(lines) - top)
          /\ \A n \in 0..VGA_HEIGHT : terminal_scrolln(term, n) = Repeat(terminal_scroll, term, n)

(* The x86_64 terminal goes round: each cell shows the last character that *)
(* any line with that row, counted modulo VGA_HEIGHT, has in that column.  *)
TtyGoesRound ==
    arch = "x86_64" =>
      LET lines == TtyLines
      IN  \A y \in 0..VGA_HEIGHT - 1, x \in 0..VGA_WIDTH - 1 :
            LET at == {l \in 1..Len(lines) : (l - 1) % VGA_HEIGHT = y /\ x < Len(lines[l])}
            IN  term.buffer[Index(x, y)] = IF at = {} THEN " " ELSE lines[Max(at)][x + 1]
=============================================================================
