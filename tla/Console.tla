------------------------------ MODULE Console -------------------------------
(***************************************************************************)
(* The framebuffer console: text drawn in cells of cell_h pixel rows on a  *)
(* screen of screen_h rows, which need not be a multiple of cell_h.  A     *)
(* pixel row of a column holds a slice of a glyph, <<c, k>>, or nothing.   *)
(* con is the screen and the cursor.                                       *)
(*                                                                         *)
(* Processes that call printk() and are preempted anywhere outside         *)
(* console_putchar(), which runs with interrupts off.  The console and the *)
(* serial port are shared, and so are the console's colours.               *)
(***************************************************************************)
EXTENDS Integers, Sequences, Loops

CONSTANTS max_cols, cell_h, screen_h

max_rows == screen_h \div cell_h
Ys == 0..screen_h - 1
Xs == 0..max_cols - 1
Background == <<>>
Glyph(c, k) == IF c = " " THEN Background ELSE <<c, k>>

console_clear == [pix |-> [y \in Ys |-> [x \in Xs |-> Background]], col |-> 0, row |-> 0]
console_init == console_clear

(* The pixels that scroll_up() copies and clears, and the cursor's row.    *)
ScrollBy(con, rows) ==
    [con EXCEPT !.pix = [y \in Ys |-> IF y < screen_h - cell_h THEN @[y + rows]
                                      ELSE [x \in Xs |-> Background]],
                !.row = max_rows - 1]
scroll_up(con) == ScrollBy(con, cell_h)

newline(con) ==
    LET down == [con EXCEPT !.col = 0, !.row = @ + 1]
    IN  IF down.row >= max_rows THEN scroll_up(down) ELSE down

(* gfx_fill_rect() over a cell, clipped to the screen, and the glyph.      *)
FillCell(con, c) ==
    [con EXCEPT !.pix = [y \in Ys |-> [x \in Xs |->
        IF x = con.col /\ y \in (con.row * cell_h)..(con.row * cell_h + cell_h - 1)
        THEN Glyph(c, y - con.row * cell_h) ELSE @[y][x]]]]

(* The three parts of console_putchar(): what comes before the drawing,    *)
(* the drawing of a character that is drawn, and the cursor's advance.     *)
Drawn(c) == c \notin {"\n", "\t"}
Tabbed(con) == [con EXCEPT !.col = ((@ + 4) \div 4) * 4]
Position(con, c) ==
    CASE c = "\n" -> newline(con)
      [] c = "\t" -> IF Tabbed(con).col >= max_cols THEN newline(Tabbed(con)) ELSE Tabbed(con)
      [] OTHER -> IF con.col >= max_cols THEN newline(con) ELSE con
Advance(con, c) == IF Drawn(c) THEN [con EXCEPT !.col = @ + 1] ELSE con
console_putchar(con, c) ==
    LET at == Position(con, c)
    IN  Advance(IF Drawn(c) THEN FillCell(at, c) ELSE at, c)
console_puts(con, s) == For(LAMBDA t, i : console_putchar(t, s[i]), con, 1, Len(s))

console_backspace_row(con) == IF con.col = 0 THEN con ELSE FillCell([con EXCEPT !.col = @ - 1], " ")
console_backspace(con) ==
    IF con.col = 0 /\ con.row = 0 THEN con
    ELSE FillCell(IF con.col = 0 THEN [con EXCEPT !.row = @ - 1, !.col = max_cols - 1]
                  ELSE [con EXCEPT !.col = @ - 1], " ")
-----------------------------------------------------------------------------
(* What a text should look like: its lines, each at most max_cols wide.    *)
AddTo(lines, c) ==
    LET n == Len(lines)
        pad == ((Len(lines[n]) + 4) \div 4) * 4
    IN  CASE c = "\n" -> Append(lines, <<>>)
          [] c = "\t" -> IF pad >= max_cols THEN Append(lines, <<>>)
                         ELSE [lines EXCEPT ![n] = @ \o [i \in 1..(pad - Len(@)) |-> " "]]
          [] OTHER -> IF Len(lines[n]) = max_cols THEN Append(lines, <<c>>)
                      ELSE [lines EXCEPT ![n] = Append(@, c)]
Lines(text) == For(LAMBDA ls, i : AddTo(ls, text[i]), <<<<>>>>, 1, Len(text))

(* con shows the lines from the top-th on, its cursor at the end of them.  *)
Shows(con, lines, top) ==
    /\ con.row = Len(lines) - top /\ con.col = Len(lines[Len(lines)])
    /\ \A r \in 0..max_rows - 1, x \in Xs, k \in 0..cell_h - 1 :
         con.pix[r * cell_h + k][x] =
           IF top + r <= Len(lines) /\ x < Len(lines[top + r])
           THEN Glyph(lines[top + r][x + 1], k) ELSE Background
-----------------------------------------------------------------------------

CONSTANTS Printers,    \* the processes
          Program,     \* the messages each of them prints, [level, text]
          log_level,   \* the threshold printk() filters with
          TxFifo       \* the transmit FIFO that init_serial() enables

VARIABLES con, fg, bg,    \* the console and its colours
          held,           \* how many bytes the UART holds
          cpu, intr,      \* who runs, and whether interrupts are on
          at,             \* where each process is, and in which of its messages
          shown, lost     \* history: the characters put, the bytes overrun

kvars == <<con, fg, bg, held, cpu, intr, at, shown, lost>>

Levels == <<"RAW", "DEBUG", "INFO", "OK", "WARN", "ERROR", "FATAL">>
Rank(level) == CHOOSE i \in 1..7 : Levels[i] = level

Tag(level) == IF level = "RAW" THEN <<>> ELSE <<"[">>
Colour(level) == IF level = "RAW" THEN "INFO" ELSE level

Message(p) == Program[p][at[p].n]
Output(p) == IF at[p].part = 1 THEN Tag(Message(p).level) ELSE Message(p).text
Goto(pc) == at' = [at EXCEPT ![cpu].pc = pc]
(* The loop over the characters of a string; the tag goes to the console   *)
(* and to the serial port before the text goes to either.                  *)
Loop(here, there) ==
    at' = [at EXCEPT ![cpu] =
             IF @.i < Len(Output(cpu)) THEN [@ EXCEPT !.pc = here, !.i = @ + 1]
             ELSE IF here = "poll" /\ @.part = 1 THEN [@ EXCEPT !.pc = "save", !.i = 1, !.part = 2]
             ELSE [@ EXCEPT !.pc = there, !.i = 1]]

(* printk() returns at once for a level below the threshold.               *)
filter ==
    /\ at[cpu].pc = "call" /\ at[cpu].n <= Len(Program[cpu])
    /\ Rank(Message(cpu).level) < Rank(log_level)
    /\ at' = [at EXCEPT ![cpu].n = @ + 1]
    /\ UNCHANGED <<con, fg, bg, held, cpu, intr, shown, lost>>

(* The switch over the levels, one colour at a time.  The case for         *)
(* KERN_WARN has no break and goes on into KERN_FATAL's.                   *)
AfterFg(level) == CASE level = "WARN" -> "fall" [] level = "FATAL" -> "bg" [] OTHER -> "save"
set_fg ==
    /\ at[cpu].pc = "call" /\ at[cpu].n <= Len(Program[cpu])
    /\ Rank(Message(cpu).level) >= Rank(log_level)
    /\ LET level == Message(cpu).level
       IN  /\ fg' = Colour(level)
           /\ at' = [at EXCEPT ![cpu].pc = AfterFg(level),
                               ![cpu].part = IF Tag(level) = <<>> THEN 2 ELSE 1]
    /\ UNCHANGED <<con, bg, held, cpu, intr, shown, lost>>
fall_through ==
    /\ at[cpu].pc = "fall"
    /\ fg' = "FATAL" /\ Goto("bg")
    /\ UNCHANGED <<con, bg, held, cpu, intr, shown, lost>>
set_bg ==
    /\ at[cpu].pc = "bg"
    /\ bg' = "FATAL" /\ Goto("save")
    /\ UNCHANGED <<con, fg, held, cpu, intr, shown, lost>>

(* console_putchar(), a step between irq_save() and irq_restore() each.    *)
SaveFlags(on) ==
    /\ at[cpu].pc = "save"
    /\ intr' = on
    /\ con' = Position(con, Output(cpu)[at[cpu].i])
    /\ Goto("draw")
    /\ UNCHANGED <<fg, bg, held, cpu, shown, lost>>
irq_save_only == SaveFlags(TRUE)
irq_save == SaveFlags(FALSE)
draw ==
    /\ at[cpu].pc = "draw"
    /\ LET c == Output(cpu)[at[cpu].i]
       IN  con' = IF Drawn(c) THEN FillCell(con, c) ELSE con
    /\ Goto("advance")
    /\ UNCHANGED <<fg, bg, held, cpu, intr, shown, lost>>
irq_restore ==
    /\ at[cpu].pc = "advance"
    /\ LET c == Output(cpu)[at[cpu].i]
       IN  con' = Advance(con, c) /\ shown' = Append(shown, c)
    /\ Loop("save", "poll")
    /\ intr' = TRUE
    /\ UNCHANGED <<fg, bg, held, cpu, lost>>

(* serial_putchar(): wait until the transmitter is empty, then write.      *)
serial_transmit_empty ==
    /\ at[cpu].pc = "poll" /\ held = 0
    /\ Goto("out")
    /\ UNCHANGED <<con, fg, bg, held, cpu, intr, shown, lost>>
serial_putchar ==
    /\ at[cpu].pc = "out"
    /\ IF held < TxFifo THEN held' = held + 1 /\ UNCHANGED lost
       ELSE lost' = TRUE /\ UNCHANGED held
    /\ Loop("poll", "reset_fg")
    /\ UNCHANGED <<con, fg, bg, cpu, intr, shown>>
uart_send ==
    /\ held > 0 /\ held' = held - 1
    /\ UNCHANGED <<con, fg, bg, cpu, intr, at, shown, lost>>

reset_fg ==
    /\ at[cpu].pc = "reset_fg"
    /\ fg' = "INFO" /\ Goto("reset_bg")
    /\ UNCHANGED <<con, bg, held, cpu, intr, shown, lost>>
reset_bg ==
    /\ at[cpu].pc = "reset_bg"
    /\ bg' = "black" /\ at' = [at EXCEPT ![cpu] = [pc |-> "call", n |-> @.n + 1, part |-> 1, i |-> 1]]
    /\ UNCHANGED <<con, fg, held, cpu, intr, shown, lost>>

(* The timer interrupt, or a yield, hands the processor to another.        *)
preempt ==
    /\ intr
    /\ \E p \in Printers \ {cpu} : cpu' = p
    /\ UNCHANGED <<con, fg, bg, held, intr, at, shown, lost>>

init_serial == held = 0 /\ lost = FALSE
KInit ==
    /\ con = console_init /\ fg = "INFO" /\ bg = "black"
    /\ init_serial
    /\ cpu \in Printers /\ intr = TRUE
    /\ at = [p \in Printers |-> [pc |-> "call", n |-> 1, part |-> 1, i |-> 1]]
    /\ shown = <<>>

KNext ==
    \/ filter \/ set_fg \/ fall_through \/ set_bg \/ irq_save \/ draw \/ irq_restore
    \/ serial_transmit_empty \/ serial_putchar \/ uart_send
    \/ reset_fg \/ reset_bg \/ preempt
-----------------------------------------------------------------------------
(* Whoever is preempted by whom between two characters, none is lost or    *)
(* drawn twice: outside console_putchar() the screen is the tail of the    *)
(* text of the characters put so far, scrolled by whole text rows.         *)
ConsoleIsText ==
    (\A p \in Printers : at[p].pc \notin {"draw", "advance"}) =>
      LET lines == Lines(shown)
      IN  Shows(con, lines, IF Len(lines) > max_rows THEN Len(lines) - max_rows + 1 ELSE 1)

(* serial_putchar() polls and writes in two steps, so a process that was   *)
(* preempted in between writes to a transmitter that is no longer empty;   *)
(* with the FIFO on no byte is overrun while there are at most TxFifo      *)
(* processes.                                                              *)
SerialNeverOverruns == ~lost

(* When no process is inside printk(), the console has its default colours *)
(* again, whatever levels the interleaved messages had.                    *)
ColoursRestored == (\A p \in Printers : at[p].pc = "call") => fg = "INFO" /\ bg = "black"
=============================================================================
