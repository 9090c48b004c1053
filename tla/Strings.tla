------------------------------- MODULE Strings -------------------------------
(***************************************************************************)
(* libc/string/string.c, libc/stdio/printf.c and the number conversions.   *)
(* A byte is a number; a region of memory is a function on addresses; a C  *)
(* string is a sequence without its terminator.  A converted number is the *)
(* sequence of its digits, and the characters of a format are one letter   *)
(* strings.                                                                *)
(***************************************************************************)
EXTENDS Integers, Sequences, FiniteSets, Loops

memcpy(mem, dst, src, size) ==
    For(LAMBDA m, i : [m EXCEPT ![dst + i] = m[src + i]], mem, 0, size - 1)

\* The direction does not depend on the order of the regions.
memmove_forward(mem, dst, src, size) == memcpy(mem, dst, src, size)

memmove(mem, dst, src, size) ==
    IF dst < src
    THEN For(LAMBDA m, i : [m EXCEPT ![dst + i] = m[src + i]], mem, 0, size - 1)
    ELSE ForDown(LAMBDA m, i : [m EXCEPT ![dst + i - 1] = m[src + i - 1]], mem, size, 1)

memset(mem, buf, value, size) ==
    For(LAMBDA m, i : [m EXCEPT ![buf + i] = value % 256], mem, 0, size - 1)

\* The sign of the first difference of two regions.
RECURSIVE CompareFrom(_, _, _, _)
CompareFrom(a, b, i, size) ==
    IF i > size THEN 0
    ELSE IF a[i] < b[i] THEN -1 ELSE IF b[i] < a[i] THEN 1 ELSE CompareFrom(a, b, i + 1, size)

memcmp(a, b, size) == CompareFrom(a, b, 1, size)

\* s[i], with the terminator behind the last character; a plain char is
\* signed on both ports.
char(byte) == IF byte < 128 THEN byte ELSE byte - 256
CharAt(s, i) == IF i <= Len(s) THEN char(s[i]) ELSE 0
strlen(s) == Len(s)
strnlen(s, maxlen) == IF Len(s) < maxlen THEN Len(s) ELSE maxlen

\* The characters up to n, or up to the end of one of the strings.
RECURSIVE DifferenceFrom(_, _, _, _, _)
DifferenceFrom(s1, s2, i, n, otherwise) ==
    IF i > n THEN otherwise
    ELSE IF CharAt(s1, i) = 0 \/ CharAt(s2, i) = 0 \/ s1[i] # s2[i]
    THEN CharAt(s1, i) - CharAt(s2, i)
    ELSE DifferenceFrom(s1, s2, i + 1, n, otherwise)

strncmp(s1, s2, n) == DifferenceFrom(s1, s2, 1, n, 0)

PANIC == 1000

strcmp(s1, s2, MAX_STRCMP_COMPARISONS) ==
    DifferenceFrom(s1, s2, 1, MAX_STRCMP_COMPARISONS, PANIC)

\* C division truncates towards zero, so the digits of a negative number are
\* negative and no sign is written.
RECURSIVE DigitsOf(_, _)
DigitsOf(num, base) ==
    LET q == IF num >= 0 THEN num \div base ELSE -((-num) \div base)
        d == num - q * base
    IN  IF q = 0 THEN <<d>> ELSE Append(DigitsOf(q, base), d)

itoa(num) == DigitsOf(num, 10)

itoa_hex(num) == IF num = 0 THEN <<0>> ELSE DigitsOf(num, 16)

(* --- printf ------------------------------------------------------------------ *)

\* How many characters of plain text follow, the first one included.
RECURSIVE PlainRun(_)
PlainRun(format) ==
    IF Len(format) = 1 \/ format[2] = "%" THEN 1 ELSE 1 + PlainRun(Tail(format))

\* Only the number of digits of a number matters here.
Marks(digits) == [i \in DOMAIN digits |-> "#"]

\* What one directive writes of argument arg, and whether the remaining room
\* is enough for it: numbers are only refused when there is no room at all.
Converted(directive, arg) ==
    CASE directive = "c" -> <<arg.char>>
      [] directive = "s" -> arg.str
      [] directive = "d" -> Marks(itoa(arg.num))
      [] directive = "x" -> Marks(itoa_hex(arg.num))
Fits(directive, text, maxrem) ==
    IF directive = "s" THEN Len(text) <= maxrem ELSE maxrem > 0

RECURSIVE PrintfFrom(_, _, _, _)
PrintfFrom(format, args, out, INT_MAX) ==
    LET maxrem == INT_MAX - Len(out)
    IN  IF format = <<>> THEN [out |-> out, ret |-> Len(out)]
        ELSE IF format[1] # "%" \/ (Len(format) > 1 /\ format[2] = "%")
        THEN LET f == IF format[1] = "%" THEN Tail(format) ELSE format
                 n == PlainRun(f)
             IN  IF maxrem < n THEN [out |-> out, ret |-> -1]
                 ELSE PrintfFrom(SubSeq(f, n + 1, Len(f)), args, out \o SubSeq(f, 1, n), INT_MAX)
        ELSE IF Len(format) > 1 /\ format[2] \in {"c", "s", "d", "x"}
        THEN LET text == Converted(format[2], args[1])
             IN  IF ~Fits(format[2], text, maxrem) THEN [out |-> out, ret |-> -1]
                 ELSE PrintfFrom(SubSeq(format, 3, Len(format)), Tail(args), out \o text, INT_MAX)
        ELSE IF maxrem < Len(format) THEN [out |-> out, ret |-> -1]
        ELSE [out |-> out \o format, ret |-> Len(out) + Len(format)]

printf(format, args, INT_MAX) == PrintfFrom(format, args, <<>>, INT_MAX)

(* --- the kernel's formatters ---------------------------------------------- *)

(* console_vprintf(), serial_vprintf() and the loggers of the two ports.   *)
(* args is a sequence of [num, str, char], one for each directive.         *)

Hex == <<"0", "1", "2", "3", "4", "5", "6", "7", "8", "9", "a", "b", "c", "d", "e", "f">>
OVERRUN == "read past the end of the format"

(* Digits from the last on: into the front of buf, to be put backwards ... *)
Peel(s, base) == IF s.val = 0 THEN s
                 ELSE [val |-> s.val \div base, buf |-> Append(s.buf, Hex[(s.val % base) + 1])]
Peeled(val, base) == Repeat(LAMBDA s : Peel(s, base), [val |-> val, buf |-> <<>>], 20).buf
console_write_uint(val, base) ==
    LET buf == Peeled(val, base)
    IN  IF val = 0 THEN <<"0">> ELSE [i \in 1..Len(buf) |-> buf[Len(buf) + 1 - i]]

(* ... or into the end of buf, of 64 places, to be written as it stands.   *)
Prepend(s, base) == IF s.val = 0 \/ s.i = 0 THEN s
                    ELSE [val |-> s.val \div base, i |-> s.i - 1, buf |-> <<Hex[(s.val % base) + 1]>> \o s.buf]
serial_write_uint(val, base) ==
    IF val = 0 THEN <<"0">>
    ELSE Repeat(LAMBDA s : Prepend(s, base), [val |-> val, i |-> 64, buf |-> <<>>], 20).buf

Signed(val, digits) == IF val < 0 THEN <<"-">> \o digits ELSE digits
Magnitude(val) == IF val < 0 THEN -val ELSE val
console_write_int(val) == Signed(val, console_write_uint(Magnitude(val), 10))
serial_write_int(val) == Signed(val, serial_write_uint(Magnitude(val), 10))

(* One character of the format; mode is "text", or "%", or "l" behind %l.  *)
(* Each port has its own writers of numbers.                               *)
Read(s, c, args, port) ==
    LET arg == args[s.used + 1]
        WriteInt(val) == IF port = "console" THEN console_write_int(val) ELSE serial_write_int(val)
        Write(val, base) == IF port = "console" THEN console_write_uint(val, base)
                            ELSE serial_write_uint(val, base)
        Done(text, used) == [mode |-> "text", used |-> s.used + used, out |-> s.out \o text]
    IN  CASE s.mode = "text" /\ c # "%" -> Done(<<c>>, 0)
          [] s.mode = "text" /\ c = "%" -> [s EXCEPT !.mode = "%"]
          [] s.mode # "text" /\ c = "d" -> Done(WriteInt(arg.num), 1)
          [] s.mode # "text" /\ c = "u" -> Done(Write(arg.num, 10), 1)
          [] s.mode # "text" /\ c = "x" -> Done(Write(arg.num, 16), 1)
          [] s.mode = "%" /\ c = "l" -> [s EXCEPT !.mode = "l"]
          [] s.mode = "%" /\ c = "p" -> Done(<<"0", "x">> \o Write(arg.num, 16), 1)
          [] s.mode = "%" /\ c = "s" -> Done(arg.str, 1)
          [] s.mode = "%" /\ c = "c" -> Done(<<arg.char>>, 1)
          [] s.mode = "%" /\ c = "%" -> Done(<<"%">>, 0)
          [] s.mode = "%" /\ c \notin {"l", "d", "u", "x", "p", "s", "c", "%"} -> Done(<<"%", c>>, 0)
          [] OTHER -> Done(<<"%", "l", c>>, 0)

(* A format that ends inside a directive: p passes its terminator.         *)
Written(s) == IF s.mode = "text" THEN s.out ELSE Append(s.out, OVERRUN)
Begun == [mode |-> "text", used |-> 0, out |-> <<>>]
console_vprintf(fmt, args) ==
    Written(For(LAMBDA s, i : Read(s, fmt[i], args, "console"),
                Begun, 1, Len(fmt)))
serial_vprintf(fmt, args) ==
    Written(For(LAMBDA s, i : Read(s, fmt[i], args, "serial"),
                Begun, 1, Len(fmt)))

(* The loggers: what reaches the console and the serial port.              *)
log_prefix == <<"[", "]">>
logf_x86_64(fmt, args, INT_MAX) ==
    [console |-> <<>>, serial |-> log_prefix \o printf(fmt, args, INT_MAX).out]
logf_i386(fmt, args, g_console_ready) ==
    [console |-> IF g_console_ready THEN log_prefix \o console_vprintf(fmt, args) ELSE <<>>,
     serial |-> log_prefix \o serial_vprintf(fmt, args)]
=============================================================================
